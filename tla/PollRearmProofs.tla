--------------------------- MODULE PollRearmProofs ---------------------------
(***************************************************************************)
(* The chain of polls never forks faster than its delay, for any number of *)
(* runs and any delay longer than the timeout of the rearm job.            *)
(*                                                                         *)
(* Nothing locks the run list.  What replaces a lock is time: a run that   *)
(* the list did not show is younger than the look at the list, and too     *)
(* young to look itself before the first job is over.                      *)
(***************************************************************************)
EXTENDS PollRearm, TLAPS

\* newer orders the runs there are.
OrderInv ==
    /\ \A s, t \in Slots : <<s, t>> \in newer => state[s] # "free" /\ state[t] # "free"
    /\ \A s, t \in Slots : s # t /\ state[s] # "free" /\ state[t] # "free"
                              => <<s, t>> \in newer \/ <<t, s>> \in newer

\* Who has looked waited long enough, and saw every run older than its look.
LookInv ==
    /\ \A s \in Slots : state[s] = "listed" => age[s] >= MinDelay
    /\ \A s, t \in Slots : state[s] = "listed" /\ <<s, t>> \in newer
                              => age[t] <= elapsed[s]

\* The chain's last dispatch is no younger than the newest run, and
\* MinDelay old once a run may dispatch again.
GapInv ==
    /\ \A s \in Slots : state[s] \in {"polling", "timer", "listed"} /\ OwnsChain(s)
                           => age[s] <= gap
    /\ \A s \in Slots : state[s] = "listed" => gap >= MinDelay

IInv == TypeOK /\ OrderInv /\ LookInv /\ GapInv

-----------------------------------------------------------------------------
\* Two runs cannot both be past the list: the younger one is too young.
LEMMA Exclusive == TypeOK /\ OrderInv /\ LookInv => RearmExclusive
<1> SUFFICES ASSUME TypeOK, OrderInv, LookInv,
                    NEW s \in Slots, NEW t \in Slots,
                    state[s] = "listed", state[t] = "listed", s # t
             PROVE  FALSE
  BY DEF RearmExclusive
<1>1. \A a, b \in Slots : state[a] = "listed" /\ state[b] = "listed"
                             => <<a, b>> \notin newer
  <2> SUFFICES ASSUME NEW a \in Slots, NEW b \in Slots,
                      state[a] = "listed", state[b] = "listed", <<a, b>> \in newer
               PROVE  FALSE
    OBVIOUS
  <2>1. MinDelay <= age[b] /\ age[b] <= elapsed[a]
    BY DEF LookInv
  <2>2. elapsed[a] \in 0..JobTimeout /\ age[b] \in 0..MinDelay
    BY DEF TypeOK
  <2> QED
    BY <2>1, <2>2, DelayAssumption
<1> QED
  BY <1>1 DEF OrderInv

\* Initially there is no run at all.
LEMMA InitInv == Init => IInv
  BY DelayAssumption
  DEF Init, IInv, TypeOK, States, OrderInv, LookInv, GapInv, OwnsChain

\* A new run keeps the types of what it changes.
LEMMA CreateType ==
    ASSUME TypeOK, NEW n \in Slots, NEW by \in SUBSET Slots,
           NEW armed \in BOOLEAN, Create(n, by, armed)
    PROVE  /\ state' \in [Slots -> States]
           /\ carries' \in [Slots -> BOOLEAN]
           /\ newer' \subseteq Slots \X Slots
           /\ age' \in [Slots -> 0..MinDelay]
<1> USE DEF TypeOK, States, Create
<1>1. state' \in [Slots -> States]
  OBVIOUS
<1>2. carries' \in [Slots -> BOOLEAN]
  OBVIOUS
<1>3. newer' \subseteq Slots \X Slots
  BY DEF Existing
<1>4. age' \in [Slots -> 0..MinDelay]
  BY DelayAssumption
<1> QED
  BY <1>1, <1>2, <1>3, <1>4

\* Every step keeps the types.
LEMMA NextType == TypeOK /\ [Next]_vars => TypeOK'
<1> SUFFICES ASSUME TypeOK, [Next]_vars PROVE TypeOK'
  OBVIOUS
<1> USE DelayAssumption
<1> USE DEF TypeOK, States
<1>1. CASE \E n \in Slots : Kick(n)
  <2> PICK n \in Slots, armed \in BOOLEAN : Kick(n) /\ Create(n, {}, armed)
    BY <1>1 DEF Kick
  <2>1. {} \in SUBSET Slots
    OBVIOUS
  <2>2. /\ state' \in [Slots -> States]
        /\ carries' \in [Slots -> BOOLEAN]
        /\ newer' \subseteq Slots \X Slots
        /\ age' \in [Slots -> 0..MinDelay]
    <3> HIDE DEF TypeOK, States, Create
    <3> QED
      BY <2>1, CreateType
  <2> HIDE DEF Create, States
  <2> QED
    BY <2>2 DEF Kick
<1>2. CASE \E s \in Slots : EndPoll(s)
  BY <1>2 DEF EndPoll
<1>3. CASE \E s \in Slots : Rearm(s)
  BY <1>3 DEF Rearm
<1>4. CASE \E s \in Slots : Stop(s) \/ RearmFails(s)
  BY <1>4 DEF Stop, RearmFails, Finish
<1>5. CASE \E s, n \in Slots : Dispatch(s, n)
  <2> PICK s \in Slots, n \in Slots : Dispatch(s, n)
    BY <1>5
  <2>1. Create(n, {s}, TRUE)
    BY DEF Dispatch
  <2>2. {s} \in SUBSET Slots
    OBVIOUS
  <2>3. /\ state' \in [Slots -> States]
        /\ carries' \in [Slots -> BOOLEAN]
        /\ newer' \subseteq Slots \X Slots
        /\ age' \in [Slots -> 0..MinDelay]
    <3> HIDE DEF TypeOK, States, Create
    <3> QED
      BY <2>1, <2>2, CreateType
  <2>4. /\ elapsed' \in [Slots -> 0..JobTimeout]
        /\ gap' \in 0..MinDelay
        /\ kicks' \in 0..MaxKicks
    BY DEF Dispatch
  <2> QED
    BY <2>3, <2>4
<1>6. CASE \E s \in Slots : CancelRun(s)
  BY <1>6 DEF CancelRun, Vanish
<1>7. CASE \E s \in Slots : Forget(s)
  BY <1>7 DEF Forget, Vanish
<1>8. CASE Tick
  BY <1>8 DEF Tick
<1>9. CASE UNCHANGED vars
  BY <1>9 DEF vars
<1> QED
  BY <1>1, <1>2, <1>3, <1>4, <1>5, <1>6, <1>7, <1>8, <1>9 DEF Next, Script

\* Every step keeps the order of the runs.
LEMMA NextOrder == TypeOK /\ OrderInv /\ [Next]_vars => OrderInv'
<1> SUFFICES ASSUME TypeOK, OrderInv, [Next]_vars PROVE OrderInv'
  OBVIOUS
<1> USE DEF TypeOK, States, OrderInv
<1>1. CASE \E n \in Slots : Kick(n)
  BY <1>1 DEF Kick, Create, Existing
<1>2. CASE \E s \in Slots : EndPoll(s)
  BY <1>2 DEF EndPoll
<1>3. CASE \E s \in Slots : Rearm(s)
  BY <1>3 DEF Rearm
<1>4. CASE \E s \in Slots : Stop(s) \/ RearmFails(s)
  BY <1>4 DEF Stop, RearmFails, Finish
<1>5. CASE \E s, n \in Slots : Dispatch(s, n)
  BY <1>5 DEF Dispatch, Create, Existing
<1>6. CASE \E s \in Slots : CancelRun(s)
  BY <1>6 DEF CancelRun, Vanish
<1>7. CASE \E s \in Slots : Forget(s)
  BY <1>7 DEF Forget, Vanish
<1>8. CASE Tick
  BY <1>8 DEF Tick
<1>9. CASE UNCHANGED vars
  BY <1>9 DEF vars
<1> QED
  BY <1>1, <1>2, <1>3, <1>4, <1>5, <1>6, <1>7, <1>8, <1>9 DEF Next, Script

\* A new run is younger than any look at the list, and time passes for both.
LEMMA NextLook == TypeOK /\ OrderInv /\ LookInv /\ [Next]_vars => LookInv'
<1> SUFFICES ASSUME TypeOK, OrderInv, LookInv, [Next]_vars PROVE LookInv'
  OBVIOUS
<1> USE DelayAssumption
<1> USE DEF TypeOK, States, LookInv
<1>1. CASE \E n \in Slots : Kick(n)
  BY <1>1 DEF Kick, Create, Existing, OrderInv
<1>2. CASE \E s \in Slots : EndPoll(s)
  BY <1>2 DEF EndPoll
<1>3. CASE \E s \in Slots : Rearm(s)
  BY <1>3 DEF Rearm, OwnsChain, WaitedEnough
<1>4. CASE \E s \in Slots : Stop(s) \/ RearmFails(s)
  BY <1>4 DEF Stop, RearmFails, Finish
<1>5. CASE \E s, n \in Slots : Dispatch(s, n)
  BY <1>5 DEF Dispatch, Create, Existing, OrderInv
<1>6. CASE \E s \in Slots : CancelRun(s)
  BY <1>6 DEF CancelRun, Vanish
<1>7. CASE \E s \in Slots : Forget(s)
  BY <1>7 DEF Forget, Vanish
<1>8. CASE Tick
  BY <1>8 DEF Tick
<1>9. CASE UNCHANGED vars
  BY <1>9 DEF vars
<1> QED
  BY <1>1, <1>2, <1>3, <1>4, <1>5, <1>6, <1>7, <1>8, <1>9 DEF Next, Script

\* A dispatch sets the gap back with no other run past the list.
LEMMA NextGap == IInv /\ [Next]_vars => GapInv'
<1> SUFFICES ASSUME TypeOK, OrderInv, LookInv, GapInv, [Next]_vars PROVE GapInv'
  BY DEF IInv
<1> USE DelayAssumption
<1> USE DEF TypeOK, States, GapInv, OwnsChain
<1>1. CASE \E n \in Slots : Kick(n)
  <2> PICK n \in Slots, armed \in BOOLEAN : Kick(n) /\ Create(n, {}, armed)
    BY <1>1 DEF Kick
  <2>1. \A t \in Slots : state'[t] \in {"polling", "timer", "listed"} /\ t # n
                            => state'[t] = state[t] /\ <<t, n>> \in newer'
    BY DEF Create, Existing
  <2>2. age'[n] = 0 /\ gap' = gap
    BY DEF Kick, Create
  <2>3. state'[n] # "listed"
    <3>1. CASE \E t \in Slots : state[t] = "polling"
      BY <3>1 DEF Create
    <3>2. CASE ~\E t \in Slots : state[t] = "polling"
      BY <3>2 DEF Create
    <3> QED
      BY <3>1, <3>2
  <2>4. \A t \in Slots : state'[t] = "listed" => state[t] = "listed"
    BY <2>1, <2>3
  <2>5. \A t \in Slots : state'[t] \in {"polling", "timer", "listed"}
                            /\ OwnsChain(t)' => t = n
    BY <2>1
  <2> HIDE DEF OwnsChain
  <2> QED
    BY <2>2, <2>4, <2>5
<1>2. CASE \E s \in Slots : EndPoll(s)
  BY <1>2 DEF EndPoll
<1>3. CASE \E s \in Slots : Rearm(s)
  BY <1>3 DEF Rearm, WaitedEnough
<1>4. CASE \E s \in Slots : Stop(s) \/ RearmFails(s)
  BY <1>4 DEF Stop, RearmFails, Finish
<1>5. CASE \E s, n \in Slots : Dispatch(s, n)
  <2> PICK s \in Slots, n \in Slots : Dispatch(s, n)
    BY <1>5
  <2>1. \A t \in Slots : state[t] = "listed" => t = s
    BY Exclusive DEF RearmExclusive, Dispatch
  <2>2. \A t \in Slots : state'[t] \in {"polling", "timer", "listed"} /\ t # n
                            => state'[t] = state[t] /\ t # s
    BY DEF Dispatch, Create
  <2>3. \A t \in Slots : state'[t] \in {"polling", "timer", "listed"} /\ t # n
                            => <<t, n>> \in newer'
    BY <2>2 DEF Dispatch, Create, Existing
  <2>4. age'[n] = 0 /\ gap' = 0
    BY DEF Dispatch, Create
  <2>5. state'[n] \in {"queued", "polling"}
    <3>1. CASE \E t \in Slots : state[t] = "polling"
      BY <3>1 DEF Dispatch, Create
    <3>2. CASE ~\E t \in Slots : state[t] = "polling"
      BY <3>2 DEF Dispatch, Create
    <3> QED
      BY <3>1, <3>2
  <2> QED
    <3>1. \A t \in Slots : state'[t] # "listed"
      BY <2>1, <2>2, <2>5
    <3>2. \A t \in Slots : state'[t] \in {"polling", "timer", "listed"}
                              /\ OwnsChain(t)' => t = n
      BY <2>3
    <3> HIDE DEF OwnsChain
    <3> QED
      BY <2>4, <3>1, <3>2
<1>6. CASE \E s \in Slots : CancelRun(s)
  BY <1>6 DEF CancelRun, Vanish
<1>7. CASE \E s \in Slots : Forget(s)
  BY <1>7 DEF Forget, Vanish
<1>8. CASE Tick
  BY <1>8 DEF Tick
<1>9. CASE UNCHANGED vars
  BY <1>9 DEF vars
<1> QED
  BY <1>1, <1>2, <1>3, <1>4, <1>5, <1>6, <1>7, <1>8, <1>9 DEF Next, Script

\* The inductive invariant.
THEOREM RearmInvariant == Spec => []IInv
<1>1. IInv /\ [Next]_vars => IInv'
  BY NextType, NextOrder, NextLook, NextGap DEF IInv
<1> QED
  BY InitInv, <1>1, PTL DEF Spec

-----------------------------------------------------------------------------
\* Every value is of its type.
THEOREM RearmTypeCorrect == Spec => []TypeOK
<1>1. IInv => TypeOK
  BY DEF IInv
<1> QED
  BY <1>1, RearmInvariant, PTL

\* One rearm job at a time acts on what it read, whatever the number of runs.
THEOREM OneRearm == Spec => []RearmExclusive
<1>1. IInv => RearmExclusive
  BY Exclusive DEF IInv
<1> QED
  BY <1>1, RearmInvariant, PTL

\* Dispatches of the chain are MinDelay apart.
THEOREM DispatchesApart == Spec => NoTightLoop
<1>1. IInv => [\A s \in Slots : state[s] = "listed" /\ gap' = 0
                                   => gap >= MinDelay]_vars
  BY DEF IInv, GapInv
<1> QED
  BY <1>1, RearmInvariant, PTL DEF NoTightLoop
=============================================================================
