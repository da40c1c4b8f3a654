-------------------------- MODULE SabotagesProofs --------------------------
(***************************************************************************)
(* What holds of Sabotages for any consoles, timers and number of          *)
(* of overlapping calls.                                                   *)
(***************************************************************************)
EXTENDS Sabotages, FiniteSetTheorems, SequenceTheorems, TLAPS

Suspended == [op : Op, console : Console, old : State]

-----------------------------------------------------------------------------
(* Sequences and sets. *)

\* A call that is taken out leaves the others, in their order.
LEMMA RemovedAt ==
    ASSUME NEW S, NEW s \in Seq(S), NEW k \in 1 .. Len(s)
    PROVE  /\ RemoveAt(s, k) \in Seq(S)
           /\ Len(RemoveAt(s, k)) = Len(s) - 1
           /\ \A i \in 1 .. Len(s) - 1 :
                RemoveAt(s, k)[i] = IF i < k THEN s[i] ELSE s[i + 1]
<1> DEFINE a == SubSeq(s, 1, k - 1)
           b == SubSeq(s, k + 1, Len(s))
<1>1. /\ a \in Seq(S) /\ Len(a) = k - 1
      /\ \A i \in 1 .. k - 1 : a[i] = s[i]
    OBVIOUS
<1>2. /\ b \in Seq(S) /\ Len(b) = Len(s) - k
      /\ \A i \in 1 .. Len(s) - k : b[i] = s[k + i]
    <2>1. \A i \in k + 1 .. Len(s) : s[i] \in S OBVIOUS
    <2>2. /\ b \in Seq(S)
          /\ Len(b) = IF k + 1 <= Len(s) THEN Len(s) - (k + 1) + 1 ELSE 0
          /\ \A i \in 1 .. Len(s) - (k + 1) + 1 : b[i] = s[k + 1 + i - 1]
        BY <2>1, SubSeqProperties
    <2> QED BY <2>2
<1>3. RemoveAt(s, k) = a \o b BY DEF RemoveAt
<1> HIDE DEF a, b
<1>4. /\ a \o b \in Seq(S)
      /\ Len(a \o b) = Len(a) + Len(b)
      /\ \A i \in 1 .. Len(a) + Len(b) :
            (a \o b)[i] = IF i <= Len(a) THEN a[i] ELSE b[i - Len(a)]
    BY <1>1, <1>2, ConcatProperties
<1>5. ASSUME NEW i \in 1 .. Len(s) - 1
      PROVE  (a \o b)[i] = IF i < k THEN s[i] ELSE s[i + 1]
    <2>1. CASE i < k BY <1>1, <1>2, <1>4, <2>1
    <2>2. CASE ~(i < k)
        <3>1. (a \o b)[i] = b[i - (k - 1)] BY <1>1, <1>2, <1>4, <2>2
        <3>2. i - (k - 1) \in 1 .. Len(s) - k BY <2>2
        <3>3. b[i - (k - 1)] = s[k + (i - (k - 1))] BY <1>2, <3>2
        <3>4. k + (i - (k - 1)) = i + 1 OBVIOUS
        <3> QED BY <2>2, <3>1, <3>3, <3>4
    <2> QED BY <2>1, <2>2
<1>6. Len(a \o b) = Len(s) - 1 BY <1>1, <1>2, <1>4
<1> QED BY <1>3, <1>4, <1>5, <1>6

\* What is still there after another element was removed.
LEMMA StillThere ==
    ASSUME NEW S, NEW s \in Seq(S), NEW k \in 1 .. Len(s),
           NEW j \in 1 .. Len(s), j # k
    PROVE  \E i \in 1 .. Len(RemoveAt(s, k)) : RemoveAt(s, k)[i] = s[j]
<1>1. CASE j < k
    <2>1. j \in 1 .. Len(RemoveAt(s, k)) BY <1>1, RemovedAt
    <2>2. RemoveAt(s, k)[j] = s[j] BY <1>1, <2>1, RemovedAt
    <2> QED BY <2>1, <2>2
<1>2. CASE j > k
    <2>1. j - 1 \in 1 .. Len(RemoveAt(s, k)) BY <1>2, RemovedAt
    <2>2. RemoveAt(s, k)[j - 1] = s[j] BY <1>2, <2>1, RemovedAt
    <2> QED BY <2>1, <2>2
<1> QED BY <1>1, <1>2

LEMMA TwoConsoles == Cardinality({0, 1}) >= 2
<1>1. Cardinality({0}) = 1 BY FS_Singleton
<1>2. IsFiniteSet({0}) BY FS_Singleton
<1>3. Cardinality({0} \cup {1}) = Cardinality({0}) + 1 BY <1>2, FS_AddElement
<1>4. {0, 1} = {0} \cup {1} OBVIOUS
<1> QED BY <1>1, <1>3, <1>4

\* More consoles are not fewer.
LEMMA MoreConsoles ==
    ASSUME SabotageAssumption, NEW S, NEW T \in SUBSET Console, S \subseteq T,
           Cardinality(S) >= 2
    PROVE  Cardinality(T) >= 2
<1>1. IsFiniteSet(T) BY FS_Subset DEF SabotageAssumption
<1>2. Cardinality(S) <= Cardinality(T) /\ IsFiniteSet(S) BY <1>1, FS_Subset
<1>3. Cardinality(S) \in Nat /\ Cardinality(T) \in Nat
    BY <1>1, <1>2, FS_CardinalityType
<1> QED BY <1>2, <1>3

-----------------------------------------------------------------------------
(* Types. *)

LEMMA TimerType ==
    ASSUME SabotageAssumption
    PROVE  /\ Time \in Nat \ {0}
           /\ Off \in Nat
           /\ {0, Time, Off} \subseteq 0 .. Off
           /\ Off > Time
BY DEF SabotageAssumption, Off

\* The timer that runs stays in its range.
LEMMA TickType ==
    ASSUME SabotageAssumption, NEW t \in 0 .. Off
    PROVE  /\ (IF t = 0 THEN 0 ELSE t - 1) \in 0 .. Off
           /\ t > 0 => (IF t = Off THEN Off ELSE t - 1) \in 0 .. Off
BY TimerType

LEMMA RepairedType == ASSUME SabotageAssumption PROVE Repaired \in State
BY TimerType DEF Repaired, State, SabotageAssumption

\* A call that begins is one that is suspended.
LEMMA CallType ==
    ASSUME SabotageAssumption, TypeOK, NEW op \in Op, NEW c \in Console
    PROVE  Call(op, c) \in Suspended
BY DEF Call, Suspended, TypeOK

\* What is restored is a state.
LEMMA UndoneType ==
    ASSUME SabotageAssumption, TypeOK, NEW call \in Suspended
    PROVE  Undone(call) \in State
<1>1. call.old \in State /\ call.console \in Console /\ call.op \in Op
    BY DEF Suspended
<1>2. Off \in 0 .. Off BY TimerType
<1>3. sys \in State /\ kind \in Kind BY DEF TypeOK
<1>4. [timer |-> Off, done |-> call.old.done] \in State BY <1>1, <1>2 DEF State
<1>5. [sys EXCEPT !.done = call.old.done] \in State BY <1>1, <1>3 DEF State
<1>6. [sys EXCEPT !.done = @ \ {call.console}] \in State BY <1>1, <1>3 DEF State
<1>7. [sys EXCEPT !.done = @ \cup {call.console}] \in State BY <1>1, <1>3 DEF State
<1>8. \/ call.op = "repair"
      \/ call.op = "sabotage" /\ kind = "hq"
      \/ call.op = "sabotage" /\ kind # "hq"
      \/ call.op \in {"clear", "reset"}
      \/ call.op = "add"
      \/ call.op = "remove"
    BY <1>1 DEF Op
<1> QED BY <1>1, <1>4, <1>5, <1>6, <1>7, <1>8 DEF Undone

LEMMA VisibleType ==
    ASSUME NEW s \in State, kind \in Kind
    PROVE  Visible(s) \in [sabotaged : BOOLEAN, done : SUBSET Console]
BY DEF Visible, State, Sabotaged, Both

\* A call that is over, or that goes on as _repair.
LEMMA ReturnedType ==
    ASSUME SabotageAssumption, TypeOK, NEW k \in 1 .. Len(calls), Returned(k)
    PROVE  calls' \in Seq(Suspended) /\ dirty' \in BOOLEAN
<1>1. calls \in Seq(Suspended) BY DEF TypeOK, Suspended
<1>2. calls' \in Seq(Suspended) BY <1>1, RemovedAt DEF Returned
<1>3. dirty' \in BOOLEAN BY Zenon DEF Returned
<1> QED BY <1>2, <1>3

LEMMA RepairIfBothType ==
    ASSUME SabotageAssumption, TypeOK, NEW k \in 1 .. Len(calls),
           NEW s \in State, RepairIfBoth(k, s)
    PROVE  calls' \in Seq(Suspended) /\ dirty' \in BOOLEAN /\ sys' \in State
<1>1. CASE Both(s)
    <2>1. calls \in Seq(Suspended) BY DEF TypeOK, Suspended
    <2>5. calls[k] \in Suspended BY <2>1
    <2>2. [calls[k] EXCEPT !.op = "repair", !.old = s] \in Suspended
        BY <2>5 DEF Suspended, Op
    <2>3. calls' = [calls EXCEPT ![k] = [calls[k] EXCEPT !.op = "repair", !.old = s]]
        BY <1>1 DEF RepairIfBoth
    <2>4. calls' \in Seq(Suspended) BY <2>1, <2>2, <2>3
    <2> QED BY <1>1, <2>4, RepairedType DEF RepairIfBoth
<1>2. CASE ~Both(s) BY <1>2, ReturnedType DEF RepairIfBoth
<1> QED BY <1>1, <1>2

LEMMA TypeInit == ASSUME SabotageAssumption, Init PROVE TypeOK
<1>1. sys \in State BY TimerType DEF Init, State, SabotageAssumption
<1>2. told \in [sabotaged : BOOLEAN, done : SUBSET Console]
    <2>1. kind \in Kind /\ told = Visible(sys) BY DEF Init
    <2> QED BY <1>1, <2>1, VisibleType
<1>3. calls \in Seq([op : Op, console : Console, old : State]) BY DEF Init
<1>4. /\ kind \in Kind /\ meddle \in {"nothing", "repairs", "anything"}
      /\ {dirty, ending} \subseteq BOOLEAN
    BY DEF Init
<1> QED BY <1>1, <1>2, <1>3, <1>4 DEF TypeOK

LEMMA TypeSabotage == ASSUME SabotageAssumption, TypeOK, Sabotage PROVE TypeOK'
<1>1. sys' \in State BY TimerType DEF Sabotage, State
<1>2. calls' \in Seq(Suspended)
    <2>1. calls \in Seq(Suspended) BY DEF TypeOK, Suspended
    <2>2. 0 \in Console BY DEF SabotageAssumption
    <2>3. Call("clear", 0) \in Suspended /\ Call("sabotage", 0) \in Suspended
        BY <2>2, CallType DEF Op
    <2> QED BY <2>1, <2>3 DEF Sabotage
<1> QED BY <1>1, <1>2 DEF Sabotage, TypeOK, config, Suspended

LEMMA TypeCalls ==
    ASSUME SabotageAssumption, TypeOK, NEW c \in Console,
           AddConsole(c) \/ CompleteAgain(c) \/ RemoveConsole(c) \/ Repair
    PROVE  TypeOK'
<1>0. calls \in Seq(Suspended) /\ sys \in State BY DEF TypeOK, Suspended
<1>1. CASE AddConsole(c)
    <2>1. sys' \in State BY <1>0, <1>1 DEF AddConsole, State
    <2>2. Call("add", c) \in Suspended BY CallType DEF Op
    <2>3. calls' \in Seq(Suspended) BY <1>0, <1>1, <2>2 DEF AddConsole
    <2> QED BY <1>1, <2>1, <2>3 DEF AddConsole, TypeOK, config, Suspended
<1>2. CASE CompleteAgain(c)
    <2>1. sys' \in State BY <1>2, RepairedType DEF CompleteAgain
    <2>2. Call("repair", c) \in Suspended BY CallType DEF Op
    <2>3. calls' \in Seq(Suspended) BY <1>0, <1>2, <2>2 DEF CompleteAgain
    <2> QED BY <1>2, <2>1, <2>3 DEF CompleteAgain, TypeOK, config, Suspended
<1>3. CASE RemoveConsole(c)
    <2>1. sys' \in State BY <1>0, <1>3 DEF RemoveConsole, State
    <2>2. Call("remove", c) \in Suspended BY CallType DEF Op
    <2>3. calls' \in Seq(Suspended) BY <1>0, <1>3, <2>2 DEF RemoveConsole
    <2> QED BY <1>3, <2>1, <2>3 DEF RemoveConsole, TypeOK, config, Suspended
<1>4. CASE Repair
    <2>1. sys' \in State BY <1>4, RepairedType DEF Repair
    <2>2. Call("repair", 0) \in Suspended BY CallType DEF Op, SabotageAssumption
    <2>3. calls' \in Seq(Suspended) BY <1>0, <1>4, <2>2 DEF Repair
    <2> QED BY <1>4, <2>1, <2>3 DEF Repair, TypeOK, config, Suspended
<1> QED BY <1>1, <1>2, <1>3, <1>4

LEMMA TypeSettle ==
    ASSUME SabotageAssumption, TypeOK, NEW k \in 1 .. Len(calls), Settle(k)
    PROVE  TypeOK'
<1>0. /\ calls \in Seq(Suspended) /\ sys \in State
      /\ calls[k] \in Suspended /\ calls[k].console \in Console
    <2>1. calls \in Seq(Suspended) /\ sys \in State BY DEF TypeOK, Suspended
    <2>2. calls[k] \in Suspended BY <2>1
    <2> QED BY <2>1, <2>2 DEF Suspended
<1>1. CASE Agree(k)
    <2>1. calls' \in Seq(Suspended) /\ dirty' \in BOOLEAN /\ sys' \in State
        BY <1>0, <1>1, RepairIfBothType, ReturnedType DEF Agree
    <2> QED BY <1>1, <2>1 DEF Agree, TypeOK, config, Suspended
<1>2. CASE Revert(k)
    <2>1. calls' \in Seq(Suspended) /\ dirty' \in BOOLEAN /\ sys' \in State
        BY <1>0, <1>2, UndoneType, RepairIfBothType, ReturnedType DEF Revert
    <2> QED BY <1>2, <2>1 DEF Revert, TypeOK, config, Suspended
<1>3. ASSUME NEW c \in Console, Alter(k, c) PROVE TypeOK'
    <2>1. [sys EXCEPT !.done = (@ \ {calls[k].console}) \cup {c}] \in State
        BY <1>0 DEF State
    <2>2. [sys EXCEPT !.done = (@ \cup {calls[k].console}) \ {c}] \in State
        BY <1>0 DEF State
    <2>3. calls' \in Seq(Suspended) /\ dirty' \in BOOLEAN /\ sys' \in State
        BY <1>3, <2>1, <2>2, RepairIfBothType, ReturnedType DEF Alter
    <2> QED BY <1>3, <2>3 DEF Alter, TypeOK, config, Suspended
<1> QED BY <1>1, <1>2, <1>3 DEF Settle

LEMMA TellType ==
    ASSUME TypeOK, NEW s \in State, NEW marked \in BOOLEAN, Tell(s, marked)
    PROVE  /\ told' \in [sabotaged : BOOLEAN, done : SUBSET Console]
           /\ dirty' \in BOOLEAN
BY VisibleType DEF Tell, TypeOK

LEMMA TypeFixedUpdate ==
    ASSUME SabotageAssumption, TypeOK, FixedUpdate PROVE TypeOK'
<1>0. sys \in State /\ sys.timer \in 0 .. Off /\ dirty \in BOOLEAN
    BY DEF TypeOK, State
<1>1. CASE Unsabotaged
    BY <1>0, <1>1, TellType DEF Unsabotaged, TypeOK, config
<1>2. ASSUME NEW resend \in BOOLEAN, CountDown(resend) PROVE TypeOK'
    <2> DEFINE s == [sys EXCEPT !.timer = IF @ = 0 THEN 0 ELSE @ - 1]
    <2>1. s \in State BY <1>0, TickType DEF State
    <2>2. sys' = s /\ Tell(s, dirty \/ resend) BY <1>2 DEF CountDown
    <2>3. (ending \/ s.timer = 0) \in BOOLEAN BY DEF TypeOK
    <2>4. (dirty \/ resend) \in BOOLEAN BY <1>0
    <2> HIDE DEF s
    <2>5. ending' \in BOOLEAN BY <1>2, <2>3 DEF CountDown, s
    <2> QED BY <1>2, <2>1, <2>2, <2>4, <2>5, TellType DEF CountDown, TypeOK, config
<1>3. CASE ResetConsoles
    <2>1. [timer |-> Time, done |-> {}] \in State BY TimerType DEF State
    <2>2. Call("reset", 0) \in Suspended BY CallType DEF Op, SabotageAssumption
    <2>3. calls' \in Seq(Suspended)
        BY <1>3, <2>2 DEF ResetConsoles, TypeOK, Suspended
    <2> QED BY <1>3, <2>1, <2>3, TellType DEF ResetConsoles, TypeOK, config, Suspended
<1>4. CASE WaitForReset
    <2>1. sys' \in State BY <1>0, <1>4, TickType DEF WaitForReset, State
    <2> QED BY <1>0, <1>4, <2>1, TellType DEF WaitForReset, TypeOK, config
<1> QED BY <1>1, <1>2, <1>3, <1>4 DEF FixedUpdate

\* The states and the suspended calls keep their types, whatever the players,
\* the timers and the listeners do.
THEOREM SabotageTypeCorrect ==
    ASSUME SabotageAssumption
    PROVE  Spec => []TypeOK
<1>1. Init => TypeOK BY TypeInit
<1>2. TypeOK /\ [Next]_vars => TypeOK'
    <2> SUFFICES ASSUME TypeOK, [Next]_vars PROVE TypeOK' OBVIOUS
    <2>1. CASE UNCHANGED vars BY <2>1 DEF vars, TypeOK
    <2>2. CASE Sabotage BY <2>2, TypeSabotage
    <2>3. ASSUME NEW c \in Console,
                 AddConsole(c) \/ CompleteAgain(c) \/ RemoveConsole(c)
          PROVE  TypeOK'
        BY <2>3, TypeCalls
    <2>4. CASE Repair
        <3>1. 0 \in Console BY DEF SabotageAssumption
        <3> QED BY <2>4, <3>1, TypeCalls
    <2>5. ASSUME NEW k \in 1 .. Len(calls), Settle(k) PROVE TypeOK'
        BY <2>5, TypeSettle
    <2>6. CASE FixedUpdate BY <2>6, TypeFixedUpdate
    <2> QED BY <2>1, <2>2, <2>3, <2>4, <2>5, <2>6 DEF Next
<1> QED BY <1>1, <1>2, PTL DEF Spec

-----------------------------------------------------------------------------
(* What the clients show. *)

\* Told of a state, the clients show it.
LEMMA ToldOf ==
    ASSUME NEW s, NEW marked \in BOOLEAN, Tell(s, marked),
           marked \/ told = Visible(s)
    PROVE  told' = Visible(s)
BY DEF Tell

\* A tick of the timer does not change what the clients are to show.
LEMMA TickIsInvisible ==
    ASSUME SabotageAssumption, TypeOK, Sabotaged(sys), kind # "hq",
           NEW s, s = [sys EXCEPT !.timer = IF @ = 0 THEN 0 ELSE @ - 1]
    PROVE  Visible(s) = Visible(sys)
<1>1. sys \in State /\ sys.timer \in 0 .. Off BY DEF TypeOK, State
<1>2. s.done = sys.done BY <1>1 DEF State
<1>3. s.timer = IF sys.timer = 0 THEN 0 ELSE sys.timer - 1 BY <1>1 DEF State
<1>4. sys.timer # Off BY DEF Sabotaged
<1>5. s.timer # Off BY <1>1, <1>3, <1>4, TimerType
<1> QED BY <1>2, <1>4, <1>5 DEF Visible, Sabotaged

\* A call that comes back changes nothing without marking the system.
LEMMA SettleMarks ==
    ASSUME TypeOK, NEW k \in 1 .. Len(calls), Settle(k), ~dirty',
           meddle = "nothing" \/ (meddle = "repairs" /\ kind = "reactor")
    PROVE  sys' = sys /\ ~dirty /\ told' = told
<1>0. dirty \in BOOLEAN BY DEF TypeOK
<1>1. CASE Agree(k) BY <1>0, <1>1 DEF Agree, RepairIfBoth, Returned
<1>2. CASE Revert(k)
    <2>1. kind = "reactor" /\ calls[k].op \in {"add", "remove", "repair"}
        BY <1>2 DEF Revert, MayMeddle
    <2>2. Returned(k) BY <1>2, <2>1 DEF Revert
    <2> QED BY <2>1, <2>2 DEF Returned
<1>3. ASSUME NEW c \in Console, Alter(k, c) PROVE FALSE
    <2>1. kind = "reactor" /\ calls[k].op \in {"add", "remove"}
        BY <1>3 DEF Alter, MayMeddle
    <2> QED BY <1>3, <2>1 DEF Alter, RepairIfBoth, Returned
<1> QED BY <1>1, <1>2, <1>3 DEF Settle

\* The server and the clients agree whenever the system is not marked as
\* dirty: no step of the reactor changes it and forgets to mark it.
THEOREM ClientsAgreeAlways ==
    ASSUME SabotageAssumption
    PROVE  Spec => []ClientsAgree
<1>1. Init => ClientsAgree BY DEF Init, ClientsAgree
<1>2. TypeOK /\ ClientsAgree /\ [Next]_vars => ClientsAgree'
    <2> SUFFICES ASSUME TypeOK, ClientsAgree, [Next]_vars, ~dirty',
                        meddle' = "nothing" \/ (meddle' = "repairs" /\ kind' = "reactor")
                 PROVE  told' = Visible(sys)'
        BY DEF ClientsAgree
    <2>0. meddle' = meddle /\ kind' = kind
        BY DEF Next, vars, config, Sabotage, AddConsole, CompleteAgain, RemoveConsole,
               Repair, Settle, Agree, Revert, Alter, FixedUpdate, Unsabotaged,
               CountDown, ResetConsoles, WaitForReset
    <2>b. dirty \in BOOLEAN /\ sys \in State BY DEF TypeOK
    <2>c. ~dirty => told = Visible(sys) BY <2>0 DEF ClientsAgree
    <2>v. Visible(sys)' = Visible(sys') BY <2>0 DEF Visible, Sabotaged, Both
    <2>1. CASE UNCHANGED vars BY <2>0, <2>1, <2>c, <2>v DEF vars
    <2>2. CASE Sabotage BY <2>2 DEF Sabotage
    <2>3. ASSUME NEW c \in Console,
                 AddConsole(c) \/ CompleteAgain(c) \/ RemoveConsole(c)
          PROVE  FALSE
        BY <2>3 DEF AddConsole, CompleteAgain, RemoveConsole
    <2>4. CASE Repair BY <2>4 DEF Repair
    <2>5. ASSUME NEW k \in 1 .. Len(calls), Settle(k)
          PROVE  told' = Visible(sys')
        BY <2>0, <2>5, <2>c, SettleMarks
    <2>6. CASE Unsabotaged
        <3>1. Tell(sys, dirty) /\ sys' = sys BY <2>6 DEF Unsabotaged
        <3> QED BY <2>b, <2>c, <2>v, <3>1, ToldOf
    <2>7. ASSUME NEW resend \in BOOLEAN, CountDown(resend)
          PROVE  told' = Visible(sys')
        <3>1. Visible(sys') = Visible(sys) BY <2>7, TickIsInvisible DEF CountDown
        <3>2. Tell(sys', dirty \/ resend) BY <2>7 DEF CountDown
        <3>3. (dirty \/ resend) \/ told = Visible(sys') BY <2>c, <3>1
        <3>4. (dirty \/ resend) \in BOOLEAN BY <2>b
        <3> QED BY <3>2, <3>3, <3>4, ToldOf
    <2>8. CASE ResetConsoles BY <2>8, <2>v DEF ResetConsoles, Tell
    <2>9. CASE WaitForReset
        <3>1. Tell(sys, dirty) /\ kind = "hq" /\ sys'.done = sys.done
            BY <2>9, <2>b DEF WaitForReset, State
        <3>2. Visible(sys') = Visible(sys) BY <3>1 DEF Visible, Sabotaged, Both
        <3> QED BY <2>b, <2>c, <2>v, <3>1, <3>2, ToldOf
    <2> QED BY <2>1, <2>2, <2>3, <2>4, <2>5, <2>6, <2>7, <2>8, <2>9, <2>v
            DEF Next, FixedUpdate
<1> QED BY <1>1, <1>2, SabotageTypeCorrect, PTL DEF Spec

-----------------------------------------------------------------------------
(* Repairs. *)

\* Whoever finds two consoles completed at a system that is sabotaged is yet
\* to come: a console is being added.
Adding == \E k \in 1 .. Len(calls) : calls[k].op = "add"

RepairIsComing == meddle = "nothing" /\ Sabotaged(sys) /\ Both(sys) => Adding

\* The consoles of a state that is not MIRA HQ's say nothing of the timer.
LEMMA NotAtHq == Sabotaged(sys) /\ Both(sys) => kind # "hq"
BY DEF Sabotaged, Both

LEMMA NotBoth == \A s : s.done = {} => ~Both(s)
BY FS_EmptySet DEF Both

\* A system that is repaired is not sabotaged.
LEMMA RepairedIsOver == ~Sabotaged(Repaired)
<1>1. CASE kind = "hq"
    <2>1. Repaired.done = {0, 1} BY <1>1 DEF Repaired
    <2> QED BY <1>1, <2>1, TwoConsoles DEF Sabotaged, Both
<1>2. CASE kind # "hq"
    <2>1. Repaired.timer = Off BY <1>2 DEF Repaired
    <2> QED BY <1>2, <2>1 DEF Sabotaged
<1> QED BY <1>1, <1>2

LEMMA Kept ==
    ASSUME TypeOK, [Next]_vars
    PROVE  kind' = kind /\ meddle' = meddle
BY DEF Next, vars, config, Sabotage, AddConsole, CompleteAgain, RemoveConsole,
       Repair, Settle, Agree, Revert, Alter, FixedUpdate, Unsabotaged,
       CountDown, ResetConsoles, WaitForReset

\* If no listener meddles, a call that comes back has repaired the system or
\* leaves it as it is; another call is still there.
LEMMA SettleRepairs ==
    ASSUME SabotageAssumption, TypeOK, RepairIsComing, meddle = "nothing",
           NEW k \in 1 .. Len(calls), Settle(k)
    PROVE  \/ sys' = Repaired
           \/ sys' = sys /\ (Sabotaged(sys) /\ Both(sys) => Adding')
<1>0. Agree(k) BY DEF Settle, Revert, Alter, MayMeddle
<1>1. calls \in Seq(Suspended) BY DEF TypeOK, Suspended
<1>2. CASE calls[k].op = "add" /\ Both(sys) BY <1>0, <1>2 DEF Agree, RepairIfBoth
<1>3. CASE calls[k].op = "add" /\ ~Both(sys)
    BY <1>0, <1>3 DEF Agree, RepairIfBoth
<1>4. CASE calls[k].op # "add"
    <2>1. sys' = sys /\ calls' = RemoveAt(calls, k) BY <1>0, <1>4 DEF Agree, Returned
    <2>2. ASSUME Sabotaged(sys), Both(sys) PROVE Adding'
        <3>1. PICK j \in 1 .. Len(calls) : calls[j].op = "add"
            BY <2>2 DEF RepairIsComing, Adding
        <3>2. j # k BY <1>4, <3>1
        <3>3. PICK i \in 1 .. Len(calls') : calls'[i] = calls[j]
            BY <1>1, <2>1, <3>2, StillThere
        <3> QED BY <3>1, <3>3 DEF Adding
    <2> QED BY <2>1, <2>2
<1> QED BY <1>2, <1>3, <1>4

LEMMA RepairInit == ASSUME Init PROVE RepairIsComing
<1>1. sys.timer = Off BY DEF Init
<1> QED BY <1>1 DEF RepairIsComing, Sabotaged, Both

LEMMA RepairStep ==
    ASSUME SabotageAssumption, TypeOK, RepairIsComing, [Next]_vars
    PROVE  RepairIsComing'
<1> SUFFICES ASSUME meddle' = "nothing", Sabotaged(sys)', Both(sys)' PROVE Adding'
    BY DEF RepairIsComing
<1>0. kind' = kind /\ meddle = "nothing" BY Kept
<1>a. Sabotaged(sys') /\ Both(sys') BY <1>0 DEF Sabotaged, Both
<1>b. kind # "hq" BY <1>a DEF Sabotaged, Both
<1>c. calls \in Seq(Suspended) /\ sys \in State BY DEF TypeOK, Suspended
<1>d. ASSUME sys' = sys \/ (sys'.done = sys.done /\ Sabotaged(sys)), calls' = calls
      PROVE  Adding'
    BY <1>0, <1>a, <1>d DEF RepairIsComing, Adding, Both
<1>1. CASE UNCHANGED vars BY <1>1, <1>d DEF vars
<1>2. CASE Sabotage
    <2>1. sys'.done = {} BY <1>2 DEF Sabotage
    <2> QED BY <1>a, <2>1, NotBoth
<1>3. ASSUME NEW c \in Console, AddConsole(c) PROVE Adding'
    <2>1. calls' = Append(calls, Call("add", c)) BY <1>3 DEF AddConsole
    <2>2. /\ Len(calls) + 1 \in 1 .. Len(calls')
          /\ calls'[Len(calls) + 1] = Call("add", c)
        BY <1>c, <2>1
    <2> QED BY <2>2 DEF Adding, Call
<1>4. ASSUME NEW c \in Console, CompleteAgain(c) PROVE FALSE
    BY <1>4, <1>b DEF CompleteAgain
<1>5. ASSUME NEW c \in Console, RemoveConsole(c) PROVE Adding'
    <2>1. sys'.done \subseteq sys.done /\ sys'.timer = sys.timer /\ sys.done \subseteq Console
        BY <1>5, <1>c DEF RemoveConsole, State
    <2>2. Both(sys) /\ Sabotaged(sys)
        BY <1>a, <1>b, <2>1, MoreConsoles DEF Both, Sabotaged
    <2>3. PICK j \in 1 .. Len(calls) : calls[j].op = "add"
        BY <1>0, <2>2 DEF RepairIsComing, Adding
    <2>4. calls' = Append(calls, Call("remove", c)) BY <1>5 DEF RemoveConsole
    <2>5. j \in 1 .. Len(calls') /\ calls'[j] = calls[j] BY <1>c, <2>3, <2>4
    <2> QED BY <2>3, <2>5 DEF Adding
<1>6. CASE Repair BY <1>6, <1>a, RepairedIsOver DEF Repair
<1>7. ASSUME NEW k \in 1 .. Len(calls), Settle(k) PROVE Adding'
    BY <1>0, <1>7, <1>a, SettleRepairs, RepairedIsOver
<1>8. CASE Unsabotaged BY <1>8, <1>d DEF Unsabotaged
<1>9. ASSUME NEW resend \in BOOLEAN, CountDown(resend) PROVE Adding'
    <2>1. sys'.done = sys.done BY <1>9, <1>c DEF CountDown, State
    <2> QED BY <1>9, <1>d, <2>1 DEF CountDown
<1>10. CASE ResetConsoles BY <1>10, <1>b DEF ResetConsoles
<1>11. CASE WaitForReset BY <1>11, <1>b DEF WaitForReset
<1> QED BY <1>1, <1>2, <1>3, <1>4, <1>5, <1>6, <1>7, <1>8, <1>9, <1>10, <1>11
        DEF Next, FixedUpdate

\* However the calls of players at any two consoles overlap, a system with
\* two consoles completed is repaired when the calls are over.
THEOREM RepairedByTwoAlways ==
    ASSUME SabotageAssumption
    PROVE  Spec => []RepairedByTwo
<1>1. Init => RepairIsComing BY RepairInit
<1>2. TypeOK /\ RepairIsComing /\ [Next]_vars => RepairIsComing' BY RepairStep
<1>3. TypeOK /\ RepairIsComing => RepairedByTwo
    BY DEF RepairIsComing, RepairedByTwo, Adding
<1> QED BY <1>1, <1>2, <1>3, SabotageTypeCorrect, PTL DEF Spec

\* A repaired system stays repaired until somebody sabotages it, although
\* calls that began before the repair come back after it.
THEOREM RepairsLast ==
    ASSUME SabotageAssumption
    PROVE  Spec => RepairLasts
<1> DEFINE Lasts == meddle = "nothing" /\ ~Sabotaged(sys) /\ Sabotaged(sys)' =>
                        Sabotage
<1>1. TypeOK /\ RepairIsComing /\ [Next]_vars => [Lasts]_vars
    <2> SUFFICES ASSUME TypeOK, RepairIsComing, [Next]_vars, meddle = "nothing",
                        ~Sabotaged(sys), Sabotaged(sys)', vars' # vars
                 PROVE  Sabotage
        OBVIOUS
    <2>0. kind' = kind BY Kept
    <2>a. Sabotaged(sys') BY <2>0 DEF Sabotaged, Both
    <2>b. sys \in State BY DEF TypeOK
    <2>1. CASE Sabotage BY <2>1
    <2>2. ASSUME NEW c \in Console, AddConsole(c) PROVE FALSE
        <3>1. /\ sys.done \subseteq sys'.done /\ sys'.done \subseteq Console
              /\ sys'.timer = sys.timer
            BY <2>2, <2>b DEF AddConsole, State
        <3> QED BY <2>a, <3>1, MoreConsoles DEF Sabotaged, Both
    <2>3. ASSUME NEW c \in Console, CompleteAgain(c) PROVE FALSE
        BY <2>3, <2>a, RepairedIsOver DEF CompleteAgain
    <2>4. ASSUME NEW c \in Console, RemoveConsole(c) PROVE FALSE
        <3>1. sys'.timer = sys.timer /\ kind # "hq"
            BY <2>4, <2>b DEF RemoveConsole, State
        <3> QED BY <2>a, <3>1 DEF Sabotaged
    <2>5. CASE Repair BY <2>5, <2>a, RepairedIsOver DEF Repair
    <2>6. ASSUME NEW k \in 1 .. Len(calls), Settle(k) PROVE FALSE
        BY <2>6, <2>a, SettleRepairs, RepairedIsOver
    <2>7. CASE FixedUpdate
        BY <2>7, <2>a DEF FixedUpdate, Unsabotaged, CountDown, ResetConsoles, WaitForReset
    <2> QED BY <2>1, <2>2, <2>3, <2>4, <2>5, <2>6, <2>7 DEF Next
<1>2. Init => RepairIsComing BY RepairInit
<1>3. TypeOK /\ RepairIsComing /\ [Next]_vars => RepairIsComing' BY RepairStep
<1> QED BY <1>1, <1>2, <1>3, SabotageTypeCorrect, PTL DEF Spec, RepairLasts
=============================================================================
