----------------------------- MODULE Sabotages -----------------------------
(***************************************************************************)
(* A sabotaged system of the ship that is repaired at two consoles, as the *)
(* server runs it: the reactor (ReactorSystem), the oxygen (LifeSuppSystem)*)
(* or the communications of MIRA HQ (HqHudSystem), with the part of        *)
(* SabotageSystem and InnerShipStatus that reaches it.                     *)
(*                                                                         *)
(* A call assigns the new state, marks the system as dirty and then awaits *)
(* the listeners, which may revert what was done, or alter the console it  *)
(* was done to; meanwhile other calls arrive, and FixedUpdate lets the     *)
(* timer run and tells the clients the state of a system that is dirty.    *)
(*                                                                         *)
(* Who is at a console of MIRA HQ (activeConsoles) is left out: nothing    *)
(* depends on it.                                                          *)
(***************************************************************************)
EXTENDS Integers, FiniteSets, SequencesExt

CONSTANTS
    Console,      \* the ids of consoles
    Time,         \* updates until the timer of a sabotage has run out
    MaxCalls      \* bound: calls that wait for their listeners at once

Off == Time + 1   \* the timer of a system that is not sabotaged: 10000

ASSUME SabotageAssumption ==
    /\ IsFiniteSet(Console)
    /\ {0, 1} \subseteq Console
    /\ Time \in Nat \ {0}
    /\ MaxCalls \in Nat \ {0}

VARIABLES
    kind,         \* which system it is
    meddle,       \* the calls that listeners may revert or alter
    sys,          \* the timer, and the completed consoles
    dirty,        \* system.dirty
    calls,        \* suspended calls, with the state that they replaced
    told,         \* what clients were told last
    ending        \* an end-game intent is registered

vars == <<kind, meddle, sys, dirty, calls, told, ending>>
config == <<kind, meddle>>

Kind == {"reactor", "oxygen", "hq"}
Op == {"sabotage", "clear", "reset", "add", "remove", "repair"}
State == [timer : 0 .. Off, done : SUBSET Console]
Call(op, console) == [op |-> op, console |-> console, old |-> sys]

Both(s) == Cardinality(s.done) >= 2
Sabotaged(s) == IF kind = "hq" THEN ~Both(s) ELSE s.timer # Off

\* What a client shows: the timer runs on its own there.
Visible(s) == [sabotaged |-> Sabotaged(s), done |-> s.done]

Init ==
    /\ kind \in Kind
    /\ meddle \in {"nothing", "repairs", "anything"}
    /\ sys = [timer |-> Off, done |-> IF kind = "hq" THEN {0, 1} ELSE {}]
    /\ dirty = FALSE
    /\ calls = <<>>
    /\ told = Visible(sys)
    /\ ending = FALSE

-----------------------------------------------------------------------------
(* Calls, up to their first await. *)

\* SabotageSystem.HandleRepair: nothing keeps a system from being sabotaged
\* again.  That of the oxygen clears the consoles in a call of its own.
Sabotage ==
    /\ Len(calls) < MaxCalls
    /\ sys' = [timer |-> IF kind = "hq" THEN 0 ELSE Time, done |-> {}]
    /\ dirty' = TRUE
    /\ calls' = calls \o (IF kind = "oxygen" THEN <<Call("clear", 0)>> ELSE <<>>)
                      \o <<Call("sabotage", 0)>>
    /\ UNCHANGED <<config, told, ending>>

\* The state and the call of _repair.
Repaired ==
    IF kind = "hq" THEN [timer |-> 0, done |-> {0, 1}]
                   ELSE [timer |-> Off, done |-> {}]

\* At MIRA HQ a console that is completed already goes on to the check.
AddConsole(c) ==
    /\ Len(calls) < MaxCalls
    /\ kind = "hq" => c \notin sys.done
    /\ sys' = [sys EXCEPT !.done = @ \cup {c}]
    /\ dirty' = TRUE
    /\ calls' = Append(calls, Call("add", c))
    /\ UNCHANGED <<config, told, ending>>

CompleteAgain(c) ==
    /\ Len(calls) < MaxCalls
    /\ kind = "hq"
    /\ c \in sys.done
    /\ Both(sys)
    /\ sys' = Repaired
    /\ dirty' = TRUE
    /\ calls' = Append(calls, Call("repair", c))
    /\ UNCHANGED <<config, told, ending>>

\* Only the reactor has consoles to hold on to.
RemoveConsole(c) ==
    /\ Len(calls) < MaxCalls
    /\ kind = "reactor"
    /\ sys' = [sys EXCEPT !.done = @ \ {c}]
    /\ dirty' = TRUE
    /\ calls' = Append(calls, Call("remove", c))
    /\ UNCHANGED <<config, told, ending>>

Repair ==
    /\ Len(calls) < MaxCalls
    /\ kind # "hq"
    /\ sys' = Repaired
    /\ dirty' = TRUE
    /\ calls' = Append(calls, Call("repair", 0))
    /\ UNCHANGED <<config, told, ending>>

-----------------------------------------------------------------------------
(* Calls whose listeners are done: the k-th. *)

\* Mutant of Returned: the reactor is as the other systems.
ReturnedQuietly(k) ==
    /\ calls' = RemoveAt(calls, k)
    /\ UNCHANGED dirty

\* HandleRepair of the reactor marks it again when its call is over.
Returned(k) ==
    /\ calls' = RemoveAt(calls, k)
    /\ dirty' = (dirty \/ (kind = "reactor" /\ calls[k].op # "sabotage"))

\* Mutant of RepairIfBoth: the consoles are counted before the await.
RepairIfBothWere(k, s) ==
    IF Both(calls[k].old)
    THEN /\ sys' = Repaired
         /\ dirty' = TRUE
         /\ calls' = [calls EXCEPT ![k] = [@ EXCEPT !.op = "repair", !.old = s]]
    ELSE /\ sys' = s
         /\ Returned(k)

\* A console was added and s is the state: _repair follows in the same call
\* if two are completed.
RepairIfBoth(k, s) ==
    IF Both(s)
    THEN /\ sys' = Repaired
         /\ dirty' = TRUE
         /\ calls' = [calls EXCEPT ![k] = [@ EXCEPT !.op = "repair", !.old = s]]
    ELSE /\ sys' = s
         /\ Returned(k)

Agree(k) ==
    /\ IF calls[k].op = "add"
       THEN RepairIfBoth(k, sys)
       ELSE /\ Returned(k)
            /\ UNCHANGED sys
    /\ UNCHANGED <<config, told, ending>>

MayMeddle(op) ==
    \/ meddle = "anything"
    \/ meddle = "repairs" /\ op \in {"add", "remove", "repair"}

\* What the code restores after a revert.  A sabotage of the reactor or the
\* oxygen is over, although the system may have been sabotaged before.
Undone(call) ==
    CASE call.op = "repair" -> call.old
      [] call.op = "sabotage" /\ kind = "hq" -> call.old
      [] call.op = "sabotage" /\ kind # "hq" -> [timer |-> Off, done |-> call.old.done]
      [] call.op \in {"clear", "reset"} -> [sys EXCEPT !.done = call.old.done]
      [] call.op = "add" -> [sys EXCEPT !.done = @ \ {call.console}]
      [] call.op = "remove" -> [sys EXCEPT !.done = @ \cup {call.console}]

\* MIRA HQ counts the consoles also after a revert.
Revert(k) ==
    /\ MayMeddle(calls[k].op)
    /\ IF kind = "hq" /\ calls[k].op = "add"
       THEN RepairIfBoth(k, Undone(calls[k]))
       ELSE /\ sys' = Undone(calls[k])
            /\ Returned(k)
    /\ UNCHANGED <<config, told, ending>>

\* Listeners put another console in the place of the one of the call.
Alter(k, c) ==
    /\ kind # "hq"
    /\ c # calls[k].console
    /\ MayMeddle(calls[k].op)
    /\ \/ /\ calls[k].op = "add"
          /\ RepairIfBoth(k, [sys EXCEPT !.done = (@ \ {calls[k].console}) \cup {c}])
       \/ /\ calls[k].op = "remove"
          /\ sys' = [sys EXCEPT !.done = (@ \cup {calls[k].console}) \ {c}]
          /\ Returned(k)
    /\ UNCHANGED <<config, told, ending>>

-----------------------------------------------------------------------------
(* FixedUpdate: Detoriorate, then Serialize if the system is dirty. *)

Tell(s, marked) ==
    /\ told' = IF marked THEN Visible(s) ELSE told
    /\ dirty' = FALSE

Unsabotaged ==
    /\ ~Sabotaged(sys)
    /\ Tell(sys, dirty)
    /\ UNCHANGED <<config, sys, calls, ending>>

\* Mutant of CountDown: the end is only registered below zero.
CountDownBelow(resend) ==
    LET s == [sys EXCEPT !.timer = IF @ = 0 THEN 0 ELSE @ - 1] IN
    /\ kind # "hq"
    /\ Sabotaged(sys)
    /\ sys' = s
    /\ ending' = (ending \/ s.timer < 0)
    /\ Tell(s, dirty \/ resend)
    /\ UNCHANGED <<config, calls>>

\* The timer of the reactor or the oxygen; every two seconds it is sent.
CountDown(resend) ==
    LET s == [sys EXCEPT !.timer = IF @ = 0 THEN 0 ELSE @ - 1] IN
    /\ kind # "hq"
    /\ Sabotaged(sys)
    /\ sys' = s
    /\ ending' = (ending \/ s.timer = 0)
    /\ Tell(s, dirty \/ resend)
    /\ UNCHANGED <<config, calls>>

\* MIRA HQ: the completed consoles are reset whenever the timer runs out.
ResetConsoles ==
    LET s == [timer |-> Time, done |-> {}] IN
    /\ kind = "hq"
    /\ Sabotaged(sys)
    /\ sys.timer = 0
    /\ Len(calls) < MaxCalls
    /\ sys' = s
    /\ calls' = Append(calls, Call("reset", 0))
    /\ Tell(s, TRUE)
    /\ UNCHANGED <<config, ending>>

\* Mutant of WaitForReset: the timer runs on below zero.
WaitForResetBelow ==
    /\ kind = "hq"
    /\ Sabotaged(sys)
    /\ sys' = [sys EXCEPT !.timer = IF @ = Off THEN Off ELSE @ - 1]
    /\ Tell(sys, dirty)
    /\ UNCHANGED <<config, calls, ending>>

\* Until then it runs, unless a revert has restored the one of no sabotage.
WaitForReset ==
    /\ kind = "hq"
    /\ Sabotaged(sys)
    /\ sys.timer > 0
    /\ sys' = [sys EXCEPT !.timer = IF @ = Off THEN Off ELSE @ - 1]
    /\ Tell(sys, dirty)
    /\ UNCHANGED <<config, calls, ending>>

FixedUpdate ==
    \/ Unsabotaged
    \/ \E resend \in BOOLEAN : CountDown(resend)
    \/ ResetConsoles
    \/ WaitForReset

-----------------------------------------------------------------------------
Settle(k) == Agree(k) \/ Revert(k) \/ \E c \in Console : Alter(k, c)

Next ==
    \/ Sabotage
    \/ \E c \in Console : AddConsole(c) \/ CompleteAgain(c) \/ RemoveConsole(c)
    \/ Repair
    \/ \E k \in 1 .. Len(calls) : Settle(k)
    \/ FixedUpdate

Spec == Init /\ [][Next]_vars

\* FixedUpdate is called by an interval, and awaited promises settle.
Fairness ==
    /\ SF_vars(FixedUpdate)
    /\ WF_vars(\E k \in 1 .. Len(calls) : Settle(k))

FairSpec == Spec /\ Fairness

-----------------------------------------------------------------------------
TypeOK ==
    /\ kind \in Kind
    /\ meddle \in {"nothing", "repairs", "anything"}
    /\ sys \in State
    /\ {dirty, ending} \subseteq BOOLEAN
    /\ calls \in Seq([op : Op, console : Console, old : State])
    /\ told \in [sabotaged : BOOLEAN, done : SUBSET Console]

\* What the clients show of a system that is not marked as dirty is what the
\* server has: always if no listener meddles, and for the reactor also if
\* listeners revert or alter what is done at its consoles.
ClientsAgree ==
    /\ ~dirty
    /\ meddle = "nothing" \/ (meddle = "repairs" /\ kind = "reactor")
    => told = Visible(sys)

\* However the calls of two players overlap: if no listener meddles and none
\* is suspended, a system at which two consoles are completed is repaired.
RepairedByTwo ==
    meddle = "nothing" /\ calls = <<>> => ~(Sabotaged(sys) /\ Both(sys))

\* If no listener meddles, only a sabotage makes a system sabotaged.
RepairLasts ==
    [][meddle = "nothing" /\ ~Sabotaged(sys) /\ Sabotaged(sys)' =>
            Sabotage]_vars

\* If the impostors stop sabotaging at some time, the sabotage of a reactor or
\* of oxygen is repaired or ends the game, whatever calls are suspended,
\* reverted or altered.  Sabotaging again starts the timer anew, and nothing
\* prevents it: a ship that is sabotaged for ever may never end.
CriticalEnds ==
    <>[][~Sabotage]_vars =>
        (kind # "hq" /\ Sabotaged(sys) ~> ending \/ ~Sabotaged(sys))
=============================================================================
