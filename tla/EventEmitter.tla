---------------------------- MODULE EventEmitter ----------------------------
(***************************************************************************)
(* The EventEmitter on which rooms, players, net objects and plugins are   *)
(* built: the listeners for one event name, and the emissions under way.   *)
(*                                                                         *)
(* An emission walks the array of listeners by an index, while listeners   *)
(* add and remove others, or themselves.  emit calls them all without      *)
(* waiting and then awaits them; emitSerial awaits each before it calls    *)
(* the next; emitSync awaits none.  When they are done the emission        *)
(* removes those that have asked for it.  A turn of a loop is a step here; *)
(* while the code cannot be interrupted, no other emission goes on.        *)
(* Each listener is a closure of its own.                                  *)
(***************************************************************************)
EXTENDS Integers, SequencesExt

CONSTANTS
    MaxListeners, \* bound: listeners that are registered
    MaxEmissions  \* bound: emissions under way at once

ASSUME EmitterAssumption ==
    /\ MaxListeners \in Nat
    /\ MaxEmissions \in Nat \ {0}

\* The closures, in the order in which they are registered.
Listener == 1 .. MaxListeners
Undefined == 0    \* what is read beyond the end of the array

VARIABLES
    kind,       \* how each listener is registered and what it does
    listeners,  \* this.listeners.get(event)
    registered, \* how many listeners have been registered
    emissions,  \* the emissions under way
    heard       \* how often the function given to once was called, up to 2;
                \* whether that given to the others was

vars == <<kind, listeners, registered, emissions, heard>>

\* on: stays.  once: removes itself, then calls what it was given.  waitf:
\* removes itself when its filter has been awaited.  off: calls the function
\* off, its second argument.
Kind == {"on", "once", "waitf", "off"}

Init ==
    /\ kind = [l \in Listener |-> "on"]
    /\ listeners = <<>>
    /\ registered = 0
    /\ emissions = <<>>
    /\ heard = [l \in Listener |-> 0]

-----------------------------------------------------------------------------
(* The array. *)

\* Mutant of Appended: the latest listener is called first.
AppendedInFront(list, l) == <<l>> \o list

Appended(list, l) == Append(list, l)

\* Mutant of Without: a listener that is not found removes the last one.
WithoutOrLast(list, l) ==
    IF l \in ToSet(list) \/ list = <<>> THEN RemoveFirst(list, l) ELSE Front(list)

\* The array without the listener: off.
Without(list, l) == RemoveFirst(list, l)

\* A loop that removes listeners, or has not called any, is not interrupted.
MayChange ==
    \A e \in 1 .. Len(emissions) :
        /\ emissions[e].stage # "removing"
        /\ emissions[e].stage = "calling" => emissions[e].next > 1

At(list, i) == IF i <= Len(list) THEN list[i] ELSE Undefined

On(l) ==
    /\ MayChange
    /\ l = registered + 1
    /\ registered' = l
    /\ \E k \in Kind : kind' = [kind EXCEPT ![l] = k]
    /\ listeners' = Appended(listeners, l)
    /\ UNCHANGED <<emissions, heard>>

\* The owner of a listener, or another listener, calls off, or what on or
\* once returned.
Off(l) ==
    /\ MayChange
    /\ l \in ToSet(listeners)
    /\ listeners' = Without(listeners, l)
    /\ UNCHANGED <<kind, registered, emissions, heard>>

RemoveListeners ==
    /\ MayChange
    /\ listeners # <<>>
    /\ listeners' = <<>>
    /\ UNCHANGED <<kind, registered, emissions, heard>>

-----------------------------------------------------------------------------
(* Emissions. *)

\* No loop is running.
Idle == \A e \in 1 .. Len(emissions) : emissions[e].stage \notin {"calling", "removing"}

Begin(mode) ==
    /\ Idle
    /\ Len(emissions) < MaxEmissions
    /\ emissions' = Append(emissions,
            [mode |-> mode, stage |-> "calling", next |-> 1, pending |-> {},
             remove |-> <<>>, called |-> {}, again |-> FALSE])
    /\ UNCHANGED <<kind, listeners, registered, heard>>

Emit == Begin("emit")
EmitSerial == Begin("emitSerial")
EmitSync == Begin("emitSync")

\* Mutant of Calling: once removes itself when its listener is done.
CallingLate(list, l) == list

\* Mutant of Calling: once registers itself again.
CallingAgain(list, l) == IF kind[l] = "once" THEN Append(list, l) ELSE list

\* The array after a call of l has gone as far as its first await.
Calling(list, l) == IF kind[l] = "once" THEN Without(list, l) ELSE list

Heard(l) ==
    [heard EXCEPT ![l] = IF @ < (IF kind[l] = "once" THEN 2 ELSE 1) THEN @ + 1 ELSE @]

\* A turn of the loop: the listener at the index by then is called.  The one
\* behind a listener that removes itself is passed over.
CallNext(e) ==
    LET em == emissions[e]
        l == At(listeners, em.next)
    IN  /\ em.stage = "calling"
        /\ l # Undefined
        /\ listeners' = Calling(listeners, l)
        /\ heard' = Heard(l)
        /\ emissions' = [emissions EXCEPT ![e] =
                [em EXCEPT !.next = @ + 1,
                           !.pending = @ \cup {[listener |-> l, index |-> em.next]},
                           !.called = @ \cup {l},
                           !.again = @ \/ l \in em.called,
                           !.stage = IF em.mode = "emitSerial" THEN "waiting" ELSE @]]
        /\ UNCHANGED <<kind, registered>>

EndLoop(e) ==
    emissions' = [emissions EXCEPT ![e].next = 0,
                                   ![e].called = {},
                                   ![e].stage = IF emissions[e].mode = "emit"
                                                THEN "waiting" ELSE "removing"]

\* Mutant of EndCalls: the loop ends before the last listener.
EndCallsEarly(e) ==
    /\ emissions[e].stage = "calling"
    /\ At(listeners, emissions[e].next + 1) = Undefined
    /\ EndLoop(e)
    /\ UNCHANGED <<kind, listeners, registered, heard>>

\* The loop is over; emit awaits its listeners.
EndCalls(e) ==
    /\ emissions[e].stage = "calling"
    /\ At(listeners, emissions[e].next) = Undefined
    /\ EndLoop(e)
    /\ UNCHANGED <<kind, listeners, registered, heard>>

\* What was awaited is settled.
Resume(e) ==
    /\ Idle
    /\ emissions[e].stage = "waiting"
    /\ emissions[e].pending = {}
    /\ emissions' = [emissions EXCEPT ![e].stage =
                        IF emissions[e].mode = "emit" THEN "removing" ELSE "calling"]
    /\ UNCHANGED <<kind, listeners, registered, heard>>

\* A listener is done, at once or after an await: waitf has its answer and
\* may resolve; the function off looks up the listener at the index only now.
Done(e, call) ==
    LET em == emissions[e]
        l == call.listener
    IN  /\ call \in em.pending
        /\ \/ Idle
           \/ em.stage = "calling" /\ call.index = em.next - 1 /\ kind[l] = "off"
        /\ \E resolves \in BOOLEAN :
            listeners' = IF kind[l] = "waitf" /\ resolves
                         THEN Without(listeners, l) ELSE listeners
        /\ emissions' = [emissions EXCEPT ![e] =
                [em EXCEPT !.pending = @ \ {call},
                           !.remove = IF kind[l] = "off"
                                      THEN Append(@, At(listeners, call.index))
                                      ELSE @]]
        /\ UNCHANGED <<kind, registered, heard>>

\* A turn of the loop that removes those that have asked for it.
RemoveNext(e) ==
    LET em == emissions[e] IN
    /\ em.stage = "removing"
    /\ em.remove # <<>>
    /\ listeners' = Without(listeners, Head(em.remove))
    /\ emissions' = [emissions EXCEPT ![e].remove = Tail(@)]
    /\ UNCHANGED <<kind, registered, heard>>

\* The emission returns.  Listeners of emitSync may still be busy, but all
\* that they can do is what Off does.
Finish(e) ==
    /\ emissions[e].stage = "removing"
    /\ emissions[e].remove = <<>>
    /\ emissions' = RemoveAt(emissions, e)
    /\ UNCHANGED <<kind, listeners, registered, heard>>

Continue(e) ==
    \/ CallNext(e) \/ EndCalls(e) \/ Resume(e) \/ RemoveNext(e) \/ Finish(e)
    \/ \E call \in emissions[e].pending : Done(e, call)

Next ==
    \/ \E l \in Listener : On(l) \/ Off(l)
    \/ RemoveListeners
    \/ Emit
    \/ EmitSync
    \/ EmitSerial
    \/ \E e \in 1 .. Len(emissions) : Continue(e)

Spec == Init /\ [][Next]_vars

\* What a listener awaits is settled.
FairSpec == Spec /\ WF_vars(\E e \in 1 .. Len(emissions) : Continue(e))

-----------------------------------------------------------------------------
\* A call of a listener, and the index at which its function off looks it up.
Call == [listener : Listener, index : Nat \ {0}]

\* An emission: its index and stage, the calls that are not done, what is to
\* be removed, whom it has called, and whether it has called somebody again.
Emission ==
    [mode : {"emit", "emitSerial", "emitSync"},
     stage : {"calling", "waiting", "removing"},
     next : Nat,
     pending : SUBSET Call,
     remove : Seq(Listener \cup {Undefined}),
     called : SUBSET Listener,
     again : BOOLEAN]

TypeOK ==
    /\ kind \in [Listener -> Kind]
    /\ listeners \in Seq(Listener)
    /\ IsInjective(listeners)
    /\ registered \in 0 .. MaxListeners
    /\ ToSet(listeners) \subseteq 1 .. registered
    /\ heard \in [Listener -> 0 .. 2]
    /\ emissions \in Seq(Emission)

\* once calls what it was given once, although emissions overlap and each may
\* find the listener in the array.
OnceIsOnce == \A l \in Listener : kind[l] = "once" => heard[l] <= 1

\* An emission calls no listener twice, however the array changes under its
\* index.
CalledOnce == \A e \in 1 .. Len(emissions) : ~emissions[e].again

\* As long as no listener uses the function off, a listener that was added
\* with on stays until off is called for it, or removeListeners.
OnStays ==
    [][(\A l \in Listener : kind[l] # "off") =>
        \A l \in ToSet(listeners) \ ToSet(listeners)' :
            kind[l] = "on" => Off(l) \/ RemoveListeners]_vars

\* A listener may be passed over when the one before it removes itself, but
\* not for ever: it hears one of the emissions if they go on, or is removed.
EverybodyHears ==
    []<><<Emit>>_vars =>
        \A l \in Listener :
            l \in ToSet(listeners) ~> heard[l] > 0 \/ l \notin ToSet(listeners)
=============================================================================
