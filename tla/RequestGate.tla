---------------------------- MODULE RequestGate ----------------------------
(***************************************************************************)
(* The gate all clients of one provider share in a process                  *)
(* (providers/gate.go, and the clients that use it): Wait spaces requests,  *)
(* Defer holds them back after an answer that asks for it, and the AniDB    *)
(* client asks DeferredFor first. Instants are kept relative to now.        *)
(***************************************************************************)
EXTENDS Integers, FiniteSets

CONSTANTS
    Callers,   \* jobs that send requests through the gate
    Refused,   \* those whose client gives up during a cooldown instead of waiting
    Intervals, \* intervals the provider's clients are configured with
    Cooldowns  \* delays an answer may ask for; 0 for none

ASSUME GateAssumption ==
    /\ Intervals \subseteq Nat \ {0} /\ Cooldowns \subseteq Nat /\ Refused \subseteq Callers
    /\ \E x \in Intervals \cup Cooldowns : \A y \in Intervals \cup Cooldowns : x >= y

VARIABLES
    interval, \* spacing in force
    nextIn,   \* time until gate.next
    deferredIn, \* time until gate.deferredUntil
    caller,   \* local state of each job
    sinceSent, \* history: time since the last request was let through
    spacing   \* history: the interval it was let through with

gateVars == <<interval, nextIn, deferredIn, caller, sinceSent, spacing>>

Latest(S) == CHOOSE x \in S : \A y \in S : x >= y
Horizon == Latest(Intervals \cup Cooldowns)
Later(x) == IF x > 0 THEN x - 1 ELSE 0

GateInit ==
    /\ interval \in Intervals /\ nextIn = 0 /\ deferredIn = 0
    /\ caller = [c \in Callers |-> [pc |-> "idle", timer |-> 0]]
    /\ sinceSent = Horizon /\ spacing = 0

Becomes(c, pc, timer) == caller' = [caller EXCEPT ![c] = [pc |-> pc, timer |-> timer]]

\* SharedRequestGate: the slowest of the clients sets the pace.
ShareGate ==
    /\ \E i \in Intervals : i > interval /\ interval' = i
    /\ UNCHANGED <<nextIn, deferredIn, caller, sinceSent, spacing>>

\* A request is needed: a cache hit does not come here.
Prepare(c) ==
    /\ caller[c].pc = "idle" /\ (c \in Refused => deferredIn = 0)
    /\ Becomes(c, "wait", 0)
    /\ UNCHANGED <<interval, nextIn, deferredIn, sinceSent, spacing>>

Send(c) ==
    /\ nextIn' = interval /\ Becomes(c, "sent", 0)
    /\ sinceSent' = 0 /\ spacing' = interval
    /\ UNCHANGED <<interval, deferredIn>>

\* Under the lock: the request goes out, or a timer is set for what is left.
Wait(c) ==
    /\ caller[c].pc = "wait"
    /\ \/ nextIn = 0 /\ Send(c)
       \/ /\ nextIn > 0 /\ Becomes(c, "timer", nextIn)
          /\ UNCHANGED <<interval, nextIn, deferredIn, sinceSent, spacing>>

\* Mutated form: a request goes out when its timer fires.
WakeAndSend(c) == caller[c] = [pc |-> "timer", timer |-> 0] /\ Send(c)

\* The timer fires and the gate is looked at again.
Wake(c) ==
    /\ caller[c] = [pc |-> "timer", timer |-> 0] /\ Becomes(c, "wait", 0)
    /\ UNCHANGED <<interval, nextIn, deferredIn, sinceSent, spacing>>

\* ctx.Done.
Cancelled(c) ==
    /\ caller[c].pc = "timer" /\ Becomes(c, "idle", 0)
    /\ UNCHANGED <<interval, nextIn, deferredIn, sinceSent, spacing>>

\* An answer arrives, and with it perhaps a delay for everybody; neither instant is
\* ever moved forward by a shorter one.
Deferred(c, delay) ==
    /\ caller[c].pc = "sent" /\ Becomes(c, "idle", 0)
    /\ nextIn' = Latest({nextIn, delay}) /\ deferredIn' = Latest({deferredIn, delay})
    /\ UNCHANGED <<interval, sinceSent, spacing>>

\* Timers fire late or in time, never early.
Tick ==
    /\ nextIn' = Later(nextIn) /\ deferredIn' = Later(deferredIn)
    /\ caller' = [c \in Callers |-> [caller[c] EXCEPT !.timer = Later(@)]]
    /\ sinceSent' = IF sinceSent < Horizon THEN sinceSent + 1 ELSE sinceSent
    /\ UNCHANGED <<interval, spacing>>

GateNext ==
    \/ ShareGate \/ Tick
    \/ \E c \in Callers : Prepare(c) \/ Wait(c) \/ Wake(c) \/ Cancelled(c) \/ \E delay \in Cooldowns : Deferred(c, delay)

GateSpec == GateInit /\ [][GateNext]_gateVars

-----------------------------------------------------------------------------
(* Properties *)

GateTypeOK ==
    /\ interval \in Intervals /\ nextIn \in 0..Horizon /\ deferredIn \in 0..Horizon
    /\ caller \in [Callers -> [pc : {"idle", "wait", "timer", "sent"}, timer : 0..Horizon]]
    /\ sinceSent \in 0..Horizon /\ spacing \in Intervals \cup {0}

\* No request goes out before the interval after the one before is over, nor while a
\* cooldown lasts, whoever was waiting when the answer that asked for it came in.
SpacedRequests ==
    [][\A c \in Callers : caller[c].pc # "sent" /\ caller'[c].pc = "sent"
                          => sinceSent >= spacing /\ deferredIn = 0]_gateVars
==============================================================================
