----------------------------- MODULE EventNotices -----------------------------
(***************************************************************************)
(* What becomes of an event, without buckets, timers, batches, bursts,     *)
(* replicas or keys: it is turned away, suppressed with a record on every  *)
(* channel chosen for it, summarised with others, or told on the channels  *)
(* chosen for it, by itself or in one notice with other events.            *)
(***************************************************************************)
CONSTANTS Events, Channels

VARIABLES
    fate,    \* event -> "new", "open", "rejected", "suppressed", "summarised"
    wanted,  \* event -> the channels chosen for it, none for any
    notices  \* what was written, never withdrawn

vars == <<fate, wanted, notices>>

TypeOK ==
    /\ fate \in [Events -> {"new", "open", "rejected", "suppressed", "summarised"}]
    /\ wanted \in [Events -> SUBSET Channels]
    /\ notices \subseteq [ch : Channels, events : SUBSET Events, silent : BOOLEAN]

Init ==
    /\ fate = [e \in Events |-> "new"]
    /\ wanted = [e \in Events |-> {}]
    /\ notices = {}

Notice(c, es, silent) == [ch |-> c, events |-> es, silent |-> silent]

TellsOf(n, e) == e \in n.events
Untold(e) == \A n \in notices : ~TellsOf(n, e)

TakeOn(e) ==
    /\ fate[e] = "new"
    /\ fate' = [fate EXCEPT ![e] = "open"]
    /\ \E cs \in SUBSET Channels : wanted' = [wanted EXCEPT ![e] = cs]
    /\ UNCHANGED notices

Suppress(e) ==
    /\ fate[e] = "new"
    /\ fate' = [fate EXCEPT ![e] = "suppressed"]
    /\ \E cs \in (SUBSET Channels) \ {{}} :
        /\ wanted' = [wanted EXCEPT ![e] = cs]
        /\ notices' = notices \cup {Notice(c, {e}, TRUE) : c \in cs}

(* A crash turns away every event its process was evaluating.              *)
TurnAway(es) ==
    /\ \A e \in es : fate[e] \in {"new", "open"} /\ Untold(e)
    /\ fate' = [e \in Events |-> IF e \in es THEN "rejected" ELSE fate[e]]
    /\ UNCHANGED <<wanted, notices>>

Summarise(e) ==
    /\ fate[e] = "open" /\ Untold(e)
    /\ fate' = [fate EXCEPT ![e] = "summarised"]
    /\ UNCHANGED <<wanted, notices>>

(* During a mute the notice is a silent record.                            *)
Tell(c, es) ==
    /\ es # {}
    /\ \A e \in es :
        /\ fate[e] = "open"
        /\ wanted[e] = {} \/ c \in wanted[e]
        /\ \A n \in notices : n.ch = c => ~TellsOf(n, e)
    /\ \E silent \in BOOLEAN : notices' = notices \cup {Notice(c, es, silent)}
    /\ UNCHANGED <<fate, wanted>>

Next ==
    \/ \E e \in Events : TakeOn(e) \/ Suppress(e) \/ Summarise(e)
    \/ \E es \in SUBSET Events : TurnAway(es) \/ \E c \in Channels : Tell(c, es)

Spec == Init /\ [][Next]_vars

(* No channel is told of an event twice, or of one meant for others; what  *)
(* was suppressed is on record with every channel chosen for it and told   *)
(* to none; what was turned away or summarised is not told either.         *)
Faithful ==
    \A n \in notices : \A e \in n.events :
        /\ wanted[e] = {} \/ n.ch \in wanted[e]
        /\ \A m \in notices : m.ch = n.ch /\ TellsOf(m, e) => m = n
        /\ \/ fate[e] = "open"
           \/ fate[e] = "suppressed" /\ n.silent
RecordsComplete ==
    \A e \in Events : fate[e] = "suppressed" =>
        /\ wanted[e] # {}
        /\ \A c \in wanted[e] : Notice(c, {e}, TRUE) \in notices
=============================================================================
