--------------------------- MODULE GatewayContract ---------------------------
(***************************************************************************)
(* What the gateway promises to the sites that call POST /v1/send and      *)
(* POST /v1/events: the send path of GatewayJobs reduced to one outcome    *)
(* per idempotency key.  Requests are served one at a time in order of     *)
(* arrival.  A key is open until its message is submitted, or, for a       *)
(* group, until its outcome is uncertain; both are final.  The event log   *)
(* reports them, unless a crash comes between: it costs the answers of all *)
(* waiting requests and the event of the one being served.                 *)
(*                                                                         *)
(* GatewayJobs implements this specification (MCGatewayRefinement), and    *)
(* Outbound is composed with it.                                           *)
(***************************************************************************)
EXTENDS Integers, Sequences

CONSTANTS
    Keys,       \* idempotency keys, each used for one message
    Groups,     \* the keys of group messages
    Cloud,      \* the keys sent through the Official API
    Callers,    \* clients
    Gone        \* a client that stopped waiting

ASSUME ContractAssumption ==
    /\ Groups \subseteq Keys
    /\ Cloud \subseteq Keys \ Groups
    /\ Gone \notin Callers

VARIABLES
    outcome,    \* per key: "open", "submitted" or "blocked"
    log,        \* events [key, status], oldest first
    inbox,      \* requests [caller, key] not answered yet
    answer,     \* what each client knows of its last request
    decided       \* the request being served has decided its outcome

contractVars == <<outcome, log, inbox, answer, decided>>

Answers == {"none", "waiting", "ok", "failed", "uncertain", "unavailable"}

ContractInit ==
    /\ outcome = [k \in Keys |-> "open"]
    /\ log = <<>>
    /\ inbox = <<>>
    /\ answer = [c \in Callers |-> "none"]
    /\ decided = FALSE

Pending == inbox # <<>>
Key == inbox[1].key

Ask(c, k) ==
    /\ answer[c] # "waiting"
    /\ inbox' = Append(inbox, [caller |-> c, key |-> k])
    /\ answer' = [answer EXCEPT ![c] = "waiting"]
    /\ UNCHANGED <<outcome, log, decided>>

\* The client stops waiting (or dies); the request is served all the same.
Abandon(c) ==
    /\ answer[c] = "waiting"
    /\ answer' = [answer EXCEPT ![c] = "unavailable"]
    /\ inbox' = [i \in 1 .. Len(inbox) |->
                    IF inbox[i].caller = c
                    THEN [caller |-> Gone, key |-> inbox[i].key] ELSE inbox[i]]
    /\ UNCHANGED <<outcome, log, decided>>

\* The outcome of the request being served becomes final.
Decide(o) ==
    /\ Pending
    /\ outcome[Key] = "open"
    /\ o = "submitted" \/ (o = "blocked" /\ Key \in Groups)
    /\ outcome' = [outcome EXCEPT ![Key] = o]
    /\ decided' = TRUE
    /\ UNCHANGED <<log, inbox, answer>>

Settled(a) ==
    /\ answer' = IF inbox[1].caller = Gone THEN answer
                 ELSE [answer EXCEPT ![inbox[1].caller] = a]
    /\ inbox' = Tail(inbox)
    /\ decided' = FALSE

Report(k, s) == log' = Append(log, [key |-> k, status |-> s])

\* A new outcome is reported, one that was decided before is not reported again.
ReportDecision(s) == IF decided THEN Report(Key, s) ELSE UNCHANGED log

AnswerOk ==
    /\ Pending
    /\ outcome[Key] = "submitted"
    /\ ReportDecision("Submitted")
    /\ Settled("ok")
    /\ UNCHANGED outcome

\* A request that was refused leaves no event, an attempt that failed does; the
\* key stays open.
AnswerFailed ==
    /\ Pending
    /\ outcome[Key] = "open"
    /\ UNCHANGED log \/ Report(Key, "Failed")
    /\ Settled("failed")
    /\ UNCHANGED outcome

AnswerUncertain ==
    /\ Pending
    /\ outcome[Key] = "blocked"
    /\ ReportDecision("Failed")
    /\ Settled("uncertain")
    /\ UNCHANGED outcome

\* A delivery receipt of a message that was submitted.
Notify(k, s) ==
    /\ ~decided
    /\ outcome[k] = "submitted"
    /\ s = "Acknowledged" \/ (s = "Failed" /\ k \in Cloud)
    /\ Report(k, s)
    /\ UNCHANGED <<outcome, inbox, answer, decided>>

\* The process dies.  A group message that was being handed over is blocked.
Die ==
    /\ Pending
    /\ \/ UNCHANGED outcome
       \/ /\ outcome[Key] = "open" /\ Key \in Groups
          /\ outcome' = [outcome EXCEPT ![Key] = "blocked"]
    /\ inbox' = <<>>
    /\ decided' = FALSE
    /\ answer' = [c \in Callers |->
                    IF answer[c] = "waiting" THEN "unavailable" ELSE answer[c]]
    /\ UNCHANGED log

Serve ==
    \/ \E o \in {"submitted", "blocked"} : Decide(o)
    \/ AnswerOk \/ AnswerFailed \/ AnswerUncertain

ContractNext ==
    \/ \E c \in Callers, k \in Keys : Ask(c, k)
    \/ \E c \in Callers : Abandon(c)
    \/ Serve
    \/ \E k \in Keys, s \in {"Acknowledged", "Failed"} : Notify(k, s)
    \/ Die

ContractSpec == ContractInit /\ [][ContractNext]_contractVars

=============================================================================
