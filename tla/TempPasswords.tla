----------------------------- MODULE TempPasswords -----------------------------
(***************************************************************************)
(* The temporary passwords of one door lock (temp_password_manager.py):    *)
(* granting, revoking and listing them and the clean-up of expired ones,   *)
(* on top of the two channels they use: the account's table, read over     *)
(* HTTPS, and the cmd=246/247 requests, which share one correlation key    *)
(* (PendingRequests has the key's own life).                               *)
(*                                                                         *)
(* The server holds the passwords; _records is the manager's copy.  The    *)
(* copy is a dictionary of lists: grant() holds on to the list it found    *)
(* before it awaits the server, and reading the table puts new lists in.   *)
(***************************************************************************)
EXTENDS Naturals, FiniteSets

CONSTANTS
    Task,        \* concurrent service calls and clean-up runs
    MaxActive,   \* TempPasswordManager.MAX_ACTIVE
    MaxIssued,   \* bound of the model: passwords the server ever issues
    MaxAnswers   \* bound of the model: answers on their way at a time

ASSUME PasswordAssumption ==
    /\ IsFiniteSet(Task) /\ MaxActive \in Nat \ {0} /\ MaxIssued \in Nat
    /\ MaxAnswers \in Nat

VARIABLES
    server,      \* authorizations in force at the server
    issued,      \* authorizedId of the newest password
    records,     \* ids in TempPasswordManager._records of the lock
    calls,       \* per task: the call it runs
    answers,     \* answers of the server on their way
    unchecked,   \* history: a grant went ahead without having seen the table
    revoked      \* history: ids that revoke() reported as deleted, on the answer
                 \* to its own request

passwordVars == <<server, issued, records, calls, answers, unchecked, revoked>>

AuthId == 1..MaxIssued

Idle == [op |-> "none", pc |-> "idle", id |-> 0, seen |-> {}, attached |-> FALSE,
         served |-> FALSE, todo |-> {}]

Call == [op : {"none", "grant", "revoke", "list", "cleanup"},
         pc : {"idle", "reading", "sending", "waiting", "cleaning"},
         id : 0..MaxIssued,          \* the authorizedId concerned
         seen : SUBSET AuthId,       \* the table as it was read
         attached : BOOLEAN,         \* the list held is still the one in _records
         served : BOOLEAN,           \* the server has acted on the request
         todo : SUBSET AuthId]       \* what a clean-up run has still to revoke

PasswordTypeOK ==
    /\ server \subseteq 1..issued /\ issued \in 0..MaxIssued
    /\ records \subseteq 1..issued
    /\ calls \in [Task -> Call]
    /\ answers \subseteq [op : {"grant", "revoke"}, id : AuthId]
    /\ unchecked \in BOOLEAN
    /\ revoked \subseteq 1..issued
    \* one request waits at a time: the second is refused
    /\ \A t, u \in Task : calls[t].pc = "waiting" /\ calls[u].pc = "waiting" => t = u

PasswordInit ==
    /\ server = {} /\ issued = 0 /\ records = {}
    /\ calls = [t \in Task |-> Idle]
    /\ answers = {}
    /\ unchecked = FALSE /\ revoked = {}

-----------------------------------------------------------------------------
(* Reading the table *)

\* A call is over; a clean-up run goes on with its next record.
Over(t) ==
    IF calls[t].todo = {} THEN Idle
    ELSE [Idle EXCEPT !.op = "cleanup", !.pc = "cleaning", !.todo = calls[t].todo]

\* _records = {...}: whoever holds an old list holds it for himself.
Detached == [u \in Task |-> [calls[u] EXCEPT !.attached = FALSE]]

\* grant() and list() ask for the table; the server answers from what it has now.
ReadStarts(t, op) ==
    /\ calls[t] = Idle /\ op \in {"grant", "list"}
    /\ calls' = [calls EXCEPT ![t] = [Idle EXCEPT !.op = op, !.pc = "reading", !.seen = server]]
    /\ UNCHANGED <<server, issued, records, answers, unchecked, revoked>>

\* Mutant of AtLimit: the limit is tested one too late.
AtLimitLate(t) == Cardinality(calls[t].seen) > MaxActive

\* len(active) >= MAX_ACTIVE
AtLimit(t) == Cardinality(calls[t].seen) >= MaxActive

Sending(t, cls) == [cls EXCEPT ![t].pc = "sending", ![t].attached = TRUE, ![t].seen = {}]

\* fetch_server_records returned: the copy is rebuilt, then grant() looks at
\* the limit and takes hold of the lock's list.
ReadDone(t) ==
    /\ calls[t].pc = "reading"
    /\ records' = calls[t].seen
    /\ calls' = IF calls[t].op = "grant" /\ ~AtLimit(t)
                  THEN Sending(t, Detached)
                  ELSE [Detached EXCEPT ![t] = Over(t)]
    /\ UNCHANGED <<server, issued, answers, unchecked, revoked>>

\* Not logged in, or the request failed: an empty list, which is below any limit.
ReadFails(t) ==
    /\ calls[t].pc = "reading"
    /\ calls' = IF calls[t].op = "grant" THEN Sending(t, calls)
                                         ELSE [calls EXCEPT ![t] = Over(t)]
    /\ unchecked' = (unchecked \/ calls[t].op = "grant")
    /\ UNCHANGED <<server, issued, records, answers, revoked>>

-----------------------------------------------------------------------------
(* Requests *)

\* revoke(): by a user for a password that is listed somewhere, or by a clean-up run for its next one.
RevokeStarts(t, id) ==
    /\ \/ calls[t] = Idle /\ id \in server \cup records
       \/ calls[t].pc = "cleaning" /\ id \in calls[t].todo
    /\ calls' = [calls EXCEPT ![t] = [Idle EXCEPT !.op = "revoke", !.pc = "sending", !.id = id,
                                                  !.todo = calls[t].todo \ {id}]]
    /\ UNCHANGED <<server, issued, records, answers, unchecked, revoked>>

\* start_cleanup's run(): over the records it finds that are expired, be it by
\* their end or by the number of their uses (is_expired).
CleanupStarts(t, spent) ==
    /\ calls[t] = Idle /\ spent # {}
    /\ calls' = [calls EXCEPT ![t] = [Idle EXCEPT !.op = "cleanup", !.pc = "cleaning",
                                                  !.todo = spent]]
    /\ UNCHANGED <<server, issued, records, answers, unchecked, revoked>>

\* The request is registered and written, unless another one is waiting.
Send(t) ==
    /\ calls[t].pc = "sending"
    /\ \A u \in Task : calls[u].pc # "waiting"
    /\ calls' = [calls EXCEPT ![t].pc = "waiting"]
    /\ UNCHANGED <<server, issued, records, answers, unchecked, revoked>>

\* Refused, not sent, refused by the server or timed out: an error is reported
\* and nothing is recorded, whatever the server has done meanwhile.
CallFails(t) ==
    /\ calls[t].pc \in {"sending", "waiting"}
    /\ calls' = [calls EXCEPT ![t] = Over(t)]
    /\ UNCHANGED <<server, issued, records, answers, unchecked, revoked>>

\* The server acts on the request that waits and answers it.
ServerActs(t) ==
    /\ calls[t].pc = "waiting" /\ ~calls[t].served
    /\ Cardinality(answers) < MaxAnswers
    /\ \/ /\ calls[t].op = "grant" /\ issued < MaxIssued
          /\ issued' = issued + 1
          /\ server' = server \cup {issued + 1}
          /\ answers' = answers \cup {[op |-> "grant", id |-> issued + 1]}
       \/ /\ calls[t].op = "revoke"
          /\ server' = server \ {calls[t].id}
          /\ answers' = answers \cup {[op |-> "revoke", id |-> calls[t].id]}
          /\ UNCHANGED issued
    /\ calls' = [calls EXCEPT ![t].served = TRUE]
    /\ UNCHANGED <<records, unchecked, revoked>>

\* records.append(record): it shows if the list is still the manager's.
Granted(t, a) ==
    /\ calls[t].op = "grant"
    /\ records' = IF a.op = "grant" /\ calls[t].attached THEN records \cup {a.id} ELSE records
    /\ calls' = [calls EXCEPT ![t] = Over(t)]
    /\ UNCHANGED revoked

\* Mutant of Revoked: the records still to be cleaned up are reported as well.
RevokedAhead(t, a) ==
    /\ calls[t].op = "revoke"
    /\ records' = records \ {calls[t].id}
    /\ revoked' = revoked \cup {calls[t].id} \cup calls[t].todo
    /\ calls' = [Detached EXCEPT ![t] = Over(t)]

\* status 0 is all that revoke() looks at.
Revoked(t, a) ==
    /\ calls[t].op = "revoke"
    /\ records' = records \ {calls[t].id}
    /\ revoked' = IF a = [op |-> "revoke", id |-> calls[t].id]
                    THEN revoked \cup {a.id} ELSE revoked
    /\ calls' = [Detached EXCEPT ![t] = Over(t)]

\* An answer reaches whichever request waits under the key, or nobody.
Answered(a) ==
    /\ a \in answers
    /\ answers' = answers \ {a}
    /\ \/ \E t \in Task : calls[t].pc = "waiting" /\ (Granted(t, a) \/ Revoked(t, a))
       \/ /\ \A t \in Task : calls[t].pc # "waiting"
          /\ UNCHANGED <<records, calls, revoked>>
    /\ UNCHANGED <<server, issued, unchecked>>

PasswordNext ==
    \/ \E t \in Task :
           \/ \E op \in {"grant", "list"} : ReadStarts(t, op)
           \/ ReadDone(t) \/ ReadFails(t)
           \/ \E id \in AuthId : RevokeStarts(t, id)
           \/ \E spent \in SUBSET records : CleanupStarts(t, spent)
           \/ Send(t) \/ CallFails(t) \/ ServerActs(t)
    \/ \E a \in answers : Answered(a)

PasswordSpec == PasswordInit /\ [][PasswordNext]_passwordVars

-----------------------------------------------------------------------------
(* Properties *)

(***************************************************************************)
(* How far MAX_ACTIVE holds.  The limit is compared with a table that was  *)
(* read before the request is sent, so calls that overlap can each pass    *)
(* it: the lock ends up with at most one password too many per further     *)
(* call.  A table that could not be read lifts the limit altogether.       *)
(***************************************************************************)
LimitOverrunBounded ==
    unchecked \/ Cardinality(server) <= MaxActive + Cardinality(Task) - 1

(***************************************************************************)
(* A password reported as deleted opens no door: it is out of force at the *)
(* server, whatever timed out, was retried or was cleaned up in between.   *)
(* The exception is a revocation that took the late answer of an earlier   *)
(* request under the shared key for its own.                               *)
(***************************************************************************)
RevokedIsGone == revoked \cap server = {}

=============================================================================
