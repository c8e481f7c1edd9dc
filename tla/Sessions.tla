------------------------------ MODULE Sessions ------------------------------
(***************************************************************************)
(* Sessions in the SQLite store, and the operations of the server that     *)
(* change them: create, rename, fork, compact, delete, reply.              *)
(*                                                                         *)
(* A write (upsert_session, delete_session) is one transaction, but every  *)
(* operation except delete works on a copy it loaded earlier, in two       *)
(* separate queries (the row, then the messages), and writes the whole     *)
(* copy back.  Nothing in the server serialises two operations on one      *)
(* session: an operation is stale when the session was written between     *)
(* its first query and its save.                                           *)
(*                                                                         *)
(* The specification keeps beside the store what each session would hold   *)
(* if the operations had run one at a time (ideal).                        *)
(***************************************************************************)
EXTENDS Naturals, Sequences, FiniteSets

CONSTANTS
  Clients,        \* the requests of a behaviour, one operation each
  MaxSessions,    \* sessions ever made; ids are 1..MaxSessions in order
  MaxMessages,    \* ContextManager::max_messages
  PreserveRecent, \* ContextManager::preserve_recent
  MaxFaults       \* transactions that fail

ASSUME LimitsAssumption == /\ PreserveRecent \in Nat /\ MaxMessages > PreserveRecent
                           /\ MaxSessions \in Nat \ {0}

VARIABLES
  rows,    \* id -> [name, parent], the rows of table sessions
  msgs,    \* id -> the messages rows, by position
  op,      \* client -> its operation, its step and the copy it works on
  ideal,   \* id -> the session after the same operations one at a time
  mixed,   \* ids written from a stale copy, and the forks of these
  made,    \* sessions made so far
  faults

vars == <<rows, msgs, op, ideal, mixed, made, faults>>

Kinds == {"create", "create_child", "rename", "fork", "compact", "delete", "reply", "history"}

Gone == [name |-> "gone", parent |-> 0, conv |-> <<>>]

Idle == [kind |-> "none", at |-> "idle", id |-> 0, copy |-> Gone, stale |-> {}, result |-> "none"]

-----------------------------------------------------------------------------
(* What an operation does to the copy it has loaded                        *)

\* A message is [by, role, covers]: who wrote it, and for a summary the
\* messages it stands for.
Said(c, role) == [by |-> c, role |-> role, covers |-> {}]

CompactedBy(c, conv, keep) ==
  IF keep = 0 \/ Len(conv) <= keep THEN conv
  ELSE LET cut == Len(conv) - keep
       IN <<[by |-> c, role |-> "system", covers |-> {conv[i] : i \in 1..cut}]>>
            \o SubSeq(conv, cut + 1, Len(conv))

\* maybe_compact: only above max_messages
Compacted(c, conv) ==
  IF Len(conv) <= MaxMessages THEN conv ELSE CompactedBy(c, conv, PreserveRecent)

\* apply_derived_session_name
DerivedName(s) == IF s.name # "session" THEN s.name
                  ELSE IF \E i \in DOMAIN s.conv : s.conv[i].role = "user" THEN "derived"
                  ELSE "session-id"

StripPlaceholders(conv) == SelectSeq(conv, LAMBDA m : m.role # "placeholder")

\* prepare_reply_session, the messages of the run and finalize_pumped_session;
\* answer is what the run leaves: a message, nothing, or an error.
Replied(c, s, answer) ==
  LET before == Append(StripPlaceholders(s.conv), Said(c, "user"))
      after == CASE answer = "message" -> Append(before, Said(c, "assistant"))
                 [] answer = "nothing" -> Append(before, Said(c, "placeholder"))
                 [] OTHER              -> before
      t == [s EXCEPT !.conv = after]
  IN [t EXCEPT !.name = DerivedName(t)]

\* Session::fork, of the whole history or of its first message
Forked(s, upTo) ==
  [s EXCEPT !.name = "fork", !.conv = IF upTo = "first" THEN SubSeq(@, 1, IF @ = <<>> THEN 0 ELSE 1) ELSE @]

\* op[c].result fixes the free choices of an operation, so that it can be applied
\* to the loaded copy and to the ideal session alike.
Effect(c, s) ==
  CASE op[c].kind = "rename"  -> [s EXCEPT !.name = "named"]
    [] op[c].kind = "compact" -> [s EXCEPT !.conv = Compacted(c, @)]
    [] op[c].kind = "fork"    -> Forked(s, op[c].result)
    [] op[c].kind = "reply"   -> Replied(c, s, op[c].result)
    [] OTHER                  -> s

-----------------------------------------------------------------------------
(* The store                                                               *)

\* every other operation in progress on this session has an old copy now
MarkStale(f, c, id) ==
  [d \in Clients |-> IF d # c /\ f[d].id = id /\ f[d].at \notin {"idle", "create", "row", "done"}
                     THEN [f[d] EXCEPT !.stale = @ \union {c}] ELSE f[d]]

\* Mutant: the old messages are not deleted first.
UpsertMutant(id, s) ==
  /\ rows' = [i \in DOMAIN rows \union {id} |->
                IF i = id THEN [name |-> s.name, parent |-> s.parent] ELSE rows[i]]
  /\ msgs' = [i \in DOMAIN msgs \union {id} |->
                IF i # id THEN msgs[i] ELSE IF i \in DOMAIN msgs THEN msgs[i] \o s.conv ELSE s.conv]

\* upsert_session: the row, and all messages in place of the old ones
Upsert(id, s) ==
  /\ rows' = [i \in DOMAIN rows \union {id} |->
                IF i = id THEN [name |-> s.name, parent |-> s.parent] ELSE rows[i]]
  /\ msgs' = [i \in DOMAIN msgs \union {id} |-> IF i = id THEN s.conv ELSE msgs[i]]

\* delete_session
RemoveSession(id) ==
  /\ rows' = [i \in DOMAIN rows \ {id} |-> rows[i]]
  /\ msgs' = [i \in DOMAIN msgs \ {id} |-> msgs[i]]

Stored(id) == IF id \in DOMAIN rows
              THEN [name |-> rows[id].name, parent |-> rows[id].parent, conv |-> msgs[id]]
              ELSE Gone

-----------------------------------------------------------------------------
(* The operations                                                          *)

Done(f, c, result) == [f EXCEPT ![c].at = "done", ![c].result = result]

\* A request arrives.  A reply without a session id makes a session first.
Begin(c, kind, id) ==
  /\ op[c].at = "idle"
  /\ kind \in {"create", "create_child"} => made < MaxSessions
  /\ kind = "create" <=> id = 0
  /\ op' = [op EXCEPT ![c] = [@ EXCEPT !.kind = kind, !.id = id,
               !.at = IF kind \in {"create", "create_child"} THEN "create"
                      ELSE IF kind = "delete" THEN "delete" ELSE "row"]]
  /\ UNCHANGED <<rows, msgs, ideal, mixed, made, faults>>

\* SessionManager::create; a child session is then saved again with its parent
Create(c) ==
  /\ op[c].at = "create" /\ made < MaxSessions
  /\ LET id == made + 1
         s == [name |-> "session", parent |-> 0, conv |-> <<>>]
     IN /\ made' = id
        /\ Upsert(id, s)
        /\ ideal' = [ideal EXCEPT ![id] = s]
        /\ op' = IF op[c].kind = "create" THEN Done(op, c, "ok")
                 ELSE [op EXCEPT ![c].at = "save", ![c].id = id,
                         ![c].copy = [s EXCEPT !.parent = op[c].id]]
  /\ UNCHANGED <<mixed, faults>>

\* get_session, first query
ReadRow(c) ==
  /\ op[c].at = "row"
  /\ op' = IF op[c].id \in DOMAIN rows
           THEN [op EXCEPT ![c].at = "messages",
                   ![c].copy = [Gone EXCEPT !.name = rows[op[c].id].name,
                                            !.parent = rows[op[c].id].parent]]
           ELSE Done(op, c, "not_found")
  /\ UNCHANGED <<rows, msgs, ideal, mixed, made, faults>>

\* get_session, second query; then what needs no further input
ReadMessages(c) ==
  /\ op[c].at = "messages"
  /\ LET conv == IF op[c].id \in DOMAIN msgs THEN msgs[op[c].id] ELSE <<>>
         next == CASE op[c].kind = "history" -> "done"
                   [] op[c].kind = "compact" /\ Len(conv) <= MaxMessages -> "done"
                   [] op[c].kind \in {"reply", "fork"} -> "work"
                   [] OTHER -> "save"
     IN op' = [op EXCEPT ![c].copy.conv = conv, ![c].at = next]
  /\ UNCHANGED <<rows, msgs, ideal, mixed, made, faults>>

\* The run of a reply, or the index of a fork.  A run that does not start leaves
\* nothing.
Work(c, choice) ==
  /\ op[c].at = "work"
  /\ op' = IF choice = "not_started" THEN Done(op, c, choice)
           ELSE [op EXCEPT ![c].at = "save", ![c].result = choice]
  /\ UNCHANGED <<rows, msgs, ideal, mixed, made, faults>>

\* The whole copy is written.
Save(c) ==
  /\ op[c].at = "save"
  /\ op[c].kind = "fork" => made < MaxSessions
  /\ LET new == IF op[c].kind = "fork" THEN made + 1 ELSE op[c].id
         was == ideal[op[c].id]
     IN /\ Upsert(new, Effect(c, op[c].copy))
        /\ ideal' = [ideal EXCEPT ![new] = IF op[c].kind = "create_child" THEN op[c].copy
                                           ELSE Effect(c, was)]
        /\ mixed' = IF op[c].stale # {} \/ op[c].id \in mixed THEN mixed \union {new} ELSE mixed
        /\ made' = IF op[c].kind = "fork" THEN new ELSE made
        /\ op' = Done(MarkStale(op, c, new), c, "ok")
  /\ UNCHANGED faults

\* The transaction fails and leaves nothing; the operation reports it, but the
\* final save of a reply is dropped without a word.
SaveFails(c) ==
  /\ op[c].at = "save" /\ faults < MaxFaults
  /\ faults' = faults + 1
  /\ op' = Done(op, c, IF op[c].kind = "reply" THEN "ok" ELSE "error")
  /\ UNCHANGED <<rows, msgs, ideal, mixed, made>>

Delete(c) ==
  /\ op[c].at = "delete"
  /\ RemoveSession(op[c].id)
  /\ ideal' = [ideal EXCEPT ![op[c].id] = Gone]
  /\ op' = Done(MarkStale(op, c, op[c].id), c,
                IF op[c].id \in DOMAIN rows THEN "ok" ELSE "not_found")
  /\ UNCHANGED <<mixed, made, faults>>

-----------------------------------------------------------------------------
\* One session with a short history, made and answered before the behaviour.
First == [name |-> "session", parent |-> 0,
          conv |-> <<Said("earlier", "user"), Said("earlier", "assistant")>>]

Init ==
  /\ rows = [i \in {1} |-> [name |-> First.name, parent |-> 0]]
  /\ msgs = [i \in {1} |-> First.conv]
  /\ op = [c \in Clients |-> Idle]
  /\ ideal = [i \in 1..MaxSessions |-> IF i = 1 THEN First ELSE Gone]
  /\ mixed = {}
  /\ made = 1
  /\ faults = 0

Next ==
  \E c \in Clients :
    \/ \E kind \in Kinds, id \in 0..made : Begin(c, kind, id)
    \/ Create(c)
    \/ ReadRow(c)
    \/ ReadMessages(c)
    \/ op[c].kind = "fork" /\ \E n \in {"first", "all"} : Work(c, n)
    \/ op[c].kind = "reply" /\ \E a \in {"message", "nothing", "error", "not_started"} : Work(c, a)
    \/ Save(c)
    \/ SaveFails(c)
    \/ Delete(c)

Spec == Init /\ [][Next]_vars

-----------------------------------------------------------------------------
(* Properties                                                              *)

\* Rows and messages are of the same sessions, every id was handed out, and a
\* session never written from a stale copy is never written half.
TypeOK ==
  /\ DOMAIN rows = DOMAIN msgs /\ DOMAIN rows \subseteq 1..made
  /\ made \in 1..MaxSessions /\ mixed \subseteq 1..made
  /\ \A c \in Clients : op[c].kind \in Kinds \union {"none"} /\ op[c].stale \subseteq Clients \ {c}

\* A session whose saves were all of fresh copies holds exactly what the same
\* operations give one at a time: nothing of another operation is lost,
\* resurrected or kept by half.
FreshSavesSerial == \A id \in 1..made : id \notin mixed => Stored(id) = ideal[id]
=============================================================================
