-------------------------------- MODULE Store --------------------------------
(***************************************************************************)
(* What the unary RPCs (server.cpp), the Query stream and the watch dog do  *)
(* to the database, on top of its start (Updater).  Every statement is      *)
(* atomic, may fail, and is committed at once; a handler of several         *)
(* statements is interleaved with the others and lost in a crash.  Foreign  *)
(* keys are not enforced (SQLite's default).                                *)
(*                                                                          *)
(* A call that fails in its only statement, and the RPCs that only read     *)
(* (Login, Logout, GetSession, GetChatMessage, GetPluginInfo, Download,     *)
(* Heartbeat), leave no trace.                                              *)
(***************************************************************************)
EXTENDS Updater

CONSTANTS
    Sessions,   \* session ids that gen_u64 may produce
    NoSession,  \* the stream has not begun
    Queries,    \* Query streams
    Deleters,   \* threads that run DelSession
    Accounts, Files, Plugins,
    Batches,    \* what is published: sequences of plugins and other items
    MaxCalls    \* bound: calls of handlers that write, and publications

ASSUME BatchesAssumption == \A b \in Batches : b \in Seq(Plugins \cup {"other"})
ASSUME MaxCallsAssumption == MaxCalls \in Nat

VARIABLES
    title,      \* the title of a session: "old" or "new"; "unused", "deleted"
    messages,   \* rows of table message
    stage,      \* where each Query stream is
    session,    \* its session
    todo,       \* ids that a DelSession has not done with
    half,       \* it has deleted the session of the first of them
    interrupted,\* history: sessions whose DelSession ended half way
    users, files, plugins,  \* keys of these tables
    batch,      \* what _on_pub_msg has still to do
    calls       \* calls and publications so far

sessionVars == <<title, messages, stage, session, todo, half, interrupted>>
tableVars == <<users, files, plugins, batch>>
vars == <<bootVars, sessionVars, tableVars, calls>>

\* A row: its stream, its role, its session; linked, if it names the question
\* as its predecessor; late, if the session was gone when it was written.
Message == [query : Queries, role : {"user", "assistant"}, session : Sessions,
            linked : BOOLEAN, late : BOOLEAN]

\* The row of the session is there.
Exists(s) == title[s] \in {"old", "new"}

\* A client has been given the id.
Known == {s \in Sessions : title[s] # "unused"}

Init ==
    /\ BootInit
    /\ title = [s \in Sessions |-> "unused"]
    /\ messages = {}
    /\ stage = [q \in Queries |-> "idle"]
    /\ session = [q \in Queries |-> NoSession]
    /\ todo = [d \in Deleters |-> <<>>] /\ half = [d \in Deleters |-> FALSE]
    /\ interrupted = {}
    /\ users = {} /\ files = {} /\ plugins = {} /\ batch = <<>>
    /\ calls = 0

\* A call begins.
Called == calls < MaxCalls /\ calls' = calls + 1

-----------------------------------------------------------------------------
(* Handlers of one statement.                                               *)

\* user.username is UNIQUE.
RegAccount(a) ==
    /\ Called
    /\ Reachable("user") /\ a \notin users
    /\ users' = users \cup {a}
    /\ UNCHANGED <<bootVars, sessionVars, files, plugins, batch>>

\* file.hash is the primary key.
Upload(f) ==
    /\ Called
    /\ Reachable("file") /\ f \notin files
    /\ files' = files \cup {f}
    /\ UNCHANGED <<bootVars, sessionVars, users, plugins, batch>>

NewSession(s) ==
    /\ Called
    /\ Reachable("session") /\ title[s] = "unused"
    /\ title' = [title EXCEPT ![s] = "old"]
    /\ UNCHANGED <<bootVars, messages, stage, session, todo, half, interrupted,
                   tableVars>>

\* The title of a session that is gone stays gone; the answer is OK anyway.
ModifySessionTitle(s) ==
    /\ Called
    /\ Reachable("session") /\ Exists(s)
    /\ title' = [title EXCEPT ![s] = "new"]
    /\ UNCHANGED <<bootVars, messages, stage, session, todo, half, interrupted,
                   tableVars>>

-----------------------------------------------------------------------------
(* DelSession: for each id the session, then its messages.                  *)

DelBegin(d, ids) ==
    /\ Called
    /\ boot = "serving" /\ todo[d] = <<>>
    /\ todo' = [todo EXCEPT ![d] = ids]
    /\ UNCHANGED <<bootVars, title, messages, stage, session, half, interrupted,
                   tableVars>>

\* As DelReturns, with half kept.
DelReturnsHalf(d) ==
    /\ todo' = [todo EXCEPT ![d] = <<>>]
    /\ UNCHANGED half

\* The handler returns; the ids it has done with are in the answer.
DelReturns(d) ==
    /\ todo' = [todo EXCEPT ![d] = <<>>]
    /\ half' = [half EXCEPT ![d] = FALSE]

\* As DelRow, with the messages left to ON DELETE CASCADE.
DelRowOnly(d, ok) ==
    /\ boot = "serving" /\ todo[d] # <<>> /\ ~half[d]
    /\ IF ok
         THEN /\ Reachable("session")
              /\ title' = [title EXCEPT ![Head(todo[d])] = "deleted"]
              /\ todo' = [todo EXCEPT ![d] = Tail(@)]
              /\ UNCHANGED half
         ELSE DelReturns(d) /\ UNCHANGED title
    /\ UNCHANGED <<bootVars, messages, stage, session, interrupted, tableVars,
                   calls>>

\* The statement deletes nothing if the row is gone already.
DelRow(d, ok) ==
    /\ boot = "serving" /\ todo[d] # <<>> /\ ~half[d]
    /\ IF ok
         THEN /\ Reachable("session")
              /\ title' = [title EXCEPT ![Head(todo[d])] = "deleted"]
              /\ half' = [half EXCEPT ![d] = TRUE]
              /\ UNCHANGED todo
         ELSE DelReturns(d) /\ UNCHANGED title
    /\ UNCHANGED <<bootVars, messages, stage, session, interrupted, tableVars,
                   calls>>

DelMessages(d, ok) ==
    /\ boot = "serving" /\ half[d]
    /\ LET s == Head(todo[d])
       IN  IF ok
             THEN /\ Reachable("message")
                  /\ messages' = {m \in messages : m.session # s}
                  /\ todo' = [todo EXCEPT ![d] = Tail(@)]
                  /\ half' = [half EXCEPT ![d] = FALSE]
                  /\ interrupted' = interrupted \ {s}
             ELSE /\ DelReturns(d)
                  /\ interrupted' = interrupted \cup {s}
                  /\ UNCHANGED messages
    /\ UNCHANGED <<bootVars, title, stage, session, tableVars, calls>>

-----------------------------------------------------------------------------
(* The rows of a Query stream (QueryReactor has the rest of it).            *)

Row(q, s, role, linked) ==
    [query |-> q, role |-> role, session |-> s, linked |-> linked,
     late |-> ~Exists(s)]

\* As QueryAsk, with the stream going on after a failed insert.
QueryAskGoesOn(q, s, ok) ==
    /\ Called
    /\ boot = "serving" /\ stage[q] = "idle" /\ s \in Known
    /\ ok => Reachable("message")
    /\ session' = [session EXCEPT ![q] = s]
    /\ stage' = [stage EXCEPT ![q] = "asked"]
    /\ messages' = IF ok THEN messages \cup {Row(q, s, "user", FALSE)}
                   ELSE messages
    /\ UNCHANGED <<bootVars, title, todo, half, interrupted, tableVars>>

\* The question is stored, whether its session is there or not.  If that
\* fails there is no query (nor if the pipeline is unknown).
QueryAsk(q, s, ok) ==
    /\ Called
    /\ boot = "serving" /\ stage[q] = "idle" /\ s \in Known
    /\ ok => Reachable("message")
    /\ session' = [session EXCEPT ![q] = s]
    /\ stage' = [stage EXCEPT ![q] = IF ok THEN "asked" ELSE "unasked"]
    /\ messages' = IF ok THEN messages \cup {Row(q, s, "user", FALSE)}
                   ELSE messages
    /\ UNCHANGED <<bootVars, title, todo, half, interrupted, tableVars>>

\* OnDone stores the answer under the id that is current: the answer's own,
\* or, after a failed question, the question's, without a predecessor.
QueryOnDone(q, ok) ==
    /\ boot = "serving" /\ stage[q] \in {"asked", "unasked"}
    /\ ok => Reachable("message")
    /\ stage' = [stage EXCEPT ![q] = "over"]
    /\ messages' =
          IF ok THEN messages \cup
                     {Row(q, session[q], "assistant", stage[q] = "asked")}
          ELSE messages
    /\ UNCHANGED <<bootVars, title, session, todo, half, interrupted, tableVars,
                   calls>>

-----------------------------------------------------------------------------
(* watch_dog::_on_pub_msg, one item a step.                                 *)

OnPubMsg(b) ==
    /\ Called
    /\ boot = "serving" /\ batch = <<>>
    /\ batch' = b
    /\ UNCHANGED <<bootVars, sessionVars, users, files, plugins>>

\* The rest of the batch is dropped at the first plugin that cannot be
\* inserted, one that is there already (plugin.hash is the key) included.
OnPubItem(ok) ==
    /\ boot = "serving" /\ batch # <<>>
    /\ LET p == Head(batch)
       IN  IF p = "other"
             THEN batch' = Tail(batch) /\ UNCHANGED plugins
             ELSE IF ok /\ p \notin plugins
                    THEN /\ Reachable("plugin")
                         /\ plugins' = plugins \cup {p}
                         /\ batch' = Tail(batch)
                    ELSE batch' = <<>> /\ UNCHANGED plugins
    /\ UNCHANGED <<bootVars, sessionVars, users, files, calls>>

-----------------------------------------------------------------------------
\* Handlers and streams end with the process; the rows stay.
Crash ==
    /\ CrashProcess
    /\ interrupted' = interrupted \cup {Head(todo[d]) : d \in {e \in Deleters : half[e]}}
    /\ todo' = [d \in Deleters |-> <<>>] /\ half' = [d \in Deleters |-> FALSE]
    /\ stage' = [q \in Queries |-> IF stage[q] = "idle" THEN "idle" ELSE "over"]
    /\ batch' = <<>>
    /\ UNCHANGED <<title, messages, session, users, files, plugins, calls>>

DelRequests == {<<s>> : s \in Known} \cup (Known \X Known)

Next ==
    \/ BootStep /\ UNCHANGED <<sessionVars, tableVars, calls>>
    \/ \E a \in Accounts : RegAccount(a)
    \/ \E f \in Files : Upload(f)
    \/ \E s \in Sessions : NewSession(s) \/ ModifySessionTitle(s)
    \/ \E d \in Deleters, ids \in DelRequests : DelBegin(d, ids)
    \/ \E d \in Deleters, ok \in BOOLEAN : DelRow(d, ok) \/ DelMessages(d, ok)
    \/ \E q \in Queries, s \in Sessions, ok \in BOOLEAN : QueryAsk(q, s, ok)
    \/ \E q \in Queries, ok \in BOOLEAN : QueryOnDone(q, ok)
    \/ \E b \in Batches : OnPubMsg(b)
    \/ \E ok \in BOOLEAN : OnPubItem(ok)
    \/ Crash

Spec == Init /\ [][Next]_vars

-----------------------------------------------------------------------------
(* Properties.                                                              *)

\* Every variable has its type.
TypeOK ==
    /\ conf \in DbConfs
    /\ boot \in {"down", "migrate", "statements", "check", "pools", "serving",
                 "corrupt"}
    /\ pools \in {NoPools, Loaded}
    /\ disk \subseteq work /\ work \subseteq Complete
    /\ step \in DOMAIN Statements /\ tx \in BOOLEAN /\ crashes \in 0..MaxCrashes
    /\ title \in [Sessions -> {"unused", "old", "new", "deleted"}]
    /\ messages \subseteq Message
    /\ stage \in [Queries -> {"idle", "asked", "unasked", "over"}]
    /\ session \in [Queries -> Sessions \cup {NoSession}]
    /\ \A d \in Deleters : todo[d] \in Seq(Sessions) /\ Len(todo[d]) <= 2
    /\ half \in [Deleters -> BOOLEAN]
    /\ \A d \in Deleters : half[d] => todo[d] # <<>>
    /\ interrupted \subseteq Sessions
    /\ users \subseteq Accounts /\ files \subseteq Files /\ plugins \subseteq Plugins
    /\ batch \in Seq(Plugins \cup {"other"})
    /\ calls \in 0..MaxCalls

\* A database that says it has version 1 has every table, whatever failed and
\* whenever the process died: migrate never looks at it again.
SchemaVersionMeansComplete == "version_row" \in disk => disk = Complete

\* A message that was stored while its session was there is gone with it,
\* however many DelSessions and Queries of the session run at once: only
\* one that is, or has ended, between its two statements leaves it behind,
\* until the next DelSession of the id.
OrphansHaveCause ==
    \A m \in messages :
        ~m.late /\ title[m.session] = "deleted" =>
            \/ m.session \in interrupted
            \/ \E d \in Deleters : half[d] /\ Head(todo[d]) = m.session

\* In a session that is there, every answer that names a predecessor follows
\* a question that is there: GetChatMessage shows no half of a thread.
ThreadIntact ==
    \A m \in messages : m.linked /\ Exists(m.session) =>
        \E n \in messages : n.role = "user" /\ n.query = m.query

\* Against the minimum min, a version of three parts or more that is accepted
\* is not older, for every minimum and every version.
FullVersionsAreOrdered ==
    \A min \in MinVersions, v \in Versions :
        Len(v) >= 3 /\ Accepts(min, v) => ~Older(v, min)

\* A client with a full version number that Login does not tell to update is
\* not older than the minimum.  (The converse is not true: 2.0.0 is refused
\* where 1.5.0 is the minimum.  And of 1 only the 1 is looked at.)
AcceptedIsNotOlder == boot = "serving" => FullVersionsAreOrdered
==============================================================================
