----------------------------- MODULE StoreProofs -----------------------------
(***************************************************************************)
(* Proofs about the database: for every configuration, any number of        *)
(* sessions, streams and handlers, any failures and any number of crashes,  *)
(* a schema that has a version is complete, an orphan among the messages    *)
(* has its cause, and a thread that is shown is shown with its question.    *)
(***************************************************************************)
EXTENDS Store, TLAPS

\* Statements in the order of the script, and how far migrate has come.
SchemaInv ==
    /\ step \in 1..7
    /\ disk \subseteq work /\ work \subseteq Complete
    /\ "version_row" \in work => work = Complete
    /\ "version_row" \in disk => disk = Complete
    /\ boot = "statements" => \A i \in 1..(step - 1) : Statements[i] \in work
    /\ boot = "check" => work = Complete

\* The script of core.sql has seven statements, the version row being the last.
LEMMA ScriptOrder ==
    /\ DOMAIN Statements = 1..7 /\ Len(Statements) = 7
    /\ \A i \in 1..7 : Statements[i] \in Complete
    /\ \A i \in 1..6 : Statements[i] # "version_row"
    /\ \A S \in SUBSET Complete :
          (\A i \in 1..7 : Statements[i] \in S) => S = Complete
<1>1. DOMAIN Statements = 1..7 /\ Len(Statements) = 7
  BY DEF Statements
<1>2. \A i \in 1..7 : Statements[i] \in Complete
  BY <1>1 DEF Complete
<1>3. \A i \in 1..6 : Statements[i] # "version_row"
  BY DEF Statements
<1>4. \A S \in SUBSET Complete :
          (\A i \in 1..7 : Statements[i] \in S) => S = Complete
  BY <1>1 DEF Complete
<1> QED BY <1>1, <1>2, <1>3, <1>4

\* Nothing is in the database before the first start.
LEMMA SchemaInit == Init => SchemaInv
  BY DEF Init, BootInit, SchemaInv

\* One statement of migrate, done or failed, in a transaction or not.
LEMMA SchemaStatement ==
    ASSUME SchemaInv, NEW ok \in BOOLEAN, MigrateStatement(ok)
    PROVE  SchemaInv'
<1>1. CASE ~ok
  BY <1>1 DEF MigrateStatement, Rollback, SchemaInv
<1>2. CASE ok /\ step < 7
  <2>1. /\ work' = work \cup {Statements[step]} /\ step' = step + 1
        /\ disk' = (IF tx THEN disk ELSE work') /\ boot' = "statements"
    BY <1>2, ScriptOrder DEF MigrateStatement
  <2>2. Statements[step] \in Complete /\ Statements[step] # "version_row"
    BY <1>2, ScriptOrder DEF SchemaInv
  <2>3. \A i \in 1..(step' - 1) : Statements[i] \in work'
    BY <2>1 DEF MigrateStatement, SchemaInv
  <2>4. "version_row" \in work' => work' = Complete
    BY <2>1, <2>2 DEF SchemaInv
  <2> QED BY <1>2, <2>1, <2>2, <2>3, <2>4 DEF SchemaInv
<1>3. CASE ok /\ step = 7
  <2>1. /\ work' = work \cup {Statements[7]} /\ step' = 7
        /\ disk' = (IF tx THEN disk ELSE work') /\ boot' = "check"
    BY <1>3, ScriptOrder DEF MigrateStatement
  <2>2. work' \subseteq Complete
    BY <2>1, ScriptOrder DEF SchemaInv
  <2>3. \A i \in 1..7 : Statements[i] \in work'
    BY <1>3, <2>1 DEF MigrateStatement, SchemaInv
  <2>4. work' = Complete
    BY <2>2, <2>3, ScriptOrder
  <2> QED BY <2>1, <2>4 DEF SchemaInv
<1> QED BY <1>1, <1>2, <1>3 DEF SchemaInv

\* Every other step of the start of the process.
LEMMA SchemaBoot ==
    ASSUME SchemaInv, BootStep
    PROVE  SchemaInv'
<1>1. CASE Start
  BY <1>1 DEF Start, SchemaInv
<1>2. CASE MigrateSkip
  BY <1>2 DEF MigrateSkip, SchemaInv
<1>3. CASE InitPools
  BY <1>3 DEF InitPools, SchemaInv
<1>4. CASE UseNullPool
  BY <1>4 DEF UseNullPool, SchemaInv
<1>5. ASSUME NEW ok \in BOOLEAN, MigrateBegin(ok)
      PROVE  SchemaInv'
  BY <1>5 DEF MigrateBegin, SchemaInv
<1>6. ASSUME NEW ok \in BOOLEAN, MigrateStatement(ok)
      PROVE  SchemaInv'
  BY <1>6, SchemaStatement
<1>7. ASSUME NEW readable \in BOOLEAN, NEW committed \in BOOLEAN,
             MigrateCheck(readable, committed)
      PROVE  SchemaInv'
  BY <1>7 DEF MigrateCheck, Rollback, SchemaInv
<1> QED BY <1>1, <1>2, <1>3, <1>4, <1>5, <1>6, <1>7 DEF BootStep

\* A crash leaves what is committed.
LEMMA SchemaCrash ==
    ASSUME SchemaInv, CrashProcess
    PROVE  SchemaInv'
  BY DEF CrashProcess, SchemaInv

\* No handler, stream or watch dog touches the schema.
LEMMA SchemaOthers ==
    ASSUME Next
    PROVE  BootStep \/ CrashProcess \/ UNCHANGED bootVars
<1>1. CASE BootStep
  BY <1>1
<1>2. CASE Crash
  BY <1>2 DEF Crash
<1>3. CASE \E a \in Accounts : RegAccount(a)
  BY <1>3 DEF RegAccount
<1>4. CASE \E f \in Files : Upload(f)
  BY <1>4 DEF Upload
<1>5. CASE \E s \in Sessions : NewSession(s) \/ ModifySessionTitle(s)
  BY <1>5 DEF NewSession, ModifySessionTitle
<1>6. CASE \E d \in Deleters, ids \in DelRequests : DelBegin(d, ids)
  BY <1>6 DEF DelBegin
<1>7. CASE \E d \in Deleters, ok \in BOOLEAN : DelRow(d, ok) \/ DelMessages(d, ok)
  BY <1>7 DEF DelRow, DelMessages
<1>8. CASE \E q \in Queries, s \in Sessions, ok \in BOOLEAN : QueryAsk(q, s, ok)
  BY <1>8 DEF QueryAsk
<1>9. CASE \E q \in Queries, ok \in BOOLEAN : QueryOnDone(q, ok)
  BY <1>9 DEF QueryOnDone
<1>10. CASE \E b \in Batches : OnPubMsg(b)
  BY <1>10 DEF OnPubMsg
<1>11. CASE \E ok \in BOOLEAN : OnPubItem(ok)
  BY <1>11 DEF OnPubItem
<1> QED
  BY <1>1, <1>2, <1>3, <1>4, <1>5, <1>6, <1>7, <1>8, <1>9, <1>10, <1>11 DEF Next

\* Every step keeps the invariant of the schema.
LEMMA SchemaStep ==
    ASSUME SchemaInv, [Next]_vars
    PROVE  SchemaInv'
<1>1. CASE BootStep
  BY <1>1, SchemaBoot
<1>2. CASE CrashProcess
  BY <1>2, SchemaCrash
<1>3. CASE UNCHANGED bootVars
  BY <1>3 DEF bootVars, SchemaInv
<1> QED BY <1>1, <1>2, <1>3, SchemaOthers DEF vars

\* A database that says it has version 1 has every table, whichever statement
\* of migrate failed, whatever begin and commit returned and whenever the
\* process died.
THEOREM SchemaIsComplete == Spec => []SchemaVersionMeansComplete
<1>1. SchemaInv /\ [Next]_vars => SchemaInv'
  BY SchemaStep
<1>2. SchemaInv => SchemaVersionMeansComplete
  BY DEF SchemaInv, SchemaVersionMeansComplete
<1> QED BY SchemaInit, <1>1, <1>2, PTL DEF Spec

-----------------------------------------------------------------------------
(* Types.                                                                   *)

BootType ==
    /\ conf \in DbConfs
    /\ boot \in {"down", "migrate", "statements", "check", "pools", "serving",
                 "corrupt"}
    /\ pools \in {NoPools, Loaded}
    /\ tx \in BOOLEAN /\ crashes \in 0..MaxCrashes

SessionType ==
    /\ title \in [Sessions -> {"unused", "old", "new", "deleted"}]
    /\ messages \subseteq Message
    /\ stage \in [Queries -> {"idle", "asked", "unasked", "over"}]
    /\ session \in [Queries -> Sessions \cup {NoSession}]
    /\ \A q \in Queries : stage[q] \in {"asked", "unasked"} => session[q] \in Sessions
    /\ todo \in [Deleters -> Seq(Sessions)]
    /\ \A d \in Deleters : Len(todo[d]) <= 2
    /\ half \in [Deleters -> BOOLEAN]
    /\ \A d \in Deleters : half[d] => todo[d] # <<>>
    /\ interrupted \subseteq Sessions

TableType ==
    /\ users \subseteq Accounts /\ files \subseteq Files /\ plugins \subseteq Plugins
    /\ batch \in Seq(Plugins \cup {"other"})
    /\ calls \in 0..MaxCalls

\* A call counts, within its bound.
LEMMA CallCounts ==
    ASSUME calls \in 0..MaxCalls, Called
    PROVE  calls' \in 0..MaxCalls
  BY MaxCallsAssumption DEF Called

\* What a DelSession may be asked for is a list of at most two sessions.
LEMMA DelRequestsType ==
    \A ids \in DelRequests : ids \in Seq(Sessions) /\ Len(ids) <= 2
<1> SUFFICES ASSUME NEW ids \in DelRequests
             PROVE  ids \in Seq(Sessions) /\ Len(ids) <= 2
  OBVIOUS
<1>1. CASE \E t \in Known : ids = <<t>>
  BY <1>1 DEF Known
<1>2. CASE ids \in Known \X Known
  <2>1. PICK a \in Known, b \in Known : ids = <<a, b>>
    BY <1>2
  <2> QED BY <2>1 DEF Known
<1> QED BY <1>1, <1>2 DEF DelRequests

\* Every step keeps the types of what the start of the process uses.
LEMMA BootTypeStep ==
    ASSUME BootType, [Next]_vars
    PROVE  BootType'
<1>1. CASE BootStep
  <2>1. conf' = conf /\ crashes' = crashes /\ (pools' = pools \/ pools' = Loaded)
    BY <1>1 DEF BootStep, Start, MigrateSkip, InitPools, UseNullPool, MigrateBegin,
       MigrateStatement, MigrateCheck
  <2>2. pools' \in {NoPools, Loaded'}
    BY <2>1 DEF BootType, Loaded
  <2>3. /\ boot' \in {"down", "migrate", "statements", "check", "pools", "serving",
                       "corrupt"}
        /\ tx' \in BOOLEAN
    BY <1>1 DEF BootStep, Start, MigrateSkip, InitPools, UseNullPool, MigrateBegin,
       MigrateStatement, MigrateCheck, Rollback, BootType
  <2> QED BY <2>1, <2>2, <2>3 DEF BootType, NoPools
<1>2. CASE CrashProcess
  <2>1. crashes' \in 0..MaxCrashes
    BY <1>2, BoundsAssumption DEF CrashProcess, BootType
  <2>2. conf' \in DbConfs /\ boot' = "down" /\ tx' = FALSE /\ pools' = NoPools
    BY <1>2 DEF CrashProcess, BootType
  <2> QED BY <2>1, <2>2 DEF BootType, NoPools
<1>3. CASE UNCHANGED bootVars
  BY <1>3 DEF bootVars, BootType, Loaded, NoPools
<1> QED BY <1>1, <1>2, <1>3, SchemaOthers DEF vars

-----------------------------------------------------------------------------
(* Sessions and their messages.                                             *)

\* The question of stream q in session s is stored.
HasQuestion(q, s) ==
    \E n \in messages : n.role = "user" /\ n.query = q /\ n.session = s

\* An id is never used for a second session, and a handler between its two
\* statements has deleted the session.
IdsAreOnce ==
    /\ \A d \in Deleters : half[d] => title[Head(todo[d])] = "deleted"
    /\ \A m \in messages : title[m.session] # "unused"
    /\ \A q \in Queries :
          stage[q] \in {"asked", "unasked"} => title[session[q]] # "unused"

\* As long as its session is there, a stream that goes on and an answer that
\* names a predecessor have their question, in the same session.
QuestionsStay ==
    /\ \A q \in Queries :
          stage[q] = "asked" /\ Exists(session[q]) => HasQuestion(q, session[q])
    /\ \A m \in messages :
          m.linked /\ Exists(m.session) => HasQuestion(m.query, m.session)

SessionInv == SessionType /\ IdsAreOnce /\ QuestionsStay /\ OrphansHaveCause

\* The head of a list of sessions that is not empty is a session.
LEMMA HeadIsSession ==
    ASSUME SessionType, NEW d \in Deleters, todo[d] # <<>>
    PROVE  Head(todo[d]) \in Sessions /\ Tail(todo[d]) \in Seq(Sessions)
           /\ Len(Tail(todo[d])) <= 2
  BY DEF SessionType

\* Steps that leave the sessions alone.
LEMMA SessionFrame ==
    ASSUME SessionInv, UNCHANGED sessionVars
    PROVE  SessionInv'
  BY DEF SessionInv, sessionVars, SessionType, IdsAreOnce, QuestionsStay,
         OrphansHaveCause, Exists, HasQuestion, Message

\* NewSession takes an id that no message has.
LEMMA SessionNew ==
    ASSUME SessionInv, NEW s \in Sessions, NewSession(s)
    PROVE  SessionInv'
<1> USE DEF SessionInv
<1>1. /\ title[s] = "unused" /\ title' = [title EXCEPT ![s] = "old"]
      /\ UNCHANGED <<messages, stage, session, todo, half, interrupted>>
  BY DEF NewSession
<1>2. SessionType'
  BY <1>1 DEF SessionType, Message
<1>3. \A t \in Sessions : t # s => title'[t] = title[t]
  BY <1>1 DEF SessionType
<1>4. IdsAreOnce'
  <2>1. \A d \in Deleters : half[d] => Head(todo[d]) \in Sessions
    BY HeadIsSession DEF SessionType
  <2>2. \A m \in messages : m.session \in Sessions
    BY DEF SessionType, Message
  <2>3. title'[s] = "old"
    BY <1>1 DEF SessionType
  <2> QED BY <1>1, <1>3, <2>1, <2>2, <2>3 DEF IdsAreOnce, SessionType
<1>5. QuestionsStay'
  <2>1. \A m \in messages : m.session \in Sessions /\ m.session # s
    BY <1>1 DEF IdsAreOnce, SessionType, Message
  <2>2. \A q \in Queries : stage[q] = "asked" => session[q] \in Sessions /\ session[q] # s
    BY <1>1 DEF IdsAreOnce, SessionType
  <2> QED BY <1>1, <1>3, <2>1, <2>2 DEF QuestionsStay, Exists, HasQuestion
<1>6. OrphansHaveCause'
  <2>1. \A m \in messages : m.session \in Sessions /\ m.session # s
    BY <1>1 DEF IdsAreOnce, SessionType, Message
  <2> QED BY <1>1, <1>3, <2>1 DEF OrphansHaveCause
<1> QED BY <1>2, <1>4, <1>5, <1>6

\* ModifySessionTitle changes one session that is there into another.
LEMMA SessionModify ==
    ASSUME SessionInv, NEW s \in Sessions, ModifySessionTitle(s)
    PROVE  SessionInv'
<1> USE DEF SessionInv
<1>1. /\ Exists(s) /\ title' = [title EXCEPT ![s] = "new"]
      /\ UNCHANGED <<messages, stage, session, todo, half, interrupted>>
  BY DEF ModifySessionTitle
<1>2. SessionType'
  BY <1>1 DEF SessionType, Message
<1>3. \A t \in Sessions : /\ title'[t] = "deleted" <=> title[t] = "deleted"
                          /\ title'[t] = "unused" <=> title[t] = "unused"
                          /\ Exists(t)' <=> Exists(t)
  BY <1>1 DEF SessionType, Exists
<1>4. /\ \A m \in messages : m.session \in Sessions
      /\ \A d \in Deleters : half[d] => Head(todo[d]) \in Sessions
      /\ \A q \in Queries :
            stage[q] \in {"asked", "unasked"} => session[q] \in Sessions
  BY HeadIsSession DEF SessionType, Message
<1>5. IdsAreOnce'
  BY <1>1, <1>3, <1>4 DEF IdsAreOnce
<1>6. QuestionsStay'
  BY <1>1, <1>3, <1>4 DEF QuestionsStay, HasQuestion
<1>7. OrphansHaveCause'
  BY <1>1, <1>3, <1>4 DEF OrphansHaveCause
<1> QED BY <1>2, <1>5, <1>6, <1>7

\* A DelSession that begins is not between its statements.
LEMMA SessionDelBegin ==
    ASSUME SessionInv, NEW d \in Deleters, NEW ids \in DelRequests, DelBegin(d, ids)
    PROVE  SessionInv'
<1> USE DEF SessionInv
<1>1. /\ todo[d] = <<>> /\ todo' = [todo EXCEPT ![d] = ids]
      /\ UNCHANGED <<title, messages, stage, session, half, interrupted>>
  BY DEF DelBegin
<1>2. ids \in Seq(Sessions) /\ Len(ids) <= 2
  BY DelRequestsType
<1>3. ~half[d] /\ \A e \in Deleters \ {d} : todo'[e] = todo[e]
  BY <1>1 DEF SessionType
<1>4. SessionType'
  BY <1>1, <1>2, <1>3 DEF SessionType, Message
<1>5. IdsAreOnce'
  BY <1>1, <1>3 DEF IdsAreOnce
<1>6. QuestionsStay'
  BY <1>1 DEF QuestionsStay, Exists, HasQuestion
<1>7. OrphansHaveCause'
  BY <1>1, <1>3 DEF OrphansHaveCause
<1> QED BY <1>4, <1>5, <1>6, <1>7

\* The first statement: the messages of the session have their cause in d.
LEMMA SessionDelRow ==
    ASSUME SessionInv, NEW d \in Deleters, NEW ok \in BOOLEAN, DelRow(d, ok)
    PROVE  SessionInv'
<1> USE DEF SessionInv
<1> DEFINE s == Head(todo[d])
<1>0. todo[d] # <<>> /\ half[d] = FALSE /\ s \in Sessions
  BY HeadIsSession DEF DelRow, SessionType
<1>1. CASE ok
  <2>1. /\ title' = [title EXCEPT ![s] = "deleted"]
        /\ half' = [half EXCEPT ![d] = TRUE]
        /\ UNCHANGED <<messages, stage, session, todo, interrupted>>
    BY <1>1 DEF DelRow
  <2>2. SessionType'
    BY <1>0, <2>1 DEF SessionType, Message
  <2>3. \A t \in Sessions : /\ title'[t] = IF t = s THEN "deleted" ELSE title[t]
                            /\ Exists(t)' => Exists(t)
    BY <2>1 DEF SessionType, Exists
  <2>4. /\ \A m \in messages : m.session \in Sessions
        /\ \A e \in Deleters : half[e] => Head(todo[e]) \in Sessions
        /\ \A q \in Queries :
            stage[q] \in {"asked", "unasked"} => session[q] \in Sessions
    BY HeadIsSession DEF SessionType, Message
  <2>5. /\ half'[d] = TRUE
        /\ \A e \in Deleters : e # d => half'[e] = half[e]
    BY <2>1 DEF SessionType
  <2>6. IdsAreOnce'
    BY <1>0, <2>1, <2>3, <2>4, <2>5 DEF IdsAreOnce
  <2>7. QuestionsStay'
    BY <2>1, <2>3, <2>4 DEF QuestionsStay, HasQuestion
  <2>8. OrphansHaveCause'
    BY <1>0, <2>1, <2>3, <2>4, <2>5 DEF OrphansHaveCause
  <2> QED BY <2>2, <2>6, <2>7, <2>8
<1>2. CASE ~ok
  <2>1. /\ todo' = [todo EXCEPT ![d] = <<>>] /\ half' = [half EXCEPT ![d] = FALSE]
        /\ UNCHANGED <<title, messages, stage, session, interrupted>>
    BY <1>2 DEF DelRow, DelReturns
  <2>2. half' = half /\ \A e \in Deleters : e # d => todo'[e] = todo[e]
    BY <1>0, <2>1 DEF SessionType
  <2>3. SessionType'
    BY <1>0, <2>1, <2>2 DEF SessionType, Message
  <2>4. IdsAreOnce'
    BY <1>0, <2>1, <2>2 DEF IdsAreOnce
  <2>5. QuestionsStay'
    BY <2>1 DEF QuestionsStay, Exists, HasQuestion
  <2>6. OrphansHaveCause'
    BY <1>0, <2>1, <2>2 DEF OrphansHaveCause
  <2> QED BY <2>3, <2>4, <2>5, <2>6
<1> QED BY <1>1, <1>2

\* The second statement: the messages of a deleted session go, or the id is
\* remembered as interrupted.
LEMMA SessionDelMessages ==
    ASSUME SessionInv, NEW d \in Deleters, NEW ok \in BOOLEAN, DelMessages(d, ok)
    PROVE  SessionInv'
<1> USE DEF SessionInv
<1> DEFINE s == Head(todo[d])
<1>0. /\ half[d] /\ todo[d] # <<>> /\ s \in Sessions /\ title[s] = "deleted"
      /\ Tail(todo[d]) \in Seq(Sessions) /\ Len(Tail(todo[d])) <= 2
  BY HeadIsSession DEF DelMessages, SessionType, IdsAreOnce
<1>1. /\ UNCHANGED <<title, stage, session>> /\ half' = [half EXCEPT ![d] = FALSE]
  BY DEF DelMessages, DelReturns
<1>2. half'[d] = FALSE /\ \A e \in Deleters : e # d => half'[e] = half[e]
  BY <1>1 DEF SessionType
<1>3. CASE ok
  <2>1. /\ messages' = {m \in messages : m.session # s}
        /\ todo' = [todo EXCEPT ![d] = Tail(todo[d])]
        /\ interrupted' = interrupted \ {s}
    BY <1>3 DEF DelMessages
  <2>2. \A e \in Deleters : e # d => todo'[e] = todo[e]
    BY <2>1 DEF SessionType
  <2>3. SessionType'
    BY <1>0, <1>1, <1>2, <2>1, <2>2 DEF SessionType, Message
  <2>4. IdsAreOnce'
    BY <1>1, <1>2, <2>1, <2>2 DEF IdsAreOnce
  <2>5. QuestionsStay'
    BY <1>0, <1>1, <2>1 DEF QuestionsStay, Exists, HasQuestion
  <2>6. OrphansHaveCause'
    BY <1>1, <1>2, <2>1, <2>2 DEF OrphansHaveCause
  <2> QED BY <2>3, <2>4, <2>5, <2>6
<1>4. CASE ~ok
  <2>1. /\ todo' = [todo EXCEPT ![d] = <<>>]
        /\ interrupted' = interrupted \cup {s} /\ UNCHANGED messages
    BY <1>4 DEF DelMessages, DelReturns
  <2>2. \A e \in Deleters : e # d => todo'[e] = todo[e]
    BY <2>1 DEF SessionType
  <2>3. SessionType'
    BY <1>0, <1>1, <1>2, <2>1, <2>2 DEF SessionType, Message
  <2>4. IdsAreOnce'
    BY <1>1, <1>2, <2>1, <2>2 DEF IdsAreOnce
  <2>5. QuestionsStay'
    BY <1>1, <2>1 DEF QuestionsStay, Exists, HasQuestion
  <2>6. OrphansHaveCause'
    BY <1>1, <1>2, <2>1, <2>2 DEF OrphansHaveCause
  <2> QED BY <2>3, <2>4, <2>5, <2>6
<1> QED BY <1>3, <1>4

\* The question is in its session, or the stream is not asked.
LEMMA SessionAsk ==
    ASSUME SessionInv, NEW q \in Queries, NEW s \in Sessions, NEW ok \in BOOLEAN,
           QueryAsk(q, s, ok)
    PROVE  SessionInv'
<1> USE DEF SessionInv
<1> DEFINE row == Row(q, s, "user", FALSE)
<1>1. /\ stage[q] = "idle" /\ title[s] # "unused"
      /\ session' = [session EXCEPT ![q] = s]
      /\ stage' = [stage EXCEPT ![q] = IF ok THEN "asked" ELSE "unasked"]
      /\ messages' = IF ok THEN messages \cup {row} ELSE messages
      /\ UNCHANGED <<title, todo, half, interrupted>>
  BY DEF QueryAsk, Known
<1>2. /\ row \in Message /\ row.session = s /\ row.query = q /\ row.role = "user"
      /\ row.linked = FALSE /\ (~row.late => Exists(s))
  BY DEF Row, Message
<1>3. /\ session'[q] = s /\ (ok => row \in messages')
      /\ stage'[q] = IF ok THEN "asked" ELSE "unasked"
      /\ \A r \in Queries : r # q => session'[r] = session[r] /\ stage'[r] = stage[r]
  BY <1>1 DEF SessionType
<1>4. SessionType'
  BY <1>1, <1>2, <1>3 DEF SessionType
<1>5. IdsAreOnce'
  BY <1>1, <1>2, <1>3 DEF IdsAreOnce
<1>6. messages \subseteq messages' /\ \A m \in messages' : m = row \/ m \in messages
  BY <1>1
<1>7. QuestionsStay'
  <2>1. \A r \in Queries : stage'[r] = "asked" /\ Exists(session'[r])
          => \E n \in messages' :
                n.role = "user" /\ n.query = r /\ n.session = session'[r]
    <3> SUFFICES ASSUME NEW r \in Queries, stage'[r] = "asked", Exists(session'[r])
                 PROVE  \E n \in messages' :
                          n.role = "user" /\ n.query = r /\ n.session = session'[r]
      OBVIOUS
    <3>1. CASE r = q
      <4>1. row \in messages'
        BY <1>3, <3>1
      <4> QED BY <1>2, <1>3, <3>1, <4>1
    <3>2. CASE r # q
      <4>1. session'[r] = session[r] /\ HasQuestion(r, session[r])
        BY <1>3, <3>2 DEF QuestionsStay
      <4> QED BY <1>6, <4>1 DEF HasQuestion
    <3> QED BY <3>1, <3>2
  <2>2. \A m \in messages' : m.linked /\ Exists(m.session)
          => \E n \in messages' :
                n.role = "user" /\ n.query = m.query /\ n.session = m.session
    <3> SUFFICES ASSUME NEW m \in messages', m.linked, Exists(m.session)
                 PROVE  \E n \in messages' :
                          n.role = "user" /\ n.query = m.query /\ n.session = m.session
      OBVIOUS
    <3>1. m \in messages
      BY <1>2, <1>6
    <3>2. HasQuestion(m.query, m.session)
      BY <3>1 DEF QuestionsStay
    <3> QED BY <1>6, <3>2 DEF HasQuestion
  <2> QED BY <1>1, <2>1, <2>2 DEF QuestionsStay, Exists, HasQuestion
<1>8. OrphansHaveCause'
  BY <1>1, <1>2, <1>6 DEF OrphansHaveCause, Exists
<1> QED BY <1>4, <1>5, <1>7, <1>8

\* The answer is linked only if the question was stored.
LEMMA SessionOnDone ==
    ASSUME SessionInv, NEW q \in Queries, NEW ok \in BOOLEAN, QueryOnDone(q, ok)
    PROVE  SessionInv'
<1> USE DEF SessionInv
<1> DEFINE row == Row(q, session[q], "assistant", stage[q] = "asked")
<1>1. /\ stage[q] \in {"asked", "unasked"} /\ session[q] \in Sessions
      /\ stage' = [stage EXCEPT ![q] = "over"]
      /\ messages' = IF ok THEN messages \cup {row} ELSE messages
      /\ UNCHANGED <<title, session, todo, half, interrupted>>
  BY DEF QueryOnDone, SessionType
<1>2. /\ row \in Message /\ row.session = session[q] /\ row.query = q
      /\ (row.linked => stage[q] = "asked") /\ (~row.late => Exists(session[q]))
  BY <1>1 DEF Row, Message
<1>3. /\ stage'[q] = "over"
      /\ \A r \in Queries : r # q => stage'[r] = stage[r]
  BY <1>1 DEF SessionType
<1>4. SessionType'
  BY <1>1, <1>2, <1>3 DEF SessionType
<1>5. messages \subseteq messages' /\ \A m \in messages' : m = row \/ m \in messages
  BY <1>1
<1>6. IdsAreOnce'
  BY <1>1, <1>2, <1>3, <1>5 DEF IdsAreOnce
<1>7. QuestionsStay'
  <2>1. \A r \in Queries : stage'[r] = "asked" /\ Exists(session[r])
          => \E n \in messages' :
                n.role = "user" /\ n.query = r /\ n.session = session[r]
    BY <1>3, <1>5 DEF QuestionsStay, HasQuestion
  <2>2. \A m \in messages' : m.linked /\ Exists(m.session)
          => \E n \in messages' :
                n.role = "user" /\ n.query = m.query /\ n.session = m.session
    BY <1>2, <1>5 DEF QuestionsStay, HasQuestion
  <2> QED BY <1>1, <2>1, <2>2 DEF QuestionsStay, Exists, HasQuestion
<1>8. OrphansHaveCause'
  BY <1>1, <1>2, <1>5 DEF OrphansHaveCause, Exists
<1> QED BY <1>4, <1>6, <1>7, <1>8

\* A crash remembers every DelSession that it has cut off.
LEMMA SessionCrash ==
    ASSUME SessionInv, Crash
    PROVE  SessionInv'
<1> USE DEF SessionInv
<1>1. /\ interrupted' = interrupted
                        \cup {Head(todo[d]) : d \in {e \in Deleters : half[e]}}
      /\ todo' = [d \in Deleters |-> <<>>] /\ half' = [d \in Deleters |-> FALSE]
      /\ stage' = [q \in Queries |-> IF stage[q] = "idle" THEN "idle" ELSE "over"]
      /\ UNCHANGED <<title, messages, session>>
  BY DEF Crash
<1>2. \A d \in Deleters : half[d] => Head(todo[d]) \in Sessions
  BY HeadIsSession DEF SessionType
<1>3. SessionType'
  BY <1>1, <1>2 DEF SessionType, Message
<1>4. IdsAreOnce'
  BY <1>1 DEF IdsAreOnce
<1>5. QuestionsStay'
  BY <1>1 DEF QuestionsStay, Exists, HasQuestion
<1>6. OrphansHaveCause'
  BY <1>1 DEF OrphansHaveCause
<1> QED BY <1>3, <1>4, <1>5, <1>6

-----------------------------------------------------------------------------
(* The theorems about the whole specification.                              *)

\* The sessions before the first start: none.
LEMMA SessionInit == Init => SessionInv /\ TableType /\ BootType
<1> SUFFICES ASSUME Init PROVE SessionInv /\ TableType /\ BootType
  OBVIOUS
<1>1. SessionType
  BY DEF Init, SessionType
<1>2. IdsAreOnce /\ QuestionsStay /\ OrphansHaveCause
  BY DEF Init, IdsAreOnce, QuestionsStay, OrphansHaveCause
<1>3. TableType
  BY MaxCallsAssumption DEF Init, TableType
<1>4. BootType
  <2>1. /\ conf \in DbConfs /\ boot = "down" /\ tx = FALSE /\ crashes = 0
        /\ pools = NoPools
    BY DEF Init, BootInit
  <2>2. crashes \in 0..MaxCrashes
    BY <2>1, BoundsAssumption
  <2> QED BY <2>1, <2>2 DEF BootType
<1> QED BY <1>1, <1>2, <1>3, <1>4 DEF SessionInv

\* Every step keeps the invariant of the sessions, one case for each action.
LEMMA SessionStep ==
    ASSUME SessionInv, [Next]_vars
    PROVE  SessionInv'
<1>1. CASE UNCHANGED sessionVars
  BY <1>1, SessionFrame
<1>2. CASE \E a \in Accounts : RegAccount(a)
  BY <1>1, <1>2 DEF RegAccount
<1>3. CASE \E f \in Files : Upload(f)
  BY <1>1, <1>3 DEF Upload
<1>4. CASE \E s \in Sessions : NewSession(s) \/ ModifySessionTitle(s)
  BY <1>4, SessionNew, SessionModify
<1>5. CASE \E d \in Deleters, ids \in DelRequests : DelBegin(d, ids)
  BY <1>5, SessionDelBegin
<1>6. CASE \E d \in Deleters, ok \in BOOLEAN : DelRow(d, ok) \/ DelMessages(d, ok)
  BY <1>6, SessionDelRow, SessionDelMessages
<1>7. CASE \E q \in Queries, s \in Sessions, ok \in BOOLEAN : QueryAsk(q, s, ok)
  BY <1>7, SessionAsk
<1>8. CASE \E q \in Queries, ok \in BOOLEAN : QueryOnDone(q, ok)
  BY <1>8, SessionOnDone
<1>9. CASE \E b \in Batches : OnPubMsg(b)
  BY <1>1, <1>9 DEF OnPubMsg
<1>10. CASE \E ok \in BOOLEAN : OnPubItem(ok)
  BY <1>1, <1>10 DEF OnPubItem
<1>11. CASE Crash
  BY <1>11, SessionCrash
<1>12. CASE BootStep /\ UNCHANGED <<sessionVars, tableVars, calls>>
  BY <1>1, <1>12
<1>13. CASE UNCHANGED vars
  BY <1>1, <1>13 DEF vars
<1> QED
  BY <1>2, <1>3, <1>4, <1>5, <1>6, <1>7, <1>8, <1>9, <1>10, <1>11, <1>12, <1>13
     DEF Next

\* Every step keeps the types of the other tables.
LEMMA TableStep ==
    ASSUME TableType, [Next]_vars
    PROVE  TableType'
<1>1. CASE UNCHANGED <<tableVars, calls>>
  BY <1>1 DEF tableVars, TableType
<1>2. CASE UNCHANGED tableVars /\ Called
  BY <1>2, CallCounts DEF tableVars, TableType
<1>3. CASE \E a \in Accounts : RegAccount(a)
  BY <1>3, CallCounts DEF RegAccount, TableType
<1>4. CASE \E f \in Files : Upload(f)
  BY <1>4, CallCounts DEF Upload, TableType
<1>5. CASE \E s \in Sessions : NewSession(s) \/ ModifySessionTitle(s)
  BY <1>2, <1>5 DEF NewSession, ModifySessionTitle
<1>6. CASE \E d \in Deleters, ids \in DelRequests : DelBegin(d, ids)
  BY <1>2, <1>6 DEF DelBegin
<1>7. CASE \E d \in Deleters, ok \in BOOLEAN : DelRow(d, ok) \/ DelMessages(d, ok)
  BY <1>1, <1>7 DEF DelRow, DelMessages
<1>8. CASE \E q \in Queries, s \in Sessions, ok \in BOOLEAN : QueryAsk(q, s, ok)
  BY <1>2, <1>8 DEF QueryAsk
<1>9. CASE \E q \in Queries, ok \in BOOLEAN : QueryOnDone(q, ok)
  BY <1>1, <1>9 DEF QueryOnDone
<1>10. CASE \E b \in Batches : OnPubMsg(b)
  BY <1>10, CallCounts, BatchesAssumption DEF OnPubMsg, TableType
<1>11. CASE \E ok \in BOOLEAN : OnPubItem(ok)
  <2>1. /\ Head(batch) \in Plugins \cup {"other"}
        /\ Tail(batch) \in Seq(Plugins \cup {"other"})
    BY <1>11 DEF OnPubItem, TableType
  <2>2. UNCHANGED <<users, files, calls>>
    BY <1>11 DEF OnPubItem
  <2>3. CASE UNCHANGED plugins /\ batch' = Tail(batch)
    BY <2>1, <2>2, <2>3 DEF TableType
  <2>4. CASE UNCHANGED plugins /\ batch' = <<>>
    BY <2>2, <2>4 DEF TableType
  <2>5. CASE /\ Head(batch) # "other" /\ plugins' = plugins \cup {Head(batch)}
             /\ batch' = Tail(batch)
    BY <2>1, <2>2, <2>5 DEF TableType
  <2> QED BY <1>11, <2>3, <2>4, <2>5 DEF OnPubItem
<1>12. CASE Crash
  BY <1>12 DEF Crash, TableType
<1>13. CASE BootStep /\ UNCHANGED <<sessionVars, tableVars, calls>>
  BY <1>1, <1>13
<1>14. CASE UNCHANGED vars
  BY <1>1, <1>14 DEF vars
<1> QED
  BY <1>3, <1>4, <1>5, <1>6, <1>7, <1>8, <1>9, <1>10, <1>11, <1>12, <1>13, <1>14
     DEF Next

\* Type correctness of the store: a DelSession never has more than two ids to
\* do, a handler between its statements has one, and the schema only grows to
\* what the script of core.sql makes.
THEOREM StoreTypeCorrect == Spec => []TypeOK
<1>1. SchemaInv /\ BootType /\ SessionInv /\ TableType => TypeOK
  BY ScriptOrder
     DEF SchemaInv, BootType, SessionInv, SessionType, TableType, TypeOK
<1>2. SchemaInv /\ [Next]_vars => SchemaInv'
  BY SchemaStep
<1>3. BootType /\ [Next]_vars => BootType'
  BY BootTypeStep
<1>4. SessionInv /\ [Next]_vars => SessionInv'
  BY SessionStep
<1>5. TableType /\ [Next]_vars => TableType'
  BY TableStep
<1> QED BY SchemaInit, SessionInit, <1>1, <1>2, <1>3, <1>4, <1>5, PTL DEF Spec

\* A message that was stored while its session was there outlives it only if
\* a DelSession is, or has ended, between its two statements: for any number
\* of DelSessions and Queries of any sessions, failures and crashes.
THEOREM OrphansAreExplained == Spec => []OrphansHaveCause
<1>1. SessionInv => OrphansHaveCause
  BY DEF SessionInv
<1>2. SessionInv /\ [Next]_vars => SessionInv'
  BY SessionStep
<1> QED BY SessionInit, <1>1, <1>2, PTL DEF Spec

\* In a session that is there, an answer that names a predecessor follows a
\* question that is there, whatever failed and whatever was deleted meanwhile.
THEOREM ThreadsStayIntact == Spec => []ThreadIntact
<1>1. SessionInv => ThreadIntact
  BY DEF SessionInv, QuestionsStay, HasQuestion, ThreadIntact
<1>2. SessionInv /\ [Next]_vars => SessionInv'
  BY SessionStep
<1> QED BY SessionInit, <1>1, <1>2, PTL DEF Spec

\* Against any minimum, a version of three parts or more that updater::check
\* accepts is not older: parts of any size.
THEOREM VersionsAreOrdered == Spec => []AcceptedIsNotOlder
<1>1. ASSUME NEW min \in MinVersions, NEW v \in Versions, Len(v) >= 3, Accepts(min, v)
      PROVE  ~Older(v, min)
  <2>1. PICK n \in 1..4 : v \in [1..n -> Part]
    BY DEF Versions
  <2>2. DOMAIN v = 1..n /\ Len(v) = n
    BY <2>1
  <2>3. \A i \in 1..3 : min[i] \in Int /\ v[i] \in Int /\ min[i] <= v[i]
    <3> SUFFICES ASSUME NEW i \in 1..3
                 PROVE  min[i] \in Int /\ v[i] \in Int /\ min[i] <= v[i]
      OBVIOUS
    <3>1. i \in 1..n
      BY <2>2, <1>1
    <3>2. min[i] <= v[i]
      BY <1>1, <2>2, <3>1 DEF Accepts
    <3>3. min[i] \in Part /\ v[i] \in Part
      BY <2>1, <3>1 DEF MinVersions
    <3> QED BY <3>2, <3>3, BoundsAssumption DEF Part
  <2> QED BY <2>3 DEF Older
<1>2. AcceptedIsNotOlder
  BY <1>1 DEF AcceptedIsNotOlder, FullVersionsAreOrdered
<1> QED BY <1>2, PTL
=============================================================================
