------------------------- MODULE SqlTransactionProofs -------------------------
(***************************************************************************)
(* Proofs about SqlTransaction, for any connections, tasks, rows, refused  *)
(* statements, retry limits and lost connections: a transaction on which   *)
(* no connection was lost is all or nothing.                               *)
(***************************************************************************)
EXTENDS SqlTransaction, TLAPS

-----------------------------------------------------------------------------
(* The inductive invariant.                                                *)

Waiting(t) == t \in todo \/ \E i \in DOMAIN queue : queue[i] = t

\* A task that waits has one place and has done nothing yet.
Fresh ==
    /\ \A i, j \in DOMAIN queue : queue[i] = queue[j] => i = j
    /\ \A i \in DOMAIN queue : queue[i] \notin Direct
    /\ \A t \in Tasks : Waiting(t) =>
          /\ result[t] = "pending" /\ t \notin cleaned /\ t \notin lostIn
          /\ durable[t] = << >>
          /\ \A c \in Connections : task[c] # t

\* A task is executed by one connection, and is neither decided nor cleaned then.
Running ==
    /\ \A c \in Connections : task[c] = NoTask <=> pc[c] = "idle"
    /\ \A c \in Connections : pc[c] # "idle" =>
          result[task[c]] = "pending" /\ task[c] \notin cleaned
    /\ \A c, d \in Connections : task[c] # NoTask /\ task[c] = task[d] => c = d

\* Where ExecuteTransaction may have a transaction open, and what it has written in it.
OpenedAt(c) ==
    /\ c \in inTx => pc[c] \in {"stmt", "rollback", "commit"}
    /\ \A t \in Tasks : c \notin inTx \/ t # task[c] => written[c][t] = << >>
    /\ pc[c] = "stmt" => stmt[c] \in DOMAIN Rows[task[c]]

FirstStatements(t, n) == [k \in 1 .. n |-> <<t, k>>]

\* What an undisturbed execution has done by each place of ExecuteTransaction.
ProgressAt(c) ==
    pc[c] # "idle" /\ task[c] \notin lostIn =>
        /\ pc[c] = "stmt" =>
              c \in inTx /\ written[c][task[c]] = FirstStatements(task[c], stmt[c] - 1)
        /\ pc[c] = "commit" => c \in inTx /\ written[c][task[c]] = Appended(task[c])
        /\ pc[c] = "rollback" => code[c] # "ok"
        /\ durable[task[c]] = IF pc[c] = "returned" /\ code[c] = "ok"
                                THEN Appended(task[c]) ELSE << >>

Opened == \A c \in Connections : OpenedAt(c)
Progress == \A c \in Connections : ProgressAt(c)

Decided ==
    \A t \in Tasks \ lostIn :
        /\ result[t] = "done" => durable[t] = Appended(t)
        /\ result[t] = "failed" => durable[t] = << >>
        /\ result[t] = "pending" /\ (\A c \in Connections : task[c] # t) => durable[t] = << >>

\* TypeOK says of stmt only where it points while it is used.
Types == TypeOK /\ stmt \in [Connections -> Nat]

IInv == Types /\ Fresh /\ Running /\ Opened /\ Progress /\ Decided

-----------------------------------------------------------------------------
(* The statements of a task.                                               *)

LEMMA TaskRows ==
    ASSUME NEW t \in Tasks
    PROVE  /\ Rows[t] \in Seq(RowSet) /\ Len(Rows[t]) \in Nat
           /\ DOMAIN Rows[t] = 1 .. Len(Rows[t])
           /\ \A k \in DOMAIN Rows[t] : <<t, k>> \in AllStatements
<1>1. Rows[t] \in Seq(RowSet)
    BY ConstantsAssumption
<1>2. \A k \in DOMAIN Rows[t] : <<t, k>> \in AllStatements
    BY DEF AllStatements, Statements
<1>3. QED
    BY <1>1, <1>2

LEMMA NoneYet ==
    ASSUME NEW t
    PROVE  FirstStatements(t, 0) = << >>
BY DEF FirstStatements

LEMMA OneMore ==
    ASSUME NEW t \in Tasks, NEW n \in DOMAIN Rows[t]
    PROVE  /\ Append(FirstStatements(t, n - 1), <<t, n>>) = FirstStatements(t, n)
           /\ n = Len(Rows[t]) => FirstStatements(t, n) = Appended(t)
<1>1. n \in 1 .. Len(Rows[t]) /\ Len(Rows[t]) \in Nat /\ DOMAIN Rows[t] = 1 .. Len(Rows[t])
    BY TaskRows
<1>2. n - 1 \in Nat
    BY <1>1
<1> DEFINE s == FirstStatements(t, n - 1)
<1>3. s \in Seq({<<t, k>> : k \in Nat}) /\ Len(s) = n - 1
    BY <1>2 DEF FirstStatements
<1>4. Append(s, <<t, n>>) = FirstStatements(t, n)
    BY <1>1, <1>2, <1>3 DEF FirstStatements
<1>5. n = Len(Rows[t]) => FirstStatements(t, n) = Appended(t)
    BY <1>1 DEF FirstStatements, Appended
<1>6. QED
    BY <1>4, <1>5

LEMMA NothingBefore ==
    ASSUME NEW S, NEW s \in Seq(S)
    PROVE  << >> \o s = s /\ s \o << >> = s
OBVIOUS

-----------------------------------------------------------------------------
(* What a step of one connection leaves alone.                             *)

LEMMA Others ==
    ASSUME IInv, NEW c \in Connections,
           \A d \in Connections \ {c} :
              /\ pc'[d] = pc[d] /\ task'[d] = task[d] /\ stmt'[d] = stmt[d]
              /\ code'[d] = code[d] /\ written'[d] = written[d]
              /\ d \in inTx' <=> d \in inTx,
           \A t \in Tasks : t # task[c] => durable'[t] = durable[t],
           lostIn \subseteq lostIn'
    PROVE  \A d \in Connections \ {c} : OpenedAt(d)' /\ ProgressAt(d)'
<1>1. SUFFICES ASSUME NEW d \in Connections \ {c}
               PROVE  OpenedAt(d)' /\ ProgressAt(d)'
    OBVIOUS
<1>2. OpenedAt(d) /\ ProgressAt(d) /\ Running /\ TypeOK
    BY DEF IInv, Types, Opened, Progress
<1>3. OpenedAt(d)'
    BY <1>2 DEF OpenedAt
<1>4. ProgressAt(d)'
    <2>1. pc[d] # "idle" => task[d] \in Tasks /\ task[d] # task[c]
        BY <1>2 DEF Running, TypeOK
    <2>2. pc[d] # "idle" => durable'[task[d]] = durable[task[d]]
        BY <2>1
    <2>3. QED
        BY <1>2, <2>2 DEF ProgressAt
<1>5. QED
    BY <1>3, <1>4

\* A step inside ExecuteTransaction, or between two calls of it for the same task.
LEMMA Executing ==
    ASSUME IInv, NEW c \in Connections, pc[c] # "idle", pc'[c] # "idle",
           \A d \in Connections \ {c} : pc'[d] = pc[d],
           queue' = queue, todo' = todo, task' = task, cleaned' = cleaned, result' = result,
           \A t \in Tasks : t # task[c] => durable'[t] = durable[t],
           lostIn' = lostIn \/ lostIn' = lostIn \union {task[c]}
    PROVE  Fresh' /\ Running' /\ Decided'
<1>1. Fresh /\ Running /\ Decided /\ TypeOK
    BY DEF IInv, Types
<1>2. task[c] \in Tasks /\ result[task[c]] = "pending" /\ ~ Waiting(task[c])
    BY <1>1 DEF Running, Fresh, TypeOK
<1>3. \A t : Waiting(t)' <=> Waiting(t)
    BY DEF Waiting
<1>4. Fresh'
    BY <1>1, <1>2, <1>3 DEF Fresh
<1>5. Running'
    BY <1>1 DEF Running
<1>6. Decided'
    BY <1>1, <1>2 DEF Decided
<1>7. QED
    BY <1>4, <1>5, <1>6

LEMMA Assembled ==
    ASSUME NEW c \in Connections, Types', Fresh', Running', Decided',
           \A d \in Connections \ {c} : OpenedAt(d)' /\ ProgressAt(d)',
           OpenedAt(c)', ProgressAt(c)'
    PROVE  IInv'
BY DEF IInv, Opened, Progress

\* What IInv says of the connection that takes a step.
LEMMA AtConnection ==
    ASSUME IInv, NEW c \in Connections
    PROVE  /\ TypeOK /\ stmt \in [Connections -> Nat]
           /\ OpenedAt(c) /\ ProgressAt(c)
           /\ pc[c] # "idle" => task[c] \in Tasks
           /\ written[c] \in [Tasks -> Seq(AllStatements)]
BY DEF IInv, Types, Opened, Progress, Running, TypeOK

\* MakeDurable on a connection without a transaction.
LEMMA NothingToCommit ==
    ASSUME IInv, NEW c \in Connections, MakeDurable(c)
    PROVE  /\ \A t \in Tasks : t # task[c] => durable'[t] = durable[t]
           /\ c \notin inTx => durable' = durable
<1>1. /\ OpenedAt(c) /\ durable \in [Tasks -> Seq(AllStatements)]
      /\ durable' = [t \in Tasks |-> durable[t] \o written[c][t]]
    BY AtConnection DEF TypeOK, MakeDurable
<1>2. ASSUME NEW t \in Tasks, c \notin inTx \/ t # task[c]
      PROVE  durable'[t] = durable[t]
    <2>1. written[c][t] = << >> /\ durable[t] \in Seq(AllStatements)
        BY <1>1, <1>2 DEF OpenedAt
    <2>2. durable'[t] = durable[t] \o << >>
        BY <1>1, <2>1
    <2>3. QED
        BY <2>1, <2>2, NothingBefore
<1>3. QED
    BY <1>1, <1>2

-----------------------------------------------------------------------------
(* ExecuteTransaction.                                                     *)

LEMMA ReturnEmptyStep ==
    ASSUME IInv, NEW c \in Connections, ReturnEmpty(c)
    PROVE  IInv'
<1>1. TypeOK /\ stmt \in [Connections -> Nat] /\ OpenedAt(c) /\ ProgressAt(c)
    BY AtConnection
<1>2. /\ pc[c] = "begin" /\ pc' = [pc EXCEPT ![c] = "returned"]
      /\ code' = [code EXCEPT ![c] = "error"]
      /\ UNCHANGED <<queue, todo, task, tries, retrier, cleaned, result, stmt, inTx,
                     written, durable, losses, lostIn>>
    BY DEF ReturnEmpty, GoTo, clientVars, serverVars, lossVars
<1>3. /\ pc'[c] = "returned" /\ code'[c] = "error"
      /\ \A d \in Connections \ {c} : pc'[d] = pc[d] /\ code'[d] = code[d]
    BY <1>1, <1>2 DEF TypeOK
<1>4. Types'
    BY <1>1, <1>2, <1>3 DEF Types, TypeOK, Current
<1>5. Fresh' /\ Running' /\ Decided'
    BY <1>2, <1>3, Executing
<1>6. \A d \in Connections \ {c} : OpenedAt(d)' /\ ProgressAt(d)'
    BY <1>2, <1>3, Others
<1>7. OpenedAt(c)' /\ ProgressAt(c)'
    BY <1>1, <1>2, <1>3 DEF OpenedAt, ProgressAt
<1>8. QED
    BY <1>4, <1>5, <1>6, <1>7, Assembled

LEMMA BeginStep ==
    ASSUME IInv, NEW c \in Connections, Begin(c)
    PROVE  IInv'
<1>1. /\ TypeOK /\ stmt \in [Connections -> Nat] /\ OpenedAt(c) /\ ProgressAt(c)
    BY AtConnection
<1>2. /\ pc[c] = "begin" /\ Rows[task[c]] # << >> /\ pc' = [pc EXCEPT ![c] = "stmt"]
      /\ stmt' = [stmt EXCEPT ![c] = 1] /\ inTx' = inTx \union {c}
      /\ written' = [written EXCEPT ![c] = NothingWritten]
      /\ UNCHANGED <<queue, todo, task, tries, retrier, cleaned, result, code, losses, lostIn>>
    BY DEF Begin, MakeDurable, GoTo, clientVars, lossVars
<1>3. /\ pc'[c] = "stmt" /\ stmt'[c] = 1 /\ written'[c] = NothingWritten
      /\ \A d \in Connections \ {c} :
            pc'[d] = pc[d] /\ stmt'[d] = stmt[d] /\ written'[d] = written[d]
    BY <1>1, <1>2 DEF TypeOK
<1>4. durable' = durable
    BY <1>1, <1>2, NothingToCommit DEF Begin, OpenedAt
<1>5. task[c] \in Tasks /\ 1 \in DOMAIN Rows[task[c]]
    <2>1. task[c] \in Tasks
        BY <1>2, AtConnection
    <2>2. Rows[task[c]] \in Seq(RowSet)
        BY <2>1, TaskRows
    <2>3. QED
        BY <2>1, <2>2, <1>2
<1>6. Types'
    <2>1. stmt' \in [Connections -> Nat]
        BY <1>1, <1>2
    <2>2. written' \in [Connections -> [Tasks -> Seq(AllStatements)]]
        <3>1. NothingWritten \in [Tasks -> Seq(AllStatements)]
            BY DEF NothingWritten
        <3>2. QED
            BY <3>1, <1>1, <1>2 DEF TypeOK
    <2>3. \A d \in Connections : pc'[d] = "stmt" => Current(d)' \in AllStatements
        <3>1. <<task[c], 1>> \in AllStatements
            BY <1>5, TaskRows
        <3>2. QED
            BY <3>1, <1>1, <1>2, <1>3 DEF TypeOK, Current
    <2>4. QED
        BY <2>1, <2>2, <2>3, <1>1, <1>2, <1>4 DEF Types, TypeOK
<1>7. Fresh' /\ Running' /\ Decided'
    BY <1>2, <1>3, <1>4, Executing
<1>8. \A d \in Connections \ {c} : OpenedAt(d)' /\ ProgressAt(d)'
    BY <1>2, <1>3, <1>4, Others
<1>9. OpenedAt(c)' /\ ProgressAt(c)'
    <2>1. written'[c][task[c]] = FirstStatements(task[c], stmt'[c] - 1)
        BY <1>3, <1>5, NoneYet DEF NothingWritten
    <2>2. \A t \in Tasks : written'[c][t] = << >>
        BY <1>3 DEF NothingWritten
    <2>3. QED
        BY <2>1, <2>2, <1>1, <1>2, <1>3, <1>4, <1>5 DEF OpenedAt, ProgressAt
<1>10. QED
    BY <1>6, <1>7, <1>8, <1>9, Assembled

\* A statement that the server has executed.
LEMMA Written ==
    ASSUME IInv, NEW c \in Connections, pc[c] = "stmt", Write(c)
    PROVE  /\ written' \in [Connections -> [Tasks -> Seq(AllStatements)]]
           /\ durable' \in [Tasks -> Seq(AllStatements)]
           /\ inTx' = inTx
           /\ \A d \in Connections \ {c} : written'[d] = written[d]
           /\ \A t \in Tasks : t # task[c] =>
                 written'[c][t] = written[c][t] /\ durable'[t] = durable[t]
           /\ c \notin inTx => written' = written
           /\ c \in inTx =>
                 /\ durable' = durable
                 /\ written'[c][task[c]] = Append(written[c][task[c]], <<task[c], stmt[c]>>)
<1>1. /\ TypeOK /\ task[c] \in Tasks
    BY AtConnection
<1>2. Current(c) \in AllStatements /\ Current(c) = <<task[c], stmt[c]>>
    BY <1>1 DEF TypeOK, Current
<1>3. CASE c \in inTx
    <2>1. /\ written' = [written EXCEPT ![c][task[c]] = Append(@, Current(c))]
          /\ inTx' = inTx /\ durable' = durable
        BY <1>3 DEF Write
    <2>2. Append(written[c][task[c]], Current(c)) \in Seq(AllStatements)
        BY <1>1, <1>2 DEF TypeOK
    <2>3. QED
        BY <2>1, <2>2, <1>1, <1>2, <1>3 DEF TypeOK
<1>4. CASE c \notin inTx
    <2>1. /\ durable' = [durable EXCEPT ![task[c]] = Append(@, Current(c))]
          /\ inTx' = inTx /\ written' = written
        BY <1>4 DEF Write
    <2>2. Append(durable[task[c]], Current(c)) \in Seq(AllStatements)
        BY <1>1, <1>2 DEF TypeOK
    <2>3. QED
        BY <2>1, <2>2, <1>1, <1>4 DEF TypeOK
<1>5. QED
    BY <1>3, <1>4

LEMMA StatementSucceedsStep ==
    ASSUME IInv, NEW c \in Connections, StatementSucceeds(c)
    PROVE  IInv'
<1>1. /\ TypeOK /\ stmt \in [Connections -> Nat] /\ OpenedAt(c) /\ ProgressAt(c)
    BY AtConnection
<1>2. /\ pc[c] = "stmt" /\ Write(c)
      /\ \/ /\ stmt[c] = Len(Rows[task[c]]) /\ stmt' = stmt
            /\ pc' = [pc EXCEPT ![c] = "commit"]
         \/ /\ stmt[c] # Len(Rows[task[c]]) /\ stmt' = [stmt EXCEPT ![c] = @ + 1]
            /\ pc' = pc
      /\ UNCHANGED <<queue, todo, task, tries, retrier, cleaned, result, code, losses, lostIn>>
    BY DEF StatementSucceeds, GoTo, clientVars, lossVars
<1>3. /\ written' \in [Connections -> [Tasks -> Seq(AllStatements)]]
      /\ durable' \in [Tasks -> Seq(AllStatements)]
      /\ inTx' = inTx
      /\ \A d \in Connections \ {c} : written'[d] = written[d]
      /\ \A t \in Tasks : t # task[c] =>
            written'[c][t] = written[c][t] /\ durable'[t] = durable[t]
      /\ c \notin inTx => written' = written
      /\ c \in inTx =>
            /\ durable' = durable
            /\ written'[c][task[c]] = Append(written[c][task[c]], <<task[c], stmt[c]>>)
    BY <1>2, Written
<1>4. /\ task[c] \in Tasks /\ stmt[c] \in DOMAIN Rows[task[c]]
      /\ Len(Rows[task[c]]) \in Nat /\ DOMAIN Rows[task[c]] = 1 .. Len(Rows[task[c]])
    <2>1. task[c] \in Tasks /\ stmt[c] \in DOMAIN Rows[task[c]]
        BY <1>1, <1>2, AtConnection DEF OpenedAt
    <2>2. QED
        BY <2>1, TaskRows
<1>5. /\ \A d \in Connections \ {c} : pc'[d] = pc[d] /\ stmt'[d] = stmt[d]
      /\ stmt' \in [Connections -> Nat]
      /\ \/ pc'[c] = "commit" /\ stmt'[c] = stmt[c] /\ stmt[c] = Len(Rows[task[c]])
         \/ pc'[c] = "stmt" /\ stmt'[c] = stmt[c] + 1 /\ stmt'[c] \in DOMAIN Rows[task[c]]
    <2>1. CASE stmt[c] = Len(Rows[task[c]])
        BY <2>1, <1>1, <1>2 DEF TypeOK
    <2>2. CASE stmt[c] # Len(Rows[task[c]])
        <3>1. stmt[c] + 1 \in DOMAIN Rows[task[c]] /\ stmt[c] + 1 \in Nat
            BY <2>2, <1>4
        <3>2. stmt' = [stmt EXCEPT ![c] = stmt[c] + 1] /\ pc' = pc
            BY <2>2, <1>2
        <3>3. QED
            BY <3>1, <3>2, <1>1, <1>2
    <2>3. QED
        BY <2>1, <2>2
<1>6. Types'
    <2>1. \A d \in Connections : pc'[d] = "stmt" => Current(d)' \in AllStatements
        <3>1. pc'[c] = "stmt" => <<task[c], stmt'[c]>> \in AllStatements
            BY <1>4, <1>5, TaskRows
        <3>2. QED
            BY <3>1, <1>1, <1>2, <1>5 DEF TypeOK, Current
    <2>2. pc' \in [Connections -> {"idle", "begin", "stmt", "rollback", "commit", "returned"}]
        BY <1>1, <1>2 DEF TypeOK
    <2>3. QED
        BY <2>1, <2>2, <1>1, <1>2, <1>3, <1>5 DEF Types, TypeOK
<1>7. Fresh' /\ Running' /\ Decided'
    BY <1>2, <1>3, <1>5, Executing
<1>8. \A d \in Connections \ {c} : OpenedAt(d)' /\ ProgressAt(d)'
    BY <1>2, <1>3, <1>5, Others
<1>9. OpenedAt(c)'
    BY <1>1, <1>2, <1>3, <1>5 DEF OpenedAt
<1>10. ProgressAt(c)'
    <2>1. SUFFICES ASSUME task[c] \notin lostIn
                   PROVE  ProgressAt(c)'
        BY <1>2 DEF ProgressAt
    <2>2. /\ c \in inTx /\ durable[task[c]] = << >>
          /\ written[c][task[c]] = FirstStatements(task[c], stmt[c] - 1)
        BY <2>1, <1>1, <1>2 DEF ProgressAt
    <2>3. written'[c][task[c]] = FirstStatements(task[c], stmt[c])
        <3>1. Append(FirstStatements(task[c], stmt[c] - 1), <<task[c], stmt[c]>>)
                 = FirstStatements(task[c], stmt[c])
            BY <1>4, OneMore
        <3>2. QED
            BY <3>1, <2>2, <1>3
    <2>4. stmt[c] = Len(Rows[task[c]]) => FirstStatements(task[c], stmt[c]) = Appended(task[c])
        BY <1>4, OneMore
    <2>5. pc'[c] = "stmt" => stmt'[c] - 1 = stmt[c]
        BY <1>4, <1>5
    <2>6. QED
        BY <2>2, <2>3, <2>4, <2>5, <1>2, <1>3, <1>5 DEF ProgressAt
<1>11. QED
    BY <1>6, <1>7, <1>8, <1>9, <1>10, Assembled

\* A statement answered with an error, or ROLLBACK: nothing new is committed.
LEMMA ErrorStep ==
    ASSUME IInv, NEW c \in Connections,
           StatementDeadlocks(c) \/ StatementFails(c) \/ Rollback(c)
    PROVE  IInv'
<1>1. /\ TypeOK /\ stmt \in [Connections -> Nat] /\ OpenedAt(c) /\ ProgressAt(c)
    BY AtConnection
<1>2. /\ \/ /\ pc[c] = "stmt" /\ pc' = [pc EXCEPT ![c] = "rollback"]
            /\ \E e \in {"deadlock", "error"} : code' = [code EXCEPT ![c] = e]
         \/ /\ pc[c] = "rollback" /\ pc' = [pc EXCEPT ![c] = "returned"]
            /\ code' = code /\ c \notin inTx'
      /\ \/ inTx' = inTx /\ written' = written
         \/ inTx' = inTx \ {c} /\ written' = [written EXCEPT ![c] = NothingWritten]
      /\ UNCHANGED <<queue, todo, task, tries, retrier, cleaned, result, stmt, durable,
                     losses, lostIn>>
    BY DEF StatementDeadlocks, StatementFails, Rollback, RollbackOpen, GoTo, clientVars,
       serverVars, lossVars
<1>3. /\ pc'[c] \in {"rollback", "returned"}
      /\ pc'[c] = "returned" => c \notin inTx'
      /\ pc[c] = "stmt" => code'[c] # "ok"
      /\ pc[c] = "rollback" => code'[c] = code[c]
      /\ \A t \in Tasks : c \notin inTx' \/ t # task[c] => written'[c][t] = << >>
      /\ \A d \in Connections \ {c} :
            /\ pc'[d] = pc[d] /\ code'[d] = code[d] /\ written'[d] = written[d]
            /\ d \in inTx' <=> d \in inTx
    <2>1. \/ written'[c] = written[c] /\ inTx' = inTx
          \/ written'[c] = NothingWritten
        BY <1>1, <1>2 DEF TypeOK
    <2>2. \A t \in Tasks : c \notin inTx' \/ t # task[c] => written'[c][t] = << >>
        BY <2>1, <1>1 DEF OpenedAt, NothingWritten
    <2>3. QED
        BY <2>2, <1>1, <1>2 DEF TypeOK
<1>4. Types'
    <2>1. /\ written' \in [Connections -> [Tasks -> Seq(AllStatements)]]
          /\ inTx' \subseteq Connections
        <3>1. NothingWritten \in [Tasks -> Seq(AllStatements)]
            BY DEF NothingWritten
        <3>2. CASE inTx' = inTx /\ written' = written
            BY <3>2, <1>1 DEF TypeOK
        <3>3. CASE inTx' = inTx \ {c} /\ written' = [written EXCEPT ![c] = NothingWritten]
            BY <3>1, <3>3, <1>1 DEF TypeOK
        <3>4. QED
            BY <3>2, <3>3, <1>2
    <2>2. /\ pc' \in [Connections -> {"idle", "begin", "stmt", "rollback", "commit", "returned"}]
          /\ code' \in [Connections -> {"ok", "deadlock", "error"}]
        BY <1>1, <1>2 DEF TypeOK
    <2>3. \A d \in Connections : pc'[d] = "stmt" => Current(d)' \in AllStatements
        BY <1>1, <1>2, <1>3 DEF TypeOK, Current
    <2>4. QED
        BY <2>1, <2>2, <2>3, <1>1, <1>2 DEF Types, TypeOK
<1>5. Fresh' /\ Running' /\ Decided'
    BY <1>2, <1>3, Executing
<1>6. \A d \in Connections \ {c} : OpenedAt(d)' /\ ProgressAt(d)'
    BY <1>2, <1>3, Others
<1>7. OpenedAt(c)'
    <2>1. task' = task
        BY <1>2
    <2>2. QED
        BY <2>1, <1>3 DEF OpenedAt
<1>8. ProgressAt(c)'
    BY <1>1, <1>2, <1>3 DEF ProgressAt
<1>9. QED
    BY <1>4, <1>5, <1>6, <1>7, <1>8, Assembled

\* The server's side of COMMIT.
LEMMA Committed ==
    ASSUME IInv, NEW c \in Connections, CommitOpen(c)
    PROVE  /\ inTx' = inTx \ {c}
           /\ written' \in [Connections -> [Tasks -> Seq(AllStatements)]]
           /\ written'[c] = NothingWritten
           /\ \A d \in Connections \ {c} : written'[d] = written[d]
           /\ durable' \in [Tasks -> Seq(AllStatements)]
           /\ \A t \in Tasks : durable'[t] = durable[t] \o written[c][t]
           /\ \A t \in Tasks : t # task[c] => durable'[t] = durable[t]
<1>1. /\ TypeOK /\ written[c] \in [Tasks -> Seq(AllStatements)]
    BY AtConnection
<1>2. /\ inTx' = inTx \ {c} /\ MakeDurable(c)
      /\ written' = [written EXCEPT ![c] = NothingWritten]
      /\ durable' = [t \in Tasks |-> durable[t] \o written[c][t]]
    BY DEF CommitOpen, MakeDurable
<1>3. NothingWritten \in [Tasks -> Seq(AllStatements)]
    BY DEF NothingWritten
<1>4. \A t \in Tasks : durable[t] \o written[c][t] \in Seq(AllStatements)
    BY <1>1 DEF TypeOK
<1>5. durable' \in [Tasks -> Seq(AllStatements)]
    BY <1>2, <1>4
<1>6. QED
    BY <1>1, <1>2, <1>3, <1>5, NothingToCommit DEF TypeOK

LEMMA CommitStep ==
    ASSUME IInv, NEW c \in Connections, Commit(c)
    PROVE  IInv'
<1>1. /\ TypeOK /\ stmt \in [Connections -> Nat] /\ OpenedAt(c) /\ ProgressAt(c)
    BY AtConnection
<1>2. /\ pc[c] = "commit" /\ CommitOpen(c) /\ pc' = [pc EXCEPT ![c] = "returned"]
      /\ code' = [code EXCEPT ![c] = "ok"]
      /\ UNCHANGED <<queue, todo, task, tries, retrier, cleaned, result, stmt, losses, lostIn>>
    BY DEF Commit, GoTo, clientVars, lossVars
<1>3. /\ pc'[c] = "returned" /\ code'[c] = "ok"
      /\ \A d \in Connections \ {c} : pc'[d] = pc[d] /\ code'[d] = code[d]
      /\ task[c] \in Tasks
    BY <1>1, <1>2, AtConnection DEF TypeOK
<1>4. /\ inTx' = inTx \ {c}
      /\ written' \in [Connections -> [Tasks -> Seq(AllStatements)]]
      /\ written'[c] = NothingWritten
      /\ \A d \in Connections \ {c} : written'[d] = written[d]
      /\ durable' \in [Tasks -> Seq(AllStatements)]
      /\ \A t \in Tasks : durable'[t] = durable[t] \o written[c][t]
      /\ \A t \in Tasks : t # task[c] => durable'[t] = durable[t]
    BY <1>2, Committed
<1>5. Types'
    <2>1. \A d \in Connections : pc'[d] = "stmt" => Current(d)' \in AllStatements
        BY <1>1, <1>2, <1>3 DEF TypeOK, Current
    <2>2. QED
        BY <2>1, <1>1, <1>2, <1>4 DEF Types, TypeOK
<1>6. Fresh' /\ Running' /\ Decided'
    BY <1>2, <1>3, <1>4, Executing
<1>7. \A d \in Connections \ {c} : OpenedAt(d)' /\ ProgressAt(d)'
    BY <1>2, <1>3, <1>4, Others
<1>8. OpenedAt(c)'
    BY <1>3, <1>4 DEF OpenedAt, NothingWritten
<1>9. ProgressAt(c)'
    <2>1. SUFFICES ASSUME task[c] \notin lostIn
                   PROVE  durable'[task[c]] = Appended(task[c])
        BY <1>2, <1>3 DEF ProgressAt
    <2>2. durable[task[c]] = << >> /\ written[c][task[c]] = Appended(task[c])
        BY <2>1, <1>1, <1>2 DEF ProgressAt
    <2>3. written[c][task[c]] \in Seq(AllStatements)
        BY <1>3, AtConnection
    <2>4. << >> \o written[c][task[c]] = written[c][task[c]]
        BY <2>3, NothingBefore
    <2>5. QED
        BY <2>2, <2>4, <1>3, <1>4
<1>10. QED
    BY <1>5, <1>6, <1>7, <1>8, <1>9, Assembled

-----------------------------------------------------------------------------
(* TransactionTask::Execute and DirectCommitTransaction.                   *)

LEMMA Started ==
    ASSUME IInv, NEW c \in Connections, NEW t, Start(c, t), Waiting(t), ~ Waiting(t)',
           t \in Tasks, queue' \in Seq(Tasks), todo' \in SUBSET Direct,
           \A u : Waiting(u)' => Waiting(u),
           \A i, j \in DOMAIN queue' : queue'[i] = queue'[j] => i = j,
           \A i \in DOMAIN queue' : queue'[i] \notin Direct
    PROVE  IInv'
<1>1. /\ TypeOK /\ stmt \in [Connections -> Nat] /\ OpenedAt(c) /\ ProgressAt(c)
      /\ Fresh /\ Running /\ Decided
    BY AtConnection DEF IInv
<1>2. /\ pc[c] = "idle" /\ pc' = [pc EXCEPT ![c] = "begin"]
      /\ task' = [task EXCEPT ![c] = t] /\ tries' = [tries EXCEPT ![c] = 1]
      /\ UNCHANGED <<stmt, code, retrier, cleaned, result, inTx, written, durable, losses, lostIn>>
    BY DEF Start, GoTo, serverVars, lossVars
<1>3. /\ pc'[c] = "begin" /\ task'[c] = t
      /\ \A d \in Connections \ {c} : pc'[d] = pc[d] /\ task'[d] = task[d]
    BY <1>1, <1>2 DEF TypeOK
<1>4. /\ result[t] = "pending" /\ t \notin cleaned /\ t \notin lostIn /\ durable[t] = << >>
      /\ \A d \in Connections : task[d] # t
    BY <1>1 DEF Fresh
<1>5. NoTask \notin Tasks /\ t # NoTask
    BY ConstantsAssumption
<1>6. Types'
    <2>1. \A d \in Connections : pc'[d] = "stmt" => Current(d)' \in AllStatements
        BY <1>1, <1>2, <1>3 DEF TypeOK, Current
    <2>2. QED
        BY <2>1, <1>1, <1>2 DEF Types, TypeOK
<1>7. Fresh'
    <2>1. \A u \in Tasks : Waiting(u)' =>
             /\ result'[u] = "pending" /\ u \notin cleaned' /\ u \notin lostIn'
             /\ durable'[u] = << >>
             /\ \A d \in Connections : task'[d] # u
        BY <1>1, <1>2, <1>3 DEF Fresh
    <2>2. QED
        BY <2>1 DEF Fresh
<1>8. Running'
    BY <1>1, <1>2, <1>3, <1>4, <1>5 DEF Running
<1>9. Decided'
    <2>1. \A u \in Tasks : (\A d \in Connections : task'[d] # u)
                          => \A d \in Connections : task[d] # u
        <3>1. task[c] = NoTask
            BY <1>1, <1>2 DEF Running
        <3>2. ASSUME NEW u \in Tasks, NEW d \in Connections, task[d] = u
              PROVE  task'[d] = u
            BY <3>1, <3>2, <1>3, <1>5
        <3>3. QED
            BY <3>2
    <2>2. QED
        BY <2>1, <1>1, <1>2 DEF Decided
<1>10. \A d \in Connections \ {c} : OpenedAt(d)' /\ ProgressAt(d)'
    BY <1>2, <1>3, Others
<1>11. OpenedAt(c)' /\ ProgressAt(c)'
    BY <1>1, <1>2, <1>3, <1>4 DEF OpenedAt, ProgressAt
<1>12. QED
    BY <1>6, <1>7, <1>8, <1>9, <1>10, <1>11, Assembled

LEMMA StartTaskStep ==
    ASSUME IInv, NEW c \in Connections, StartTask(c)
    PROVE  IInv'
<1>1. queue \in Seq(Tasks) /\ todo \in SUBSET Direct /\ Fresh
    BY DEF IInv, Types, TypeOK
<1>2. PICK t : t = Head(queue)
    OBVIOUS
<1>3. queue # << >> /\ queue' = Tail(queue) /\ todo' = todo /\ Start(c, t)
    BY <1>2 DEF StartTask
<1>4. /\ t \in Tasks /\ 1 \in DOMAIN queue /\ queue[1] = t
      /\ queue' \in Seq(Tasks)
      /\ \A i \in DOMAIN queue' : i + 1 \in DOMAIN queue /\ queue'[i] = queue[i + 1]
                                  /\ i \in Nat \ {0}
    BY <1>1, <1>3, <1>2
<1>5. Waiting(t) /\ ~ Waiting(t)'
    <2>1. \A i \in DOMAIN queue' : queue'[i] # t
        BY <1>1, <1>4 DEF Fresh
    <2>2. t \notin Direct
        BY <1>1, <1>4 DEF Fresh
    <2>3. Waiting(t)
        BY <1>4 DEF Waiting
    <2>4. ~ Waiting(t)'
        BY <2>1, <2>2, <1>1, <1>3 DEF Waiting
    <2>5. QED
        BY <2>3, <2>4
<1>6. \A u : Waiting(u)' => Waiting(u)
    BY <1>3, <1>4 DEF Waiting
<1>7. \A i, j \in DOMAIN queue' : queue'[i] = queue'[j] => i = j
    <2>1. ASSUME NEW i \in DOMAIN queue', NEW j \in DOMAIN queue', queue'[i] = queue'[j]
          PROVE  i = j
        <3>1. i + 1 = j + 1
            BY <2>1, <1>1, <1>4 DEF Fresh
        <3>2. QED
            BY <3>1, <1>4
    <2>2. QED
        BY <2>1
<1>8. \A i \in DOMAIN queue' : queue'[i] \notin Direct
    BY <1>1, <1>4 DEF Fresh
<1>9. QED
    BY <1>1, <1>3, <1>4, <1>5, <1>6, <1>7, <1>8, Started

LEMMA StartDirectStep ==
    ASSUME IInv, NEW c \in Connections, NEW t \in Direct, StartDirect(c, t)
    PROVE  IInv'
<1>1. queue \in Seq(Tasks) /\ todo \in SUBSET Direct /\ Fresh
    BY DEF IInv, Types, TypeOK
<1>2. t \in todo /\ todo' = todo \ {t} /\ queue' = queue /\ Start(c, t)
    BY DEF StartDirect
<1>3. t \in Tasks
    BY DEF Tasks
<1>4. Waiting(t) /\ ~ Waiting(t)'
    BY <1>1, <1>2 DEF Fresh, Waiting
<1>5. \A u : Waiting(u)' => Waiting(u)
    BY <1>2 DEF Waiting
<1>6. QED
    BY <1>1, <1>2, <1>3, <1>4, <1>5, Started DEF Fresh

LEMMA FinishStep ==
    ASSUME IInv, NEW c \in Connections, pc[c] = "returned", Finish(c)
    PROVE  IInv'
<1>1. /\ TypeOK /\ stmt \in [Connections -> Nat] /\ OpenedAt(c) /\ ProgressAt(c)
      /\ Fresh /\ Running /\ Decided /\ task[c] \in Tasks
    BY AtConnection DEF IInv
<1>2. /\ result' = [result EXCEPT ![task[c]] = IF code[c] = "ok" THEN "done" ELSE "failed"]
      /\ cleaned' = (IF code[c] = "ok" THEN cleaned ELSE cleaned \union {task[c]})
      /\ retrier' = retrier \ {c}
      /\ pc' = [pc EXCEPT ![c] = "idle"] /\ task' = [task EXCEPT ![c] = NoTask]
      /\ stmt' = [stmt EXCEPT ![c] = 1] /\ code' = [code EXCEPT ![c] = "ok"]
      /\ tries' = [tries EXCEPT ![c] = 0]
      /\ UNCHANGED <<queue, todo, inTx, written, durable, losses, lostIn>>
    BY DEF Finish, GoTo, serverVars, lossVars
<1>3. /\ pc'[c] = "idle" /\ task'[c] = NoTask
      /\ \A d \in Connections \ {c} :
            pc'[d] = pc[d] /\ task'[d] = task[d] /\ stmt'[d] = stmt[d] /\ code'[d] = code[d]
      /\ result'[task[c]] = IF code[c] = "ok" THEN "done" ELSE "failed"
      /\ \A t \in Tasks : t # task[c] =>
            result'[t] = result[t] /\ (t \in cleaned' => t \in cleaned)
    BY <1>1, <1>2 DEF TypeOK
<1>4. ~ Waiting(task[c]) /\ \A t : Waiting(t)' <=> Waiting(t)
    BY <1>1, <1>2 DEF Fresh, Waiting
<1>5. NoTask \notin Tasks
    BY ConstantsAssumption
<1>6. Types'
    <2>1. \A d \in Connections : pc'[d] = "stmt" => Current(d)' \in AllStatements
        BY <1>1, <1>2, <1>3 DEF TypeOK, Current
    <2>2. /\ result' \in [Tasks -> {"pending", "done", "failed"}] /\ cleaned' \in SUBSET Tasks
          /\ stmt' \in [Connections -> Nat]
        BY <1>1, <1>2 DEF TypeOK
    <2>3. QED
        BY <2>1, <2>2, <1>1, <1>2 DEF Types, TypeOK
<1>7. Fresh'
    <2>1. ASSUME NEW t \in Tasks, Waiting(t)
          PROVE  /\ result'[t] = "pending" /\ t \notin cleaned' /\ t \notin lostIn'
                 /\ durable'[t] = << >>
                 /\ \A d \in Connections : task'[d] # t
        BY <2>1, <1>1, <1>2, <1>3, <1>4, <1>5 DEF Fresh
    <2>2. QED
        BY <2>1, <1>1, <1>2, <1>4 DEF Fresh
<1>8. Running'
    <2>1. ASSUME NEW d \in Connections \ {c}, pc[d] # "idle"
          PROVE  result'[task[d]] = "pending" /\ task[d] \notin cleaned'
        <3>1. task[d] \in Tasks /\ task[d] # task[c]
            BY <2>1, <1>1 DEF Running, TypeOK
        <3>2. QED
            BY <2>1, <3>1, <1>1, <1>3 DEF Running
    <2>2. QED
        BY <2>1, <1>1, <1>3 DEF Running
<1>9. Decided'
    BY <1>1, <1>2, <1>3 DEF Decided, ProgressAt
<1>10. \A d \in Connections \ {c} : OpenedAt(d)' /\ ProgressAt(d)'
    BY <1>2, <1>3, Others
<1>11. OpenedAt(c)' /\ ProgressAt(c)'
    BY <1>1, <1>2, <1>3 DEF OpenedAt, ProgressAt
<1>12. QED
    BY <1>6, <1>7, <1>8, <1>9, <1>10, <1>11, Assembled

LEMMA RetryStep ==
    ASSUME IInv, NEW c \in Connections,
           TakeDeadlockLock(c) \/ RetryTask(c) \/ RetryDirect(c)
    PROVE  IInv'
<1>1. /\ TypeOK /\ stmt \in [Connections -> Nat] /\ OpenedAt(c) /\ ProgressAt(c)
    BY AtConnection
<1>2. /\ pc[c] = "returned" /\ code[c] # "ok" /\ pc' = [pc EXCEPT ![c] = "begin"]
      /\ tries' = [tries EXCEPT ![c] = @ + 1]
      /\ retrier' = retrier \/ (c \in AsyncConnections /\ retrier' = {c})
      /\ UNCHANGED <<queue, todo, task, stmt, code, cleaned, result, inTx, written, durable,
                     losses, lostIn>>
    BY DEF TakeDeadlockLock, RetryTask, RetryDirect, Retries, GoTo, serverVars, lossVars
<1>3. pc'[c] = "begin" /\ \A d \in Connections \ {c} : pc'[d] = pc[d]
    BY <1>1, <1>2 DEF TypeOK
<1>4. Types'
    <2>1. \A d \in Connections : pc'[d] = "stmt" => Current(d)' \in AllStatements
        BY <1>1, <1>2, <1>3 DEF TypeOK, Current
    <2>2. tries' \in [Connections -> Nat] /\ retrier' \in SUBSET AsyncConnections
        BY <1>1, <1>2 DEF TypeOK
    <2>3. QED
        BY <2>1, <2>2, <1>1, <1>2 DEF Types, TypeOK
<1>5. Fresh' /\ Running' /\ Decided'
    BY <1>2, <1>3, Executing
<1>6. \A d \in Connections \ {c} : OpenedAt(d)' /\ ProgressAt(d)'
    BY <1>2, <1>3, Others
<1>7. OpenedAt(c)' /\ ProgressAt(c)'
    BY <1>1, <1>2, <1>3 DEF OpenedAt, ProgressAt
<1>8. QED
    BY <1>4, <1>5, <1>6, <1>7, Assembled

-----------------------------------------------------------------------------
(* Lost connections.                                                       *)

LEMMA LossStep ==
    ASSUME IInv, NEW c \in Connections, Lose(c),
           inTx' \subseteq inTx, \A d \in Connections \ {c} : d \in inTx' <=> d \in inTx,
           written' \in [Connections -> [Tasks -> Seq(AllStatements)]],
           \A d \in Connections \ {c} : written'[d] = written[d],
           \A t \in Tasks : c \notin inTx' \/ t # task[c] => written'[c][t] = << >>,
           durable' \in [Tasks -> Seq(AllStatements)],
           \A t \in Tasks : t # task[c] => durable'[t] = durable[t]
    PROVE  IInv'
<1>1. /\ TypeOK /\ stmt \in [Connections -> Nat] /\ OpenedAt(c) /\ ProgressAt(c)
    BY AtConnection
<1>2. /\ pc[c] # "idle" /\ losses < MaxLosses /\ losses' = losses + 1
      /\ lostIn' = lostIn \union {task[c]}
      /\ UNCHANGED <<queue, todo, task, tries, retrier, cleaned, result, pc, stmt, code>>
    BY DEF Lose, InCall, clientVars
<1>3. task[c] \in Tasks
    BY <1>2, AtConnection
<1>4. Types'
    <2>1. losses' \in 0 .. MaxLosses
        BY <1>1, <1>2, ConstantsAssumption DEF TypeOK
    <2>2. \A d \in Connections : pc'[d] = "stmt" => Current(d)' \in AllStatements
        BY <1>1, <1>2 DEF TypeOK, Current
    <2>3. inTx' \in SUBSET Connections /\ lostIn' \in SUBSET Tasks
        BY <1>1, <1>2, <1>3 DEF TypeOK
    <2>4. QED
        BY <2>1, <2>2, <2>3, <1>1, <1>2 DEF Types, TypeOK
<1>5. Fresh' /\ Running' /\ Decided'
    BY <1>2, Executing
<1>6. \A d \in Connections \ {c} : OpenedAt(d)' /\ ProgressAt(d)'
    BY <1>2, Others
<1>7. OpenedAt(c)'
    BY <1>1, <1>2 DEF OpenedAt
<1>8. ProgressAt(c)'
    BY <1>2 DEF ProgressAt
<1>9. QED
    BY <1>4, <1>5, <1>6, <1>7, <1>8, Assembled

LEMMA LoseStatementStep ==
    ASSUME IInv, NEW c \in Connections, LoseStatement(c)
    PROVE  IInv'
<1>1. TypeOK
    BY AtConnection
<1>2. /\ Lose(c) /\ inTx' = inTx \ {c} /\ durable' = durable
      /\ written' = [written EXCEPT ![c] = NothingWritten]
    BY DEF LoseStatement, RollbackOpen
<1>3. NothingWritten \in [Tasks -> Seq(AllStatements)]
    BY DEF NothingWritten
<1>4. /\ written' \in [Connections -> [Tasks -> Seq(AllStatements)]]
      /\ written'[c] = NothingWritten
      /\ \A d \in Connections \ {c} : written'[d] = written[d]
    BY <1>1, <1>2, <1>3 DEF TypeOK
<1>5. \A t \in Tasks : written'[c][t] = << >>
    BY <1>4 DEF NothingWritten
<1>6. durable' \in [Tasks -> Seq(AllStatements)]
    BY <1>1, <1>2 DEF TypeOK
<1>7. QED
    BY <1>2, <1>4, <1>5, <1>6, LossStep

LEMMA LoseAnswerStep ==
    ASSUME IInv, NEW c \in Connections, LoseAnswer(c)
    PROVE  IInv'
<1>1. TypeOK /\ OpenedAt(c) /\ Lose(c)
    BY AtConnection DEF LoseAnswer
<1>2. CASE CommitOpen(c)
    <2>1. /\ inTx' = inTx \ {c}
          /\ written' \in [Connections -> [Tasks -> Seq(AllStatements)]]
          /\ written'[c] = NothingWritten
          /\ \A d \in Connections \ {c} : written'[d] = written[d]
          /\ durable' \in [Tasks -> Seq(AllStatements)]
          /\ \A t \in Tasks : t # task[c] => durable'[t] = durable[t]
        BY <1>2, Committed
    <2>2. \A t \in Tasks : written'[c][t] = << >>
        BY <2>1 DEF NothingWritten
    <2>3. QED
        BY <2>1, <2>2, <1>1, LossStep
<1>3. CASE pc[c] = "stmt" /\ c \notin inTx /\ Write(c)
    <2>1. /\ durable' \in [Tasks -> Seq(AllStatements)]
          /\ inTx' = inTx /\ written' = written
          /\ \A t \in Tasks : t # task[c] => durable'[t] = durable[t]
        BY <1>3, Written
    <2>2. \A t \in Tasks : written'[c][t] = << >>
        BY <2>1, <1>1, <1>3 DEF OpenedAt
    <2>3. QED
        BY <2>1, <2>2, <1>1, LossStep DEF TypeOK
<1>4. QED
    BY <1>2, <1>3 DEF LoseAnswer

-----------------------------------------------------------------------------
(* The theorems.                                                           *)

LEMMA Initial == Init => IInv
<1> USE ConstantsAssumption
<1>1. SUFFICES ASSUME Init
               PROVE  IInv
    OBVIOUS
<1>2. NothingWritten \in [Tasks -> Seq(AllStatements)]
    BY DEF NothingWritten
<1>3. Types
    BY <1>1, <1>2 DEF Types, TypeOK, Init
<1>4. Fresh
    <2>1. \A t \in Tasks : result[t] = "pending" /\ durable[t] = << >>
        BY <1>1 DEF Init
    <2>2. \A c \in Connections : task[c] = NoTask
        BY <1>1 DEF Init
    <2>3. QED
        BY <2>1, <2>2, <1>1 DEF Fresh, Init
<1>5. Running
    BY <1>1 DEF Running, Init
<1>6. Opened
    BY <1>1 DEF Opened, OpenedAt, Init, NothingWritten
<1>7. Progress
    BY <1>1 DEF Progress, ProgressAt, Init
<1>8. Decided
    BY <1>1 DEF Decided, Init
<1>9. QED
    BY <1>3, <1>4, <1>5, <1>6, <1>7, <1>8 DEF IInv

LEMMA Stutter == IInv /\ UNCHANGED vars => IInv'
<1>1. SUFFICES ASSUME IInv, UNCHANGED vars
               PROVE  IInv'
    OBVIOUS
<1>2. /\ Types' /\ Decided' /\ Running'
    BY <1>1 DEF IInv, vars, Types, TypeOK, Current, Decided, Running
<1>3. Fresh'
    BY <1>1 DEF IInv, vars, Fresh, Waiting
<1>4. Opened' /\ Progress'
    BY <1>1 DEF IInv, vars, Opened, Progress, OpenedAt, ProgressAt
<1>5. QED
    BY <1>2, <1>3, <1>4 DEF IInv

LEMMA Invariance == Spec => []IInv
<1>1. IInv /\ [Next]_vars => IInv'
    <2>1. SUFFICES ASSUME IInv, [Next]_vars
                   PROVE  IInv'
        OBVIOUS
    <2>2. ASSUME NEW c \in Connections, Step(c)
          PROVE  IInv'
        <3>1. CASE StartTask(c) \/ \E t \in Direct : StartDirect(c, t)
            BY <2>1, <3>1, StartTaskStep, StartDirectStep
        <3>2. CASE ReturnEmpty(c) \/ Begin(c) \/ StatementSucceeds(c) \/ Commit(c)
            BY <2>1, <3>2, ReturnEmptyStep, BeginStep, StatementSucceedsStep, CommitStep
        <3>3. CASE StatementDeadlocks(c) \/ StatementFails(c) \/ Rollback(c)
            BY <2>1, <3>3, ErrorStep
        <3>4. CASE Return(c) \/ GiveUpTask(c) \/ GiveUpDirect(c)
            BY <2>1, <3>4, FinishStep DEF Return, GiveUpTask, GiveUpDirect
        <3>5. CASE TakeDeadlockLock(c) \/ RetryTask(c) \/ RetryDirect(c)
            BY <2>1, <3>5, RetryStep
        <3>6. QED
            BY <2>2, <3>1, <3>2, <3>3, <3>4, <3>5 DEF Step
    <2>3. ASSUME NEW c \in Connections, LoseStatement(c) \/ LoseAnswer(c)
          PROVE  IInv'
        BY <2>1, <2>3, LoseStatementStep, LoseAnswerStep
    <2>4. CASE UNCHANGED vars
        BY <2>1, <2>4, Stutter
    <2>5. QED
        BY <2>1, <2>2, <2>3, <2>4 DEF Next, AllDone
<1>2. QED
    BY <1>1, Initial, PTL DEF Spec

\* The queue, the threads, the server and what they count keep their types, and a thread
\* in the loop of ExecuteTransaction is at one of its statements.
THEOREM TypeCorrect == Spec => []TypeOK
<1>1. IInv => TypeOK
    BY DEF IInv, Types
<1>2. QED
    BY <1>1, Invariance, PTL

\* A transaction on which no connection was lost is all or nothing, in the order in which
\* its statements were appended, and its result says which, whatever deadlocks, errors
\* and retries came in between.
THEOREM AtomicCorrect == Spec => []AtomicUnlessLost
<1>1. IInv => AtomicUnlessLost
    <2>1. SUFFICES ASSUME IInv, NEW t \in Tasks \ lostIn
                   PROVE  /\ durable[t] \in {<< >>, Appended(t)}
                          /\ result[t] = "done" => durable[t] = Appended(t)
                          /\ result[t] = "failed" => durable[t] = << >>
        BY DEF AtomicUnlessLost
    <2>2. TypeOK /\ Fresh /\ Running /\ Progress /\ Decided
        BY <2>1 DEF IInv, Types
    <2>3. CASE result[t] # "pending"
        BY <2>2, <2>3 DEF Decided, TypeOK
    <2>4. CASE \E c \in Connections : task[c] = t
        <3>1. PICK c \in Connections : task[c] = t
            BY <2>4
        <3>2. pc[c] # "idle"
            BY <2>2, <3>1, ConstantsAssumption DEF Running
        <3>3. QED
            BY <2>2, <3>1, <3>2 DEF Running, Progress, ProgressAt
    <2>5. CASE result[t] = "pending" /\ \A c \in Connections : task[c] # t
        BY <2>2, <2>5 DEF Decided
    <2>6. QED
        BY <2>3, <2>4, <2>5
<1>2. QED
    BY <1>1, Invariance, PTL

\* A connection that is handed back holds no row lock and has no transaction open, those
\* included that were replaced in the middle of a transaction.
THEOREM CleanCorrect == Spec => []IdleConnectionIsClean
<1>1. IInv => IdleConnectionIsClean
    <2>1. SUFFICES ASSUME IInv, NEW c \in Connections, pc[c] \in {"idle", "returned"}
                   PROVE  c \notin inTx /\ Locked(c) = {}
        BY DEF IdleConnectionIsClean
    <2>2. c \notin inTx /\ \A t \in Tasks : written[c][t] = << >>
        BY <2>1, AtConnection DEF OpenedAt
    <2>3. QED
        BY <2>2 DEF Locked, Range
<1>2. QED
    BY <1>1, Invariance, PTL

\* No thread executes the statements of a transaction that Cleanup has deleted.
THEOREM CleanedCorrect == Spec => []NeverRetriesCleaned
<1>1. IInv => NeverRetriesCleaned
    BY DEF IInv, Running, NeverRetriesCleaned
<1>2. QED
    BY <1>1, Invariance, PTL
=============================================================================
