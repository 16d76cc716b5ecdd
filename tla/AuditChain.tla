----------------------------- MODULE AuditChain -----------------------------
(***************************************************************************)
(* The tamper-evident audit log (db/src/audit.ts): appends of the API and  *)
(* of the workers, one transaction each, serialised per tenant by an       *)
(* advisory lock, and the verification that walks a tenant's chain. Rows   *)
(* are numbered by one database sequence for all tenants, whose numbers a  *)
(* transaction that rolls back does not give back.                         *)
(***************************************************************************)
EXTENDS Integers, Sequences, FiniteSetsExt

CONSTANTS
  Tenants,
  Writers,   \* requests and workers that append
  Facts,     \* what an entry may say: the fields the hash covers, with its time
  MaxSeq     \* bound on numbers drawn

VARIABLES
  log,       \* the committed rows of each tenant, by number
  nextSeq,   \* the sequence
  lock,      \* of each tenant, the transaction that holds its lock, if any
  writers,   \* the transaction of each writer
  written    \* history: the rows as they were committed

auditVars == <<log, nextSeq, lock, writers, written>>

Genesis == <<>>

\* sha256 over the predecessor's hash and the entry: no two differ and collide.
auditHash(prev, fact) == Append(prev, fact)

Row(prev, fact) == [prevHash |-> prev, fact |-> fact, hash |-> auditHash(prev, fact)]

\* The hash of the last of a tenant's rows.
TailHash(rows) == IF DOMAIN rows = {} THEN Genesis ELSE rows[Max(DOMAIN rows)].hash

WithRow(rows, s, r) == [n \in DOMAIN rows \cup {s} |-> IF n = s THEN r ELSE rows[n]]
WithoutRow(rows, s) == [n \in DOMAIN rows \ {s} |-> rows[n]]

Idle == [at |-> "idle"]

AuditInit ==
  /\ log = [t \in Tenants |-> <<>>]
  /\ nextSeq = 1
  /\ lock = [t \in Tenants |-> {}]
  /\ writers = [w \in Writers |-> Idle]
  /\ written = [t \in Tenants |-> <<>>]

----------------------------------------------------------------------------
\* An entry is dated, and its transaction waits for the tenant's lock.
Begin(w, t, fact) ==
  /\ writers[w] = Idle
  /\ writers' = [writers EXCEPT ![w] = [at |-> "waiting", tenant |-> t, fact |-> fact]]
  /\ UNCHANGED <<log, nextSeq, lock, written>>

\* Mutant: the lock is asked for and not waited for.
LockWithoutWaiting(w) ==
  LET tx == writers[w] IN
    /\ tx.at = "waiting"
    /\ lock' = [lock EXCEPT ![tx.tenant] = @ \cup {w}]
    /\ writers' = [writers EXCEPT ![w] =
         [at |-> "locked", tenant |-> tx.tenant, fact |-> tx.fact]]
    /\ UNCHANGED <<log, nextSeq, written>>

Lock(w) ==
  LET tx == writers[w] IN
    /\ tx.at = "waiting"
    /\ lock[tx.tenant] = {}
    /\ lock' = [lock EXCEPT ![tx.tenant] = {w}]
    /\ writers' = [writers EXCEPT ![w] =
         [at |-> "locked", tenant |-> tx.tenant, fact |-> tx.fact]]
    /\ UNCHANGED <<log, nextSeq, written>>

\* The tail is what other transactions have committed by now.
ReadTail(w) ==
  LET tx == writers[w] IN
    /\ tx.at = "locked"
    /\ writers' = [writers EXCEPT ![w] =
         [at |-> "read", tenant |-> tx.tenant, fact |-> tx.fact,
          tail |-> TailHash(log[tx.tenant])]]
    /\ UNCHANGED <<log, nextSeq, lock, written>>

Insert(w) ==
  LET tx == writers[w] IN
    /\ tx.at = "read"
    /\ nextSeq <= MaxSeq
    /\ nextSeq' = nextSeq + 1
    /\ writers' = [writers EXCEPT ![w] =
         [at |-> "inserted", tenant |-> tx.tenant, seq |-> nextSeq,
          row |-> Row(tx.tail, tx.fact)]]
    /\ UNCHANGED <<log, lock, written>>

\* The commit shows the row and gives up the lock.
Commit(w) ==
  LET tx == writers[w] IN
    /\ tx.at = "inserted"
    /\ log' = [log EXCEPT ![tx.tenant] = WithRow(@, tx.seq, tx.row)]
    /\ written' = [written EXCEPT ![tx.tenant] = WithRow(@, tx.seq, tx.row)]
    /\ lock' = [lock EXCEPT ![tx.tenant] = @ \ {w}]
    /\ writers' = [writers EXCEPT ![w] = Idle]
    /\ UNCHANGED nextSeq

\* A statement throws, the transaction times out, or its process dies.
Rollback(w) ==
  LET tx == writers[w] IN
    /\ tx # Idle
    /\ lock' = [lock EXCEPT ![tx.tenant] = @ \ {w}]
    /\ writers' = [writers EXCEPT ![w] = Idle]
    /\ UNCHANGED <<log, nextSeq, written>>

\* Somebody with access to the table edits what a row says, or deletes a row that
\* has a successor.
Edit(t, s, fact) ==
  /\ s \in DOMAIN log[t]
  /\ log' = [log EXCEPT ![t] = [@ EXCEPT ![s].fact = fact]]
  /\ UNCHANGED <<nextSeq, lock, writers, written>>

DeleteRow(t, s) ==
  /\ s \in DOMAIN log[t]
  /\ \E n \in DOMAIN log[t] : n > s
  /\ log' = [log EXCEPT ![t] = WithoutRow(@, s)]
  /\ UNCHANGED <<nextSeq, lock, writers, written>>

Transact(w) ==
  \/ \E t \in Tenants, fact \in Facts : Begin(w, t, fact)
  \/ Lock(w) \/ ReadTail(w) \/ Insert(w) \/ Commit(w) \/ Rollback(w)

Tamper ==
  \E t \in Tenants : \E s \in DOMAIN log[t] :
    \/ \E fact \in Facts : Edit(t, s, fact)
    \/ DeleteRow(t, s)

AuditNext == Tamper \/ \E w \in Writers : Transact(w)

AuditSpec == AuditInit /\ [][AuditNext]_auditVars

----------------------------------------------------------------------------
Before(rows, s) == {n \in DOMAIN rows : n < s}

\* What the walk has for the hash of the row before, when it comes to a row.
PreviousHash(rows, s) ==
  IF Before(rows, s) = {} THEN Genesis ELSE rows[Max(Before(rows, s))].hash

\* Mutant: a row's content is checked, and not what it follows.
breaksOfContent(rows) ==
  {s \in DOMAIN rows : rows[s].hash # auditHash(rows[s].prevHash, rows[s].fact)}

\* The rows at which verifyAuditChain reports a break: of the chain before it, or
\* of its content.
verifyAuditChain(rows) ==
  {s \in DOMAIN rows : \/ rows[s].prevHash # PreviousHash(rows, s)
                       \/ rows[s].hash # auditHash(rows[s].prevHash, rows[s].fact)}

Edited(t)     == {s \in DOMAIN log[t] : log[t][s] # written[t][s]}
Missing(t, s) == \E n \in DOMAIN written[t] \ DOMAIN log[t] :
                   n < s /\ ~ \E m \in Before(log[t], s) : m > n

\* Whatever was committed, by whomever and in whatever order, verifies: no two
\* rows follow the same one, and a transaction that rolled back leaves no gap.
HonestChain == \A t \in Tenants : verifyAuditChain(written[t]) = {}

\* The verification points at every row that has been edited and at every row that
\* follows a deleted one, and at no other, whatever has been appended since.
TamperingIsLocated ==
  \A t \in Tenants :
    verifyAuditChain(log[t]) = Edited(t) \cup {s \in DOMAIN log[t] : Missing(t, s)}
=============================================================================
