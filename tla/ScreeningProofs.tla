--------------------------- MODULE ScreeningProofs --------------------------
(***************************************************************************)
(* For any corpus, feeds, days, runs, decisions and failing calls: no hit   *)
(* is settled but by an analyst, and monitoring freezes a customer for     *)
(* somebody new, with a case, and for nobody else.                         *)
(***************************************************************************)
EXTENDS Screening, FiniteSetTheorems, TLAPS

----------------------------------------------------------------------------
(* Sets of numbers, and sets as sequences.                                 *)

Less == {pair \in Nat \X Nat : pair[1] < pair[2]}

\* A set of natural numbers has a least.
LEMMA Least ==
  ASSUME NEW T, T \subseteq Nat, T # {}
  PROVE  \E x \in T : \A y \in T : x <= y
<1>1. IsWellFoundedOn(Less, Nat)
  BY NatLessThanWellFounded DEF OpToRel, Less
<1>2. \E x \in T : \A y \in T : ~ (<<y, x>> \in Less)
  BY <1>1, WFMin, Zenon
<1>3. ASSUME NEW x \in T, NEW y \in T, <<y, x>> \notin Less PROVE x <= y
  <2>1. x \in Nat /\ y \in Nat /\ <<y, x>> \in Nat \X Nat
    OBVIOUS
  <2>2. ~ (y < x)
    BY <1>3, <2>1 DEF Less
  <2> QED BY <2>1, <2>2
<1> QED BY <1>2, <1>3

\* Of some rows of a table the newest is one of them.
LEMMA MaxOfRows ==
  ASSUME NEW n \in Nat, NEW S \in SUBSET (1 .. n), S # {}
  PROVE  Max(S) \in S /\ \A y \in S : y <= Max(S)
<1> DEFINE T == {k \in Nat : n - k \in S}
<1>1. T \subseteq Nat /\ T # {}
  <2>1. PICK x \in S : TRUE
    OBVIOUS
  <2>2. x \in Nat /\ x <= n /\ n - (n - x) = x
    BY <2>1
  <2>3. n - x \in T
    BY <2>1, <2>2
  <2> QED BY <2>3
<1>2. PICK t \in T : \A u \in T : t <= u
  BY <1>1, Least
<1>3. ASSUME NEW y \in S PROVE n - t >= y
  <2>1. n - y \in T
    BY n - (n - y) = y
  <2> QED BY <1>2, <2>1
<1> QED BY <1>2, <1>3 DEF Max

\* A finite set written as a sequence: each of its elements, once.
LEMMA Enumeration ==
  ASSUME NEW S, IsFiniteSet(S)
  PROVE  /\ SetToSeq(S) \in Seq(S)
         /\ \A x \in S : \E i \in DOMAIN SetToSeq(S) : SetToSeq(S)[i] = x
         /\ \A i, j \in DOMAIN SetToSeq(S) : SetToSeq(S)[i] = SetToSeq(S)[j] => i = j
<1> DEFINE n == Cardinality(S)
<1>1. n \in Nat /\ ExistsBijection(1 .. n, S)
  BY FS_CardinalityType
<1>2. \E f \in [1 .. n -> S] : IsInjective(f)
  BY <1>1 DEF ExistsBijection, Bijection, Injection
<1>3. SetToSeq(S) \in [1 .. n -> S] /\ IsInjective(SetToSeq(S))
  BY <1>2 DEF SetToSeq
<1>4. SetToSeq(S) \in Injection(1 .. n, S)
  BY <1>3 DEF Injection
<1>5. Cardinality(1 .. n) = n
  BY <1>1, FS_Interval
<1>6. SetToSeq(S) \in Surjection(1 .. n, S)
  BY <1>4, <1>5, FS_Injection
<1> HIDE DEF n
<1> QED BY <1>1, <1>3, <1>6 DEF Surjection, IsInjective

----------------------------------------------------------------------------
(* The inductive invariant.                                                *)

Stages   == {"idle", "queued", "weighed", "freeze", "count", "case"}
Triggers == {"none", "ONGOING_MONITORING", "MANUAL"}
Outcomes == Resolutions \cup {"none"}
Runs     == [status : {"RUNNING", "FAILED", "COMPLETED"}, openHitCount : Int,
             new : Nat, trigger : Triggers, check : {"none", "FAILED", "PASS", "WARNING"}]
Hits     == [entry : Entries, run : Nat, isNew : BOOLEAN, status : {"OPEN", "RESOLVED"},
             resolution : Outcomes, resolvedAt : Int, createdAt : Int]
Weighings == [entry : Entries, isNew : BOOLEAN, status : {"OPEN", "RESOLVED"},
              resolution : Outcomes]
Jobs     == [stage : Stages, trigger : Triggers, attempt : 0 .. MaxAttempts,
             weighed : SUBSET Weighings, count : Nat]

Shapes ==
  /\ day \in Nat /\ reviewStatus \in {"APPROVED", "ON_HOLD", "REJECTED_FINAL"}
  /\ runs \in Seq(Runs) /\ hits \in Seq(Hits) /\ cases \in Seq(Nat)
  /\ job \in Jobs /\ IsFiniteSet(job.weighed)
  /\ lifted \in BOOLEAN
  /\ trouble \in Nat /\ trouble <= MaxTrouble

\* Open means without a resolution, and a resolution is one an analyst has given
\* this entry: of what has been written,
Open(x)   == (x.status = "OPEN") = (x.resolution = "none")
Backed(x) == x.status = "RESOLVED" =>
               \E d \in decided : d.entry = x.entry /\ d.resolution = x.resolution

HitsBacked ==
  \A i \in DOMAIN hits : Open(hits[i]) /\ Backed(hits[i]) /\ hits[i].run \in DOMAIN runs

\* and of what is about to be.
WeighedBacked == \A w \in job.weighed : Open(w) /\ Backed(w)

\* A job under way is about the newest run. What it calls new has no earlier hit,
\* nor a second one of its own.
OfNewestRun ==
  /\ job.stage \in {"weighed", "freeze", "count", "case"} => Len(runs) > 0
  /\ job.stage = "weighed" =>
       /\ job.trigger = runs[Len(runs)].trigger /\ runs[Len(runs)].new = 0
       /\ \A w \in job.weighed :
            /\ w.isNew => Rows(w.entry) = {}
            /\ \A x \in job.weighed : x.entry = w.entry => x = w
  /\ job.stage = "freeze" =>
       \E i \in DOMAIN hits :
         /\ hits[i].run = Len(runs)
         /\ \A j \in DOMAIN hits : hits[j].entry = hits[i].entry => j >= i

\* As long as no call has failed, whatever monitoring has found is being handled or
\* has been.
Found(r)   == runs[r].new > 0 /\ Monitored(runs[r].trigger)
Handled ==
  trouble = MaxTrouble =>
    /\ \A r \in DOMAIN runs : Found(r) =>
         /\ \/ \E c \in DOMAIN cases : cases[c] = r
            \/ r = Len(runs) /\ job.stage \in {"freeze", "count", "case"}
         /\ reviewStatus = "APPROVED" => lifted \/ (r = Len(runs) /\ job.stage = "freeze")
    /\ job.stage = "case" => job.count = Len(cases)

IInv == Shapes /\ HitsBacked /\ WeighedBacked /\ OfNewestRun /\ Handled

LEMMA InitHolds == Init => IInv
<1> SUFFICES ASSUME Init PROVE IInv
  OBVIOUS
<1>1. job.weighed = {} /\ job.stage = "idle" /\ job \in Jobs
  BY ScreeningAssumption DEF Init, Idle, Jobs, Stages, Triggers, ScreeningAssumption
<1>2. IsFiniteSet(job.weighed)
  BY <1>1, FS_EmptySet
<1>3. MaxTrouble \in Nat /\ <<>> \in Seq(Runs) /\ <<>> \in Seq(Hits) /\ <<>> \in Seq(Nat)
  BY ScreeningAssumption DEF ScreeningAssumption
<1>5. lifted \in BOOLEAN
  BY Zenon DEF Init
<1>6. /\ day = 0 /\ reviewStatus = "APPROVED" /\ runs = <<>> /\ hits = <<>>
      /\ cases = <<>> /\ trouble = MaxTrouble
  BY Zenon DEF Init
<1>7. Shapes
  BY <1>1, <1>2, <1>3, <1>5, <1>6 DEF Shapes
<1>4. DOMAIN hits = {} /\ DOMAIN runs = {}
  BY DEF Init
<1> QED
  BY <1>1, <1>7, <1>4 DEF IInv, HitsBacked, WeighedBacked, OfNewestRun, Handled

----------------------------------------------------------------------------
(* What a search comes to.                                                 *)

\* The entry of a match, and what the newest hit on it says of it.
LEMMA WeighedIs ==
  ASSUME Shapes, HitsBacked, NEW e \in Entries
  PROVE  /\ Weighed(e) \in Weighings
         /\ Open(Weighed(e)) /\ Backed(Weighed(e))
         /\ Weighed(e).entry = e
         /\ Weighed(e).isNew => Rows(e) = {}
<1>1. Rows(e) \in SUBSET (1 .. Len(hits)) /\ Len(hits) \in Nat
  BY DEF Rows, Shapes
<1>2. CASE Rows(e) = {}
  <2>1. Prior(e) = 0
    BY <1>2 DEF Prior
  <2>2. Weighed(e) = [entry |-> e, isNew |-> TRUE, status |-> "OPEN",
                      resolution |-> "none"]
    BY <2>1 DEF Weighed
  <2> QED BY <1>2, <2>2 DEF Weighings, Outcomes, Open, Backed
<1>3. CASE Rows(e) # {}
  <2>1. Prior(e) \in Rows(e)
    BY <1>1, <1>3, MaxOfRows DEF Prior
  <2> DEFINE h == hits[Prior(e)]
  <2>2. /\ h \in Hits /\ h.entry = e /\ Open(h) /\ Backed(h) /\ Prior(e) # 0
    BY <1>1, <2>1 DEF Rows, HitsBacked, Shapes
  <2> DEFINE settled == h.status # "OPEN" /\ ~expired(e, h)
             s == IF settled THEN h.status ELSE "OPEN"
             r == IF settled THEN h.resolution ELSE "none"
  <2>3. Weighed(e) = [entry |-> e, isNew |-> FALSE, status |-> s, resolution |-> r]
    BY <2>2 DEF Weighed
  <2>4. h.status \in {"OPEN", "RESOLVED"} /\ h.resolution \in Outcomes
    BY <2>2 DEF Hits
  <2>5. s \in {"OPEN", "RESOLVED"} /\ r \in Outcomes
    BY <2>4 DEF Outcomes
  <2>6. (s = "OPEN") = (r = "none")
    BY <2>2 DEF Open
  <2>7. s = "RESOLVED" => \E d \in decided : d.entry = e /\ d.resolution = r
    BY <2>2 DEF Backed
  <2> HIDE DEF s, r
  <2>8. Weighed(e) \in Weighings
    BY <2>3, <2>5 DEF Weighings
  <2>9. Open(Weighed(e)) /\ Backed(Weighed(e))
    BY <2>3, <2>6, <2>7 DEF Open, Backed
  <2> QED BY <2>3, <2>8, <2>9
<1> QED BY <1>2, <1>3

\* There are finitely many.
LEMMA WeighedFinite == IsFiniteSet({Weighed(e) : e \in search})
<1> DEFINE f == [e \in search |-> Weighed(e)]
<1>1. search \subseteq Entries
  BY DEF search, load
<1>2. IsFiniteSet(search)
  BY <1>1, FS_Subset, ScreeningAssumption DEF ScreeningAssumption
<1>3. f \in Surjection(search, {Weighed(e) : e \in search})
  BY DEF Surjection
<1> QED BY <1>2, <1>3, FS_Surjection

\* The rows a run writes, after those that are there.
Written(w) == [entry |-> w.entry, run |-> Len(runs), isNew |-> w.isNew,
               status |-> w.status, resolution |-> w.resolution,
               resolvedAt |-> -1, createdAt |-> day]
NewRows    == SetToSeq({Written(w) : w \in job.weighed})

LEMMA RowsWritten ==
  ASSUME Shapes
  PROVE  /\ NewRows \in Seq(Hits)
         /\ \A i \in DOMAIN NewRows : \E w \in job.weighed : NewRows[i] = Written(w)
         /\ \A w \in job.weighed : \E i \in DOMAIN NewRows : NewRows[i] = Written(w)
         /\ \A i, j \in DOMAIN NewRows : NewRows[i] = NewRows[j] => i = j
<1> DEFINE S == {Written(w) : w \in job.weighed}
           f == [w \in job.weighed |-> Written(w)]
<1>1. f \in Surjection(job.weighed, S)
  BY DEF Surjection
<1>2. IsFiniteSet(S)
  BY <1>1, FS_Surjection DEF Shapes
<1>3. \A w \in job.weighed : Written(w) \in Hits
  BY DEF Written, Shapes, Jobs, Weighings, Hits, Outcomes
<1>4. S \subseteq Hits
  BY <1>3
<1>5. /\ NewRows \in Seq(S)
      /\ \A x \in S : \E i \in DOMAIN NewRows : NewRows[i] = x
      /\ \A i, j \in DOMAIN NewRows : NewRows[i] = NewRows[j] => i = j
  BY <1>2, Enumeration DEF NewRows
<1>6. \A i \in DOMAIN NewRows : NewRows[i] \in S
  BY <1>5
<1> QED BY <1>4, <1>5, <1>6
----------------------------------------------------------------------------
(* Every step keeps it.                                                    *)

LEMMA JobsOver ==
  ASSUME Shapes
  PROVE  /\ Idle \in Jobs /\ Idle.weighed = {} /\ Idle.stage = "idle"
         /\ Again \in Jobs /\ Again.weighed = {} /\ Again.stage \in {"idle", "queued"}
<1>1. MaxAttempts \in Nat \ {0}
  BY ScreeningAssumption DEF ScreeningAssumption
<1>2. /\ job.attempt \in 0 .. MaxAttempts /\ job.trigger \in Triggers
      /\ {} \in SUBSET Weighings
  BY DEF Shapes, Jobs
<1>3. Idle \in Jobs /\ Idle.weighed = {} /\ Idle.stage = "idle"
  BY <1>1 DEF Idle, Jobs, Stages, Triggers
<1>4. CASE job.attempt < MaxAttempts
  <2>1. Again = [stage |-> "queued", trigger |-> job.trigger,
                 attempt |-> job.attempt + 1, weighed |-> {}, count |-> 0]
    BY <1>4 DEF Again, Idle
  <2>2. job.attempt + 1 \in 0 .. MaxAttempts
    BY <1>1, <1>2, <1>4
  <2> QED BY <1>2, <1>3, <2>1, <2>2 DEF Jobs, Stages
<1>5. CASE ~(job.attempt < MaxAttempts)
  BY <1>3, <1>5 DEF Again
<1> QED BY <1>3, <1>4, <1>5

\* What a decision does to the hits: the one it is about, and not whose it is.
LEMMA HitResolved ==
  ASSUME Shapes, NEW i \in DOMAIN hits, NEW r \in Resolutions, NEW allow \in BOOLEAN,
         resolveHit(i, r, allow), hits[i].run \in DOMAIN runs
  PROVE  /\ hits' \in Seq(Hits) /\ DOMAIN hits' = DOMAIN hits
         /\ \A j \in DOMAIN hits : /\ hits'[j].entry = hits[j].entry
                                   /\ hits'[j].run = hits[j].run
                                   /\ j # i => hits'[j] = hits[j]
         /\ hits'[i].status = "RESOLVED" /\ hits'[i].resolution = r
         /\ runs' \in Seq(Runs) /\ DOMAIN runs' = DOMAIN runs /\ Len(runs') = Len(runs)
         /\ \A k \in DOMAIN runs : /\ runs'[k].new = runs[k].new
                                   /\ runs'[k].trigger = runs[k].trigger
<1> DEFINE h == hits[i]
           g == [h EXCEPT !.status = "RESOLVED", !.resolution = r, !.resolvedAt = day]
           k == hits[i].run
           q == [runs[k] EXCEPT !.openHitCount = @ - 1]
<1>1. h \in Hits /\ day \in Int /\ r \in Outcomes
  BY DEF Shapes, Outcomes
<1>2. g \in Hits /\ g.entry = h.entry /\ g.run = h.run /\ g.status = "RESOLVED"
        /\ g.resolution = r
  BY <1>1 DEF Hits
<1>3. hits \in Seq(Hits) /\ hits' = [hits EXCEPT ![i] = g]
  BY DEF Shapes, resolveHit
<1>4. runs[k] \in Runs /\ runs \in Seq(Runs)
  BY DEF Shapes
<1>5. q \in Runs /\ q.new = runs[k].new /\ q.trigger = runs[k].trigger
  BY <1>4 DEF Runs
<1>6. runs' = [runs EXCEPT ![k] = q]
  BY <1>4 DEF resolveHit, Runs
<1> HIDE DEF g, h, q, k
<1>7. hits' \in Seq(Hits) /\ DOMAIN hits' = DOMAIN hits
      /\ \A j \in DOMAIN hits : hits'[j] = IF j = i THEN g ELSE hits[j]
  BY <1>2, <1>3
<1>8. runs' \in Seq(Runs) /\ DOMAIN runs' = DOMAIN runs /\ Len(runs') = Len(runs)
      /\ \A m \in DOMAIN runs : runs'[m] = IF m = k THEN q ELSE runs[m]
  BY <1>4, <1>5, <1>6 DEF k
<1> QED BY <1>2, <1>5, <1>7, <1>8 DEF h
\* What the end of a run does to the hits, to its row and to the job.
LEMMA HitsCreated ==
  ASSUME Shapes, CreateHits, Len(runs) > 0
  PROVE  /\ hits' = hits \o NewRows /\ hits' \in Seq(Hits)
         /\ runs' \in Seq(Runs) /\ DOMAIN runs' = DOMAIN runs /\ Len(runs') = Len(runs)
         /\ \A k \in DOMAIN runs : /\ k # Len(runs) => runs'[k] = runs[k]
                                   /\ runs'[k].trigger = runs[k].trigger
         /\ runs'[Len(runs)].new > 0 => \E w \in job.weighed : w.isNew
         /\ job' = IF runs'[Len(runs)].new > 0 /\ Monitored(job.trigger)
                   THEN [job EXCEPT !.stage = "freeze"] ELSE Idle
<1> DEFINE n     == Len(runs)
           fresh == {w \in job.weighed : w.isNew}
           open  == {w \in job.weighed : w.status = "OPEN"}
           check == IF job.weighed = {} THEN "PASS" ELSE "WARNING"
           found == Cardinality(fresh)
           left  == Cardinality(open)
           row == runs[n]
           q == [row EXCEPT !.status = "COMPLETED", !.new = found, !.openHitCount = left,
                            !.check = check]
<1>1. hits' = hits \o NewRows
  BY DEF CreateHits, NewRows, Written
<1>2. hits' \in Seq(Hits)
  BY <1>1, RowsWritten DEF Shapes
<1>3. IsFiniteSet(fresh) /\ IsFiniteSet(open)
  BY FS_Subset DEF Shapes
<1>4. found \in Nat /\ left \in Nat
  BY <1>3, FS_CardinalityType
<1>5. found > 0 => \E w \in job.weighed : w.isNew
  <2>1. fresh = {} => Cardinality(fresh) = 0
    BY FS_EmptySet
  <2> QED BY <1>4, <2>1
<1>6. runs \in Seq(Runs) /\ n \in DOMAIN runs /\ row \in Runs
  BY DEF Shapes
<1>7. runs' = [runs EXCEPT ![n] = q]
  BY <1>6 DEF CreateHits, Runs
<1>8. job' = IF found > 0 /\ Monitored(job.trigger)
             THEN [job EXCEPT !.stage = "freeze"] ELSE Idle
  BY DEF CreateHits
<1>9. check \in {"none", "FAILED", "PASS", "WARNING"}
  OBVIOUS
<1> HIDE DEF check, found, left, row
<1>10. q \in Runs /\ q.new = found /\ q.trigger = row.trigger
  <2> DEFINE half == [row EXCEPT !.status = "COMPLETED", !.new = found]
  <2>1. row \in Runs /\ left \in Int /\ found \in Nat
    BY <1>4, <1>6
  <2>2. half \in Runs /\ half.new = found /\ half.trigger = row.trigger
    BY <2>1 DEF Runs
  <2>3. q = [half EXCEPT !.openHitCount = left, !.check = check]
    OBVIOUS
  <2> HIDE DEF q, half
  <2>4. q \in Runs /\ q.new = half.new /\ q.trigger = half.trigger
    BY <1>9, <2>1, <2>2, <2>3 DEF Runs
  <2> QED BY <2>2, <2>4
<1> HIDE DEF q, n
<1>11. /\ runs' \in Seq(Runs) /\ DOMAIN runs' = DOMAIN runs /\ Len(runs') = Len(runs)
       /\ \A m \in DOMAIN runs : runs'[m] = IF m = n THEN q ELSE runs[m]
  BY <1>6, <1>7, <1>10
<1> QED BY <1>1, <1>2, <1>5, <1>6, <1>8, <1>10, <1>11 DEF n, row

LEMMA ShapesKept ==
  ASSUME IInv, [Next]_vars
  PROVE  Shapes'
<1> USE DEF IInv
<1>0. /\ day \in Nat /\ reviewStatus \in {"APPROVED", "ON_HOLD", "REJECTED_FINAL"}
      /\ runs \in Seq(Runs) /\ hits \in Seq(Hits) /\ cases \in Seq(Nat)
      /\ job \in Jobs /\ IsFiniteSet(job.weighed) /\ lifted \in BOOLEAN
      /\ trouble \in Nat /\ trouble <= MaxTrouble /\ MaxTrouble \in Nat
  BY ScreeningAssumption DEF Shapes, ScreeningAssumption
<1>e. IsFiniteSet({})
  BY FS_EmptySet
<1>1. CASE MonitoringSweep
  <2>1. job' \in Jobs /\ IsFiniteSet(job'.weighed)
    <3>1. CASE job' = job
      BY <3>1, <1>0
    <3>2. CASE job' = [Idle EXCEPT !.stage = "queued", !.attempt = 1,
                                   !.trigger = "ONGOING_MONITORING"]
      <4>1. 1 \in 0 .. MaxAttempts
        BY ScreeningAssumption DEF ScreeningAssumption
      <4> QED BY <1>e, <3>2, <4>1 DEF Idle, Jobs, Stages, Triggers
    <3> QED BY <1>1, <3>1, <3>2 DEF MonitoringSweep
  <2> QED BY <1>0, <1>1, <2>1 DEF MonitoringSweep, Shapes
<1>2. CASE AdHocScreening
  <2>1. 1 \in 0 .. MaxAttempts
    BY ScreeningAssumption DEF ScreeningAssumption
  <2>2. job' \in Jobs /\ IsFiniteSet(job'.weighed)
    BY <1>2, <1>e, <2>1 DEF AdHocScreening, Idle, Jobs, Stages, Triggers
  <2> QED BY <1>0, <1>2, <2>2 DEF AdHocScreening, Shapes
<1>3. CASE Search
  <2>1. search \subseteq Entries
    BY DEF search, load
  <2>2. {Weighed(e) : e \in search} \in SUBSET Weighings
    BY <2>1, WeighedIs
  <2>3. job' \in Jobs /\ job'.weighed = {Weighed(e) : e \in search}
    BY <1>0, <1>3, <2>2 DEF Search, Jobs, Stages
  <2>4. IsFiniteSet(job'.weighed)
    BY <2>3, WeighedFinite
  <2>5. [status |-> "RUNNING", openHitCount |-> 0, new |-> 0,
         trigger |-> job.trigger, check |-> "none"] \in Runs
    BY <1>0 DEF Jobs, Runs
  <2>6. runs' \in Seq(Runs)
    BY <1>0, <1>3, <2>5 DEF Search
  <2> QED BY <1>0, <1>3, <2>3, <2>4, <2>6 DEF Search, Shapes
<1>4. CASE SearchFails
  <2>1. [status |-> "FAILED", openHitCount |-> 0, new |-> 0,
         trigger |-> job.trigger, check |-> "FAILED"] \in Runs
    BY <1>0 DEF Jobs, Runs
  <2>2. runs' \in Seq(Runs)
    BY <1>0, <1>4, <2>1 DEF SearchFails
  <2>3. job' \in Jobs /\ IsFiniteSet(job'.weighed)
    BY <1>4, <1>e, JobsOver DEF SearchFails
  <2>4. trouble' \in Nat /\ trouble' <= MaxTrouble
    BY <1>0, <1>4 DEF SearchFails, Troubled
  <2> QED BY <1>0, <1>4, <2>2, <2>3, <2>4 DEF SearchFails, Shapes
<1>5. CASE CreateHits
  <2>1. Len(runs) > 0
    BY <1>5 DEF CreateHits, OfNewestRun
  <2>2. hits' \in Seq(Hits) /\ runs' \in Seq(Runs)
    BY <1>5, <2>1, HitsCreated
  <2>3. job' = Idle \/ job' = [job EXCEPT !.stage = "freeze"]
    BY <1>5 DEF CreateHits
  <2>4. job' \in Jobs /\ IsFiniteSet(job'.weighed)
    BY <1>0, <1>e, <2>3, JobsOver DEF Jobs, Stages
  <2> QED BY <1>0, <1>5, <2>2, <2>4 DEF CreateHits, Shapes
<1>6. CASE Freeze
  <2>1. job' \in Jobs /\ job'.weighed = job.weighed
    BY <1>0, <1>6 DEF Freeze, Jobs, Stages
  <2>2. reviewStatus' \in {"APPROVED", "ON_HOLD", "REJECTED_FINAL"}
    BY <1>0, <1>6 DEF Freeze
  <2>3. lifted' \in BOOLEAN
    BY <1>6 DEF Freeze
  <2> QED BY <1>0, <1>6, <2>1, <2>2, <2>3 DEF Freeze, Shapes
<1>7. CASE CountCases
  <2>1. Len(cases) \in Nat
    BY <1>0
  <2>2. job' \in Jobs /\ job'.weighed = job.weighed
    BY <1>0, <1>7, <2>1 DEF CountCases, Jobs, Stages
  <2> QED BY <1>0, <1>7, <2>2 DEF CountCases, Shapes
<1>8. CASE OpenCase
  <2>1. job' \in Jobs /\ IsFiniteSet(job'.weighed)
    BY <1>8, <1>e, JobsOver DEF OpenCase
  <2>2. cases' \in Seq(Nat)
    BY <1>0, <1>8 DEF OpenCase
  <2> QED BY <1>0, <1>8, <2>1, <2>2 DEF OpenCase, Shapes
<1>9. CASE OtherCase
  <2>1. trouble' \in Nat /\ trouble' <= MaxTrouble /\ cases' \in Seq(Nat)
    BY <1>0, <1>9 DEF OtherCase, Troubled
  <2> QED BY <1>0, <1>9, <2>1 DEF OtherCase, Shapes
<1>10. CASE JobThrows
  <2>1. trouble' \in Nat /\ trouble' <= MaxTrouble
    BY <1>0, <1>10 DEF JobThrows, Troubled
  <2>2. job' \in Jobs /\ IsFiniteSet(job'.weighed)
    BY <1>10, <1>e, JobsOver DEF JobThrows
  <2> QED BY <1>0, <1>10, <2>1, <2>2 DEF JobThrows, Shapes
<1>11. ASSUME NEW i \in DOMAIN hits, NEW r \in Resolutions, NEW allow \in BOOLEAN,
              resolveHit(i, r, allow)
       PROVE  Shapes'
  <2>1. hits' \in Seq(Hits) /\ runs' \in Seq(Runs)
    BY <1>11, HitResolved DEF HitsBacked
  <2> QED BY <1>0, <1>11, <2>1 DEF resolveHit, Shapes
<1>12. ASSUME NEW status \in {"APPROVED", "REJECTED_FINAL"}, DecideHold(status)
       PROVE  Shapes'
  <2>1. lifted' \in BOOLEAN
    BY <1>12 DEF DecideHold
  <2> QED BY <1>0, <1>12, <2>1 DEF DecideHold, Shapes
<1>13. ASSUME NEW feed \in Feeds, ingestSource(feed) PROVE Shapes'
  BY <1>0, <1>13 DEF ingestSource, Shapes
<1>14. CASE NextDay
  BY <1>0, <1>14 DEF NextDay, Shapes
<1>15. CASE UNCHANGED vars
  BY <1>0, <1>15 DEF vars, Shapes
<1> QED
  BY <1>1, <1>2, <1>3, <1>4, <1>5, <1>6, <1>7, <1>8, <1>9, <1>10, <1>11, <1>12, <1>13,
     <1>14, <1>15 DEF Next
\* A decision is not taken back: what is backed stays so.
LEMMA BackedKept ==
  ASSUME NEW x, Backed(x), decided \subseteq decided'
  PROVE  Backed(x)'
BY DEF Backed

LEMMA BackingKept ==
  ASSUME IInv, [Next]_vars
  PROVE  HitsBacked' /\ WeighedBacked'
<1> USE DEF IInv
<1>1. CASE Search
  <2>1. UNCHANGED <<hits, decided>> /\ job'.weighed = {Weighed(e) : e \in search}
        /\ search \subseteq Entries
    BY <1>1 DEF Search, search, load, Shapes, Jobs
  <2>2. \A e \in search : Open(Weighed(e)) /\ Backed(Weighed(e))
    BY <2>1, WeighedIs
  <2>3. WeighedBacked'
    BY <2>1, <2>2 DEF WeighedBacked, Open, Backed
  <2>4. DOMAIN runs \subseteq DOMAIN runs'
    BY <1>1 DEF Search, Shapes
  <2> QED BY <2>1, <2>3, <2>4 DEF HitsBacked, Open, Backed
<1>2. CASE SearchFails
  <2>1. UNCHANGED <<hits, decided>> /\ job'.weighed = {}
    BY <1>2, JobsOver DEF SearchFails
  <2>2. DOMAIN runs \subseteq DOMAIN runs'
    BY <1>2 DEF SearchFails, Shapes
  <2> QED BY <2>1, <2>2 DEF HitsBacked, WeighedBacked, Open, Backed
<1>3. CASE CreateHits
  <2>1. Len(runs) > 0 /\ Len(runs) \in DOMAIN runs
    BY <1>3 DEF CreateHits, OfNewestRun, Shapes
  <2>2. /\ hits' = hits \o NewRows /\ hits \in Seq(Hits) /\ NewRows \in Seq(Hits)
        /\ DOMAIN runs' = DOMAIN runs /\ decided' = decided
        /\ \A i \in DOMAIN NewRows : \E w \in job.weighed : NewRows[i] = Written(w)
    BY <1>3, <2>1, HitsCreated, RowsWritten DEF CreateHits, Shapes
  <2>3. \A i \in DOMAIN NewRows :
          Open(NewRows[i]) /\ Backed(NewRows[i]) /\ NewRows[i].run \in DOMAIN runs
    <3> SUFFICES ASSUME NEW i \in DOMAIN NewRows
                 PROVE  /\ Open(NewRows[i]) /\ Backed(NewRows[i])
                        /\ NewRows[i].run \in DOMAIN runs
      OBVIOUS
    <3>1. PICK w \in job.weighed : NewRows[i] = Written(w)
      BY <2>2
    <3>2. /\ NewRows[i].entry = w.entry /\ NewRows[i].run = Len(runs)
          /\ NewRows[i].status = w.status /\ NewRows[i].resolution = w.resolution
      BY <3>1 DEF Written
    <3>3. Open(w) /\ Backed(w)
      BY DEF WeighedBacked
    <3> QED BY <2>1, <3>2, <3>3 DEF Open, Backed
  <2>4. HitsBacked'
    <3> SUFFICES ASSUME NEW i \in DOMAIN hits'
                 PROVE  (Open(hits[i]) /\ Backed(hits[i]) /\ hits[i].run \in DOMAIN runs)'
      BY DEF HitsBacked
    <3>1. CASE i \in DOMAIN hits
      <4>1. hits'[i] = hits[i]
        BY <2>2, <3>1
      <4> QED BY <2>2, <3>1, <4>1 DEF HitsBacked, Open, Backed
    <3>2. CASE i \notin DOMAIN hits
      <4>1. PICK k \in DOMAIN NewRows : hits'[i] = NewRows[k]
        <5>1. i - Len(hits) \in DOMAIN NewRows
              /\ hits'[i] = NewRows[i - Len(hits)]
          BY <2>2, <3>2
        <5> QED BY <5>1
      <4> QED BY <2>2, <2>3, <4>1 DEF Open, Backed
    <3> QED BY <3>1, <3>2
  <2>5. job'.weighed = {} \/ job'.weighed = job.weighed
    BY <1>3, JobsOver DEF CreateHits, Shapes, Jobs
  <2> QED BY <2>2, <2>4, <2>5 DEF WeighedBacked, Open, Backed
<1>4. ASSUME NEW i \in DOMAIN hits, NEW r \in Resolutions, NEW allow \in BOOLEAN,
             resolveHit(i, r, allow)
      PROVE  HitsBacked' /\ WeighedBacked'
  <2>1. hits[i].run \in DOMAIN runs
    BY DEF HitsBacked
  <2> DEFINE d == [entry |-> hits[i].entry, resolution |-> r, day |-> day]
  <2>2. decided' = decided \cup {d} /\ d \in decided' /\ job' = job
    BY <1>4 DEF resolveHit
  <2>3. Open(hits'[i]) /\ Backed(hits[i])'
    BY <1>4, <2>1, <2>2, HitResolved DEF Open, Backed, Resolutions
  <2>4. \A j \in DOMAIN hits : j # i => Open(hits'[j]) /\ Backed(hits[j])'
    BY <1>4, <2>1, <2>2, HitResolved DEF HitsBacked, Open, Backed
  <2>5. DOMAIN hits' = DOMAIN hits /\ DOMAIN runs' = DOMAIN runs
        /\ \A j \in DOMAIN hits : hits'[j].run = hits[j].run
    BY <1>4, <2>1, HitResolved
  <2>6. HitsBacked'
    BY <2>3, <2>4, <2>5 DEF HitsBacked, Open
  <2>7. WeighedBacked'
    BY <2>2, BackedKept DEF WeighedBacked, Open
  <2> QED BY <2>6, <2>7
<1>5. CASE /\ UNCHANGED <<hits, runs, decided>>
           /\ job'.weighed = {} \/ job'.weighed = job.weighed
  BY <1>5 DEF HitsBacked, WeighedBacked, Open, Backed
<1>6. CASE MonitoringSweep
  BY <1>6, <1>5 DEF MonitoringSweep, Idle
<1>7. CASE AdHocScreening
  BY <1>7, <1>5 DEF AdHocScreening, Idle
<1>8. CASE Freeze
  BY <1>8, <1>5 DEF Freeze, Shapes, Jobs
<1>9. CASE CountCases
  BY <1>9, <1>5 DEF CountCases, Shapes, Jobs
<1>10. CASE OpenCase
  BY <1>10, <1>5, JobsOver DEF OpenCase
<1>11. CASE OtherCase
  BY <1>11, <1>5 DEF OtherCase
<1>12. CASE JobThrows
  BY <1>12, <1>5, JobsOver DEF JobThrows
<1>13. ASSUME NEW status \in {"APPROVED", "REJECTED_FINAL"}, DecideHold(status)
       PROVE  HitsBacked' /\ WeighedBacked'
  BY <1>13, <1>5 DEF DecideHold
<1>14. ASSUME NEW feed \in Feeds, ingestSource(feed) PROVE HitsBacked' /\ WeighedBacked'
  BY <1>14, <1>5 DEF ingestSource
<1>15. CASE NextDay
  BY <1>15, <1>5 DEF NextDay
<1>16. CASE UNCHANGED vars
  BY <1>16, <1>5 DEF vars
<1> QED
  BY <1>1, <1>2, <1>3, <1>4, <1>6, <1>7, <1>8, <1>9, <1>10, <1>11, <1>12, <1>13, <1>14,
     <1>15, <1>16 DEF Next
LEMMA NewestKept ==
  ASSUME IInv, [Next]_vars
  PROVE  OfNewestRun'
<1> USE DEF IInv
<1>0. runs \in Seq(Runs) /\ hits \in Seq(Hits)
  BY DEF Shapes
<1>1. CASE Search
  <2> DEFINE n == Len(runs')
             row == [status |-> "RUNNING", openHitCount |-> 0, new |-> 0,
                     trigger |-> job.trigger, check |-> "none"]
  <2>1. n > 0 /\ runs'[n] = row
    BY <1>0, <1>1 DEF Search
  <2>2. UNCHANGED hits /\ job' = [job EXCEPT !.stage = "weighed",
                                             !.weighed = {Weighed(e) : e \in search}]
    BY <1>1 DEF Search
  <2>3. job'.stage = "weighed" /\ job'.trigger = job.trigger
        /\ job'.weighed = {Weighed(e) : e \in search}
    BY <2>2 DEF Shapes, Jobs
  <2>4. \A e \in search : Weighed(e).entry = e /\ (Weighed(e).isNew => Rows(e) = {})
    BY WeighedIs DEF search, load
  <2>5. \A w \in job'.weighed :
          /\ w.isNew => Rows(w.entry)' = {}
          /\ \A x \in job'.weighed : x.entry = w.entry => x = w
    BY <2>2, <2>3, <2>4 DEF Rows
  <2>6. runs'[n].trigger = job.trigger /\ runs'[n].new = 0
    BY <2>1
  <2> HIDE DEF row
  <2> QED BY <2>1, <2>3, <2>5, <2>6 DEF OfNewestRun
<1>2. CASE CreateHits
  <2>1. /\ Len(runs) > 0 /\ Len(runs) \in Nat
        /\ \A w \in job.weighed : /\ w.isNew => Rows(w.entry) = {}
                                  /\ \A x \in job.weighed : x.entry = w.entry => x = w
    <3>1. job.stage = "weighed"
      BY <1>2 DEF CreateHits
    <3>2. Len(runs) \in Nat
      BY <1>0
    <3> QED BY <3>1, <3>2 DEF OfNewestRun
  <2>2. /\ hits' = hits \o NewRows /\ Len(runs') = Len(runs)
        /\ runs'[Len(runs)].new > 0 => \E w \in job.weighed : w.isNew
        /\ job' = IF runs'[Len(runs)].new > 0 /\ Monitored(job.trigger)
                  THEN [job EXCEPT !.stage = "freeze"] ELSE Idle
    BY <1>2, <2>1, HitsCreated
  <2>3. /\ NewRows \in Seq(Hits)
        /\ \A i \in DOMAIN NewRows : \E w \in job.weighed : NewRows[i] = Written(w)
        /\ \A w \in job.weighed : \E i \in DOMAIN NewRows : NewRows[i] = Written(w)
        /\ \A i, j \in DOMAIN NewRows : NewRows[i] = NewRows[j] => i = j
    BY RowsWritten
  <2>4. CASE job' = Idle
    BY <2>4, JobsOver DEF OfNewestRun
  <2>5. CASE job' # Idle
    <3>1. job'.stage = "freeze" /\ \E w \in job.weighed : w.isNew
      BY <2>2, <2>5 DEF Shapes, Jobs
    <3>2. PICK w \in job.weighed : w.isNew
      BY <3>1
    <3>3. PICK k \in DOMAIN NewRows : NewRows[k] = Written(w)
      BY <2>3
    <3> DEFINE i == Len(hits) + k
    <3>4. i \in DOMAIN hits' /\ hits'[i] = NewRows[k] /\ k \in Nat /\ Len(hits) \in Nat
      BY <1>0, <2>2, <2>3
    <3>5. hits'[i].run = Len(runs) /\ hits'[i].entry = w.entry
      BY <3>3, <3>4 DEF Written
    <3>6. ASSUME NEW j \in DOMAIN hits', hits'[j].entry = hits'[i].entry PROVE j >= i
      <4>1. j \notin DOMAIN hits
        <5>1. SUFFICES ASSUME j \in DOMAIN hits PROVE FALSE
          OBVIOUS
        <5>2. hits[j].entry = w.entry
          BY <1>0, <2>2, <2>3, <3>5, <3>6, <5>1
        <5> QED BY <2>1, <3>2, <5>1, <5>2 DEF Rows
      <4>2. /\ j - Len(hits) \in DOMAIN NewRows
            /\ hits'[j] = NewRows[j - Len(hits)]
            /\ j \in Nat
        BY <1>0, <2>2, <2>3, <4>1
      <4>3. PICK x \in job.weighed : NewRows[j - Len(hits)] = Written(x)
        BY <2>3, <4>2
      <4>4. x = w
        BY <2>1, <3>5, <3>6, <4>2, <4>3 DEF Written
      <4>5. j - Len(hits) = k
        BY <2>3, <3>3, <4>2, <4>3, <4>4
      <4> QED BY <3>4, <4>2, <4>5
    <3> HIDE DEF i
    <3> QED BY <2>1, <2>2, <3>1, <3>4, <3>5, <3>6 DEF OfNewestRun
  <2> QED BY <2>4, <2>5
<1>3. ASSUME NEW i \in DOMAIN hits, NEW r \in Resolutions, NEW allow \in BOOLEAN,
             resolveHit(i, r, allow)
      PROVE  OfNewestRun'
  <2>1. hits[i].run \in DOMAIN runs
    BY DEF HitsBacked
  <2>2. /\ DOMAIN hits' = DOMAIN hits /\ Len(runs') = Len(runs) /\ job' = job
        /\ \A j \in DOMAIN hits : /\ hits'[j].entry = hits[j].entry
                                  /\ hits'[j].run = hits[j].run
        /\ \A k \in DOMAIN runs : /\ runs'[k].new = runs[k].new
                                  /\ runs'[k].trigger = runs[k].trigger
    BY <1>3, <2>1, HitResolved DEF resolveHit
  <2>3. \A e : Rows(e)' = Rows(e)
    BY <2>2 DEF Rows
  <2>4. Len(runs) > 0 => Len(runs) \in DOMAIN runs
    BY <1>0
  <2>5. job.stage = "weighed" => OfNewestRun'
    BY <2>2, <2>3, <2>4 DEF OfNewestRun
  <2>6. job.stage # "weighed" => OfNewestRun'
    BY <2>2 DEF OfNewestRun
  <2> QED BY <2>5, <2>6
<1>4. CASE UNCHANGED <<hits, runs, job>>
  BY <1>4 DEF OfNewestRun, Rows
<1>5. CASE job'.stage \in {"idle", "queued"}
  BY <1>5 DEF OfNewestRun
<1>6. CASE /\ UNCHANGED runs /\ job.stage \in {"freeze", "count"}
           /\ job'.stage \in {"count", "case"}
  BY <1>6 DEF OfNewestRun
<1>7. CASE MonitoringSweep
  BY <1>7, <1>4, <1>5 DEF MonitoringSweep, Idle
<1>8. CASE AdHocScreening
  BY <1>8, <1>5 DEF AdHocScreening, Idle
<1>9. CASE SearchFails
  BY <1>9, <1>5, JobsOver DEF SearchFails
<1>10. CASE Freeze
  BY <1>10, <1>6 DEF Freeze, Shapes, Jobs
<1>11. CASE CountCases
  BY <1>11, <1>6 DEF CountCases, Shapes, Jobs
<1>12. CASE OpenCase
  BY <1>12, <1>5, JobsOver DEF OpenCase
<1>13. CASE OtherCase
  BY <1>13, <1>4 DEF OtherCase
<1>14. CASE JobThrows
  BY <1>14, <1>5, JobsOver DEF JobThrows
<1>15. ASSUME NEW status \in {"APPROVED", "REJECTED_FINAL"}, DecideHold(status)
       PROVE  OfNewestRun'
  BY <1>15, <1>4 DEF DecideHold
<1>16. ASSUME NEW feed \in Feeds, ingestSource(feed) PROVE OfNewestRun'
  BY <1>16, <1>4 DEF ingestSource
<1>17. CASE NextDay
  BY <1>17, <1>4 DEF NextDay
<1>18. CASE UNCHANGED vars
  BY <1>18, <1>4 DEF vars
<1> QED
  BY <1>1, <1>2, <1>3, <1>7, <1>8, <1>9, <1>10, <1>11, <1>12, <1>13, <1>14, <1>15, <1>16,
     <1>17, <1>18 DEF Next

LEMMA HandledKept ==
  ASSUME IInv, [Next]_vars
  PROVE  Handled'
<1> USE DEF IInv
<1>0. /\ runs \in Seq(Runs) /\ hits \in Seq(Hits) /\ cases \in Seq(Nat) /\ job \in Jobs
      /\ trouble \in Nat /\ trouble <= MaxTrouble /\ MaxTrouble \in Nat
  BY ScreeningAssumption DEF Shapes, ScreeningAssumption
<1>1. CASE trouble' < trouble
  BY <1>0, <1>1 DEF Handled
<1>2. CASE UNCHANGED <<runs, reviewStatus, job, cases, lifted, trouble>>
  BY <1>2 DEF Handled, Found
<1>3. CASE /\ UNCHANGED <<runs, reviewStatus, cases, lifted, trouble>>
           /\ job = Idle /\ job'.stage \in {"idle", "queued"}
  <2>1. job.stage = "idle"
    BY <1>3 DEF Idle
  <2> QED BY <1>3, <2>1 DEF Handled, Found
<1>4. CASE MonitoringSweep
  BY <1>4, <1>2, <1>3 DEF MonitoringSweep, Idle
<1>5. CASE AdHocScreening
  BY <1>5, <1>3 DEF AdHocScreening, Idle
<1>6. CASE Search
  <2>1. /\ \A r \in DOMAIN runs : runs'[r] = runs[r]
        /\ \A r \in DOMAIN runs' : r \in DOMAIN runs \/ runs'[r].new = 0
    BY <1>0, <1>6 DEF Search
  <2>2. job.stage = "queued" /\ job'.stage = "weighed"
        /\ UNCHANGED <<reviewStatus, cases, lifted, trouble>>
    BY <1>0, <1>6 DEF Search, Jobs
  <2> QED BY <2>1, <2>2 DEF Handled, Found
<1>7. CASE SearchFails
  BY <1>0, <1>7, <1>1 DEF SearchFails, Troubled
<1>8. CASE CreateHits
  <2>1. /\ Len(runs) > 0 /\ job.stage = "weighed" /\ Len(runs) \in DOMAIN runs
        /\ runs[Len(runs)].new = 0 /\ job.trigger = runs[Len(runs)].trigger
        /\ UNCHANGED <<reviewStatus, cases, lifted, trouble>>
    BY <1>0, <1>8 DEF CreateHits, OfNewestRun
  <2>2. /\ DOMAIN runs' = DOMAIN runs /\ Len(runs') = Len(runs)
        /\ \A k \in DOMAIN runs : k # Len(runs) => runs'[k] = runs[k]
        /\ runs'[Len(runs)].trigger = job.trigger
        /\ job' = IF runs'[Len(runs)].new > 0 /\ Monitored(job.trigger)
                  THEN [job EXCEPT !.stage = "freeze"] ELSE Idle
    BY <1>8, <2>1, HitsCreated
  <2>3. Found(Len(runs))' => job'.stage = "freeze"
    BY <1>0, <2>1, <2>2 DEF Found, Jobs
  <2>4. job'.stage # "case"
    BY <1>0, <2>2 DEF Idle, Jobs
  <2>5. \A r \in DOMAIN runs : r # Len(runs) => (Found(r)' = Found(r))
    BY <2>2 DEF Found
  <2> QED BY <2>1, <2>2, <2>3, <2>4, <2>5 DEF Handled
<1>9. CASE Freeze
  <2>1. job.stage = "freeze" /\ job'.stage = "count" /\ UNCHANGED <<runs, cases, trouble>>
    BY <1>0, <1>9 DEF Freeze, Jobs
  <2>2. reviewStatus' # "APPROVED"
    BY <1>9 DEF Freeze
  <2> QED BY <2>1, <2>2 DEF Handled, Found
<1>10. CASE CountCases
  <2>1. /\ job.stage = "count" /\ job'.stage = "case" /\ job'.count = Len(cases)
        /\ UNCHANGED <<runs, reviewStatus, cases, lifted, trouble>>
    BY <1>0, <1>10 DEF CountCases, Jobs
  <2> QED BY <2>1 DEF Handled, Found
<1>11. CASE OpenCase
  <2>1. SUFFICES ASSUME trouble = MaxTrouble PROVE Handled'
    BY <1>11 DEF OpenCase, Handled
  <2>2. /\ job.stage = "case" /\ job.count = Len(cases) /\ job'.stage = "idle"
        /\ cases' = Append(cases, Len(runs))
        /\ UNCHANGED <<runs, reviewStatus, lifted, trouble>>
    BY <1>11, <2>1, JobsOver DEF OpenCase, Handled
  <2>3. \A r \in DOMAIN runs :
          (r = Len(runs) \/ \E c \in DOMAIN cases : cases[c] = r)
             => \E c \in DOMAIN cases' : cases'[c] = r
    <3>1. /\ Len(cases) + 1 \in DOMAIN cases' /\ cases'[Len(cases) + 1] = Len(runs)
          /\ \A c \in DOMAIN cases : c \in DOMAIN cases' /\ cases'[c] = cases[c]
      BY <1>0, <2>2
    <3> QED BY <3>1
  <2> QED BY <2>1, <2>2, <2>3 DEF Handled, Found
<1>12. CASE OtherCase
  BY <1>0, <1>12, <1>1 DEF OtherCase, Troubled
<1>13. CASE JobThrows
  BY <1>0, <1>13, <1>1 DEF JobThrows, Troubled
<1>14. ASSUME NEW i \in DOMAIN hits, NEW r \in Resolutions, NEW allow \in BOOLEAN,
              resolveHit(i, r, allow)
       PROVE  Handled'
  <2>1. hits[i].run \in DOMAIN runs
    BY DEF HitsBacked
  <2>2. /\ DOMAIN runs' = DOMAIN runs /\ Len(runs') = Len(runs)
        /\ \A k \in DOMAIN runs : /\ runs'[k].new = runs[k].new
                                  /\ runs'[k].trigger = runs[k].trigger
        /\ UNCHANGED <<reviewStatus, job, cases, lifted, trouble>>
    BY <1>14, <2>1, HitResolved DEF resolveHit
  <2> QED BY <2>2 DEF Handled, Found
<1>15. ASSUME NEW status \in {"APPROVED", "REJECTED_FINAL"}, DecideHold(status)
       PROVE  Handled'
  <2>1. UNCHANGED <<runs, job, cases, trouble>> /\ reviewStatus' = status
    BY <1>15 DEF DecideHold
  <2>2. reviewStatus' = "APPROVED" => lifted'
    BY <1>15 DEF DecideHold
  <2> QED BY <2>1, <2>2 DEF Handled, Found
<1>16. ASSUME NEW feed \in Feeds, ingestSource(feed) PROVE Handled'
  BY <1>16, <1>2 DEF ingestSource
<1>17. CASE NextDay
  BY <1>17, <1>2 DEF NextDay
<1>18. CASE UNCHANGED vars
  BY <1>18, <1>2 DEF vars
<1> QED
  BY <1>4, <1>5, <1>6, <1>7, <1>8, <1>9, <1>10, <1>11, <1>12, <1>13, <1>14, <1>15, <1>16,
     <1>17, <1>18 DEF Next
----------------------------------------------------------------------------
(* What follows.                                                           *)

\* The inductive invariant holds in every reachable state.
THEOREM ScreeningInvariant == Spec => []IInv
<1>1. Init => IInv
  BY InitHolds
<1>2. IInv /\ [Next]_vars => IInv'
  BY ShapesKept, BackingKept, NewestKept, HandledKept DEF IInv
<1> QED BY <1>1, <1>2, PTL DEF Spec

\* Types: every hit is on a listed person, of a run that is there, and has a
\* resolution just when it is not open (worker/src/screening.ts).
THEOREM TypesHold == Spec => []TypeOK
<1>1. IInv => TypeOK
  <2> SUFFICES ASSUME IInv PROVE TypeOK
    OBVIOUS
  <2>1. job.stage \in Stages /\ job.attempt \in 0 .. MaxAttempts
    BY DEF IInv, Shapes, Jobs
  <2>2. \A i \in DOMAIN hits : hits[i] \in Hits
    BY DEF IInv, Shapes
  <2>3. \A i \in DOMAIN hits : hits[i].entry \in Entries
                               /\ hits[i].status \in {"OPEN", "RESOLVED"}
    BY <2>2 DEF Hits
  <2> QED BY <2>1, <2>3 DEF IInv, Shapes, HitsBacked, Open, Stages, TypeOK
<1> QED BY <1>1, ScreeningInvariant, PTL

\* No hit is settled by itself: through any number of runs, retries and amendments
\* of the lists, an analyst gave the same entry the resolution the hit carries.
THEOREM SettledHolds == Spec => []SettledByAnalyst
<1>1. IInv => SettledByAnalyst
  BY DEF IInv, HitsBacked, Backed, SettledByAnalyst
<1> QED BY <1>1, ScreeningInvariant, PTL

\* A match nobody has decided on is in the queue.
THEOREM UndecidedHolds == Spec => []UndecidedIsOpen
<1>1. IInv => UndecidedIsOpen
  <2> SUFFICES ASSUME IInv, NEW e \in Entries, Rows(e) # {},
                      \A d \in decided : d.entry # e
               PROVE  hits[Max(Rows(e))].status = "OPEN"
    BY DEF UndecidedIsOpen
  <2>1. Len(hits) \in Nat /\ Rows(e) \in SUBSET (1 .. Len(hits))
    BY DEF Rows, IInv, Shapes
  <2> DEFINE i == Max(Rows(e))
  <2>2. i \in Rows(e)
    BY <2>1, MaxOfRows
  <2>3. i \in DOMAIN hits /\ hits[i].entry = e /\ hits[i] \in Hits
    BY <2>2 DEF Rows, IInv, Shapes
  <2>4. hits[i].status # "RESOLVED"
    BY <2>3 DEF IInv, HitsBacked, Backed
  <2> QED BY <2>3, <2>4 DEF Hits
<1> QED BY <1>1, ScreeningInvariant, PTL

\* As long as no call fails, somebody new on a monitored customer has a case, and
\* the customer is on hold unless a person lifted it (handleMonitoringHit).
THEOREM LoudHolds == Spec => []NewMatchIsLoud
<1>1. IInv => NewMatchIsLoud
  BY DEF IInv, Handled, Found, Idle, NewMatchIsLoud
<1> QED BY <1>1, ScreeningInvariant, PTL

\* Monitoring freezes a customer only for an entry they had never matched before:
\* every step that puts an approved customer on hold has, in the newest run, a hit
\* on an entry with no earlier one.
THEOREM FrozenHolds == Spec => FrozenForSomebodyNew
<1> DEFINE Somebody == \E i \in DOMAIN hits :
                         /\ hits[i].run = Len(runs)
                         /\ \A j \in DOMAIN hits : hits[j].entry = hits[i].entry => j >= i
<1>1. ASSUME IInv, [Next]_vars, reviewStatus = "APPROVED", reviewStatus' = "ON_HOLD"
      PROVE  Somebody
  <2>1. CASE Freeze
    BY <1>1, <2>1 DEF Freeze, IInv, OfNewestRun
  <2>2. CASE reviewStatus' = reviewStatus
    BY <1>1, <2>2
  <2>3. ASSUME NEW status \in {"APPROVED", "REJECTED_FINAL"}, DecideHold(status)
        PROVE  Somebody
    BY <1>1, <2>3 DEF DecideHold
  <2>4. CASE Next
    BY <2>1, <2>2, <2>3, <2>4 DEF Next, MonitoringSweep, AdHocScreening, Search,
       SearchFails, CreateHits, CountCases, OpenCase, OtherCase, JobThrows, resolveHit,
       ingestSource, NextDay
  <2>5. CASE UNCHANGED vars
    BY <2>2, <2>5 DEF vars
  <2> QED BY <1>1, <2>4, <2>5
<1>2. IInv /\ [Next]_vars
        => [reviewStatus = "APPROVED" /\ reviewStatus' = "ON_HOLD" => Somebody]_vars
  BY <1>1
<1> QED BY <1>2, ScreeningInvariant, PTL DEF Spec, FrozenForSomebodyNew

\* Only a whole feed takes a listed person out of the corpus that is searched: no
\* day's synchronisation leaves fewer active entries than a feed must have
\* (worker/src/watchlist/ingest.ts, "would blind screening").
THEOREM BlindedNever == Spec => NeverBlinded
<1> DEFINE Whole == \A e \in Entries : corpus[e].active /\ ~corpus'[e].active =>
                      Cardinality({f \in Entries : corpus'[f].active}) >= MinFeed
<1>1. ASSUME [Next]_vars PROVE Whole
  <2>1. CASE corpus' = corpus
    BY <2>1
  <2>2. ASSUME NEW feed \in Feeds, ingestSource(feed), corpus' # corpus PROVE Whole
    <3> DEFINE active == {f \in Entries : corpus'[f].active}
    <3>1. ~(Cardinality(feed.has) < MinFeed) /\ feed.has \subseteq Entries
      BY <2>2, ScreeningAssumption DEF ingestSource, ScreeningAssumption
    <3>2. \A f \in feed.has : f \in Entries /\ corpus'[f].active = TRUE
      BY <2>2, <3>1 DEF ingestSource
    <3>3. feed.has \subseteq active /\ active \subseteq Entries
      BY <3>2
    <3>4. IsFiniteSet(active)
      BY <3>3, FS_Subset, ScreeningAssumption DEF ScreeningAssumption
    <3>5. IsFiniteSet(feed.has) /\ Cardinality(feed.has) <= Cardinality(active)
      BY <3>3, <3>4, FS_Subset
    <3>6. Cardinality(feed.has) \in Nat /\ Cardinality(active) \in Nat /\ MinFeed \in Nat
      BY <3>4, <3>5, FS_CardinalityType, ScreeningAssumption DEF ScreeningAssumption
    <3>7. Cardinality(active) >= MinFeed
      BY <3>1, <3>5, <3>6
    <3> QED BY <3>7
  <2>3. CASE Next
    BY <2>1, <2>2, <2>3 DEF Next, MonitoringSweep, AdHocScreening, Search, SearchFails,
       CreateHits, Freeze, CountCases, OpenCase, OtherCase, JobThrows, resolveHit,
       DecideHold, NextDay
  <2>4. CASE UNCHANGED vars
    BY <2>1, <2>4 DEF vars
  <2> QED BY <1>1, <2>3, <2>4
<1>2. [Next]_vars => [Whole]_vars
  BY <1>1
<1> QED BY <1>2, PTL DEF Spec, NeverBlinded
=============================================================================
