-------------------------- MODULE AkashStatsProofs --------------------------
(* Every property of AkashStats holds for any leases, providers, chains,      *)
(* group size and number of failures. The invariant relates what the caches   *)
(* hold to the tables after the last block written, and the rows to both.     *)
(*                                                                            *)
(* The tables are functions of the chain and a height; the chain never        *)
(* changes, so they are written here with both as arguments.                  *)
EXTENDS AkashStats, FiniteSetTheorems, TLAPS

CreatedIn(c, h) == {l \in Leases : c.lease[l].created \in 1..h}
ClosedIn(c, h) == {l \in Leases : c.lease[l].closed \in 1..h}
RegisteredIn(c, h) == {p \in Providers : c.provider[p].created \in 1..h}
DeletedIn(c, h) == {p \in Providers : c.provider[p].deleted \in 1..h}
PredictedIn(c, l, h) ==
  LET script == c.lease[l]
  IN IF script.changed \in 1..h THEN script.repredicted ELSE script.predicted

(* The active leases after block h whose prediction lies above a height.      *)
ActiveIn(c, h, from) == {l \in CreatedIn(c, h) \ ClosedIn(c, h) : PredictedIn(c, l, h) > from}

(* The block the tables have got to, and the last one with a row.             *)
Reached == IF pc = "idle" THEN committed ELSE at
Written == IF pc = "after" THEN at - 1 ELSE Reached

(* Where a run stands.                                                        *)
RunInv ==
  /\ committed <= Written /\ Reached <= top
  /\ DOMAIN rows = 1..Written
  /\ pc # "idle" => ready /\ at <= maxDbHeight /\ maxDbHeight <= top
  /\ pc = "after" => at >= 1

(* The cached sets may differ from the tables in the leases that run out at   *)
(* the next block, and every height at which a lease runs out is predicted.   *)
CacheInv ==
  ready /\ ~suspect =>
    /\ ActiveIn(chain, Written, Written + 1) \subseteq counted
    /\ counted \subseteq ActiveIn(chain, Written, Written)
    /\ \A l \in CreatedIn(chain, Written) :
         PredictedIn(chain, l, Written) > Written => PredictedIn(chain, l, Written) \in predictions

(* The counters kept in memory.                                               *)
LeaseCountInv == ready => leaseCount >= Cardinality(CreatedIn(chain, Reached))

ProviderCountInv ==
  ready /\ ~suspect =>
    /\ since <= committed
    /\ providerCount = Cardinality(RegisteredIn(chain, Reached) \ DeletedIn(chain, Reached))
                       + Cardinality(DeletedIn(chain, since))

(* The rows, those of the open transaction included.                          *)
RowInv(h) ==
  /\ rows[h].total >= Cardinality(CreatedIn(chain, h))
  /\ rows[h].spent = rows[h].active + (IF h = 1 THEN 0 ELSE rows[h - 1].spent)
  /\ ~rows[h].suspect =>
       /\ rows[h].active = Cardinality(ActiveIn(chain, h, h))
       /\ rows[h].providers = Cardinality(RegisteredIn(chain, h) \ DeletedIn(chain, h))
                              + Cardinality(DeletedIn(chain, rows[h].since))

RowsInv == \A h \in 1..Written : RowInv(h)

IInv ==
  TypeOK /\ RunInv /\ CacheInv /\ LeaseCountInv /\ ProviderCountInv /\ RowsInv

------------------------------------------------------------------------------
(* The operators of AkashStats are those above for the chain indexed.         *)
LEMMA TablesOfChain ==
  \A h : /\ CreatedBy(h) = CreatedIn(chain, h)
         /\ ClosedBy(h) = ClosedIn(chain, h)
         /\ RegisteredBy(h) = RegisteredIn(chain, h)
         /\ DeletedBy(h) = DeletedIn(chain, h)
         /\ \A l : Predicted(l, h) = PredictedIn(chain, l, h)
         /\ \A from : TotalResources(h, from) = ActiveIn(chain, h, from)
BY DEF CreatedBy, CreatedIn, ClosedBy, ClosedIn, RegisteredBy, RegisteredIn, DeletedBy,
       DeletedIn, Predicted, PredictedIn, TotalResources, ActiveIn

(* Tables are finite, so their sizes are numbers.                             *)
LEMMA FiniteTables ==
  /\ \A S \in SUBSET Leases : IsFiniteSet(S) /\ Cardinality(S) \in Nat
  /\ \A S \in SUBSET Providers : IsFiniteSet(S) /\ Cardinality(S) \in Nat
<1>1. ASSUME NEW T, IsFiniteSet(T), NEW S \in SUBSET T
      PROVE  IsFiniteSet(S) /\ Cardinality(S) \in Nat
  BY <1>1, FS_Subset, FS_CardinalityType
<1>2. QED
  BY <1>1, ConstantsAssumption

(* A part of a finite set and the rest add up to it.                          *)
LEMMA PartAndRest ==
  ASSUME NEW S, IsFiniteSet(S), NEW T \in SUBSET S
  PROVE  Cardinality(S) = Cardinality(T) + Cardinality(S \ T)
<1>1. IsFiniteSet(T) /\ Cardinality(T) \in Nat /\ Cardinality(S) \in Nat
  BY FS_Subset, FS_CardinalityType
<1>2. S \cap T = T
  OBVIOUS
<1>3. Cardinality(S \ T) = Cardinality(S) - Cardinality(S \cap T)
  BY FS_Difference
<1>4. QED
  BY <1>1, <1>2, <1>3

(* The tables only grow.                                                      *)
LEMMA TablesGrow ==
  ASSUME NEW c, NEW g \in Nat, NEW h \in Nat, g <= h
  PROVE  /\ CreatedIn(c, g) \subseteq CreatedIn(c, h)
         /\ RegisteredIn(c, g) \subseteq RegisteredIn(c, h)
         /\ DeletedIn(c, g) \subseteq DeletedIn(c, h)
BY DEF CreatedIn, RegisteredIn, DeletedIn

(* A provider is deleted after it was registered.                             *)
LEMMA DeletedWereRegistered ==
  ASSUME NEW c \in Chain, NEW h \in Nat
  PROVE  DeletedIn(c, h) \subseteq RegisteredIn(c, h)
<1>1. ASSUME NEW p \in Providers, c.provider[p].deleted \in 1..h
      PROVE  c.provider[p].created \in 1..h
  <2>1. c.provider[p] \in ProviderScript
    BY ConstantsAssumption DEF Chain
  <2>2. c.provider[p].deleted # NoHeight
    BY <1>1 DEF NoHeight
  <2>3. c.provider[p].created \in 1..c.provider[p].deleted
    BY <2>1, <2>2 DEF ProviderScript
  <2>4. QED
    BY <1>1, <2>3
<1>2. QED
  BY <1>1 DEF DeletedIn, RegisteredIn

(* What a row of providers is worth when a process starts to count.           *)
LEMMA CountAtStart ==
  ASSUME NEW c \in Chain, NEW h \in Nat
  PROVE  Cardinality(RegisteredIn(c, h))
           = Cardinality(RegisteredIn(c, h) \ DeletedIn(c, h)) + Cardinality(DeletedIn(c, h))
<1> DEFINE R == RegisteredIn(c, h)
           D == DeletedIn(c, h)
<1>1. R \in SUBSET Providers /\ D \in SUBSET R
  BY DeletedWereRegistered DEF RegisteredIn
<1>2. IsFiniteSet(R) /\ Cardinality(D) \in Nat /\ Cardinality(R \ D) \in Nat
  BY <1>1, FiniteTables
<1> HIDE DEF R, D
<1>3. Cardinality(R) = Cardinality(D) + Cardinality(R \ D)
  BY <1>1, <1>2, PartAndRest
<1>4. QED
  BY <1>2, <1>3 DEF R, D

(* Counting the registrations and deletions of a block keeps the count right. *)
LEMMA CountAtBlock ==
  ASSUME NEW c \in Chain, NEW g \in Nat, NEW h \in Nat, g <= h
  PROVE  Cardinality(RegisteredIn(c, h) \ DeletedIn(c, h))
           = Cardinality(RegisteredIn(c, g) \ DeletedIn(c, g))
             + Cardinality(RegisteredIn(c, h) \ RegisteredIn(c, g))
             - Cardinality(DeletedIn(c, h) \ DeletedIn(c, g))
<1> DEFINE R(n) == RegisteredIn(c, n)
           D(n) == DeletedIn(c, n)
<1>1. \A n : R(n) \in SUBSET Providers /\ D(n) \in SUBSET Providers
  BY DEF RegisteredIn, DeletedIn
<1>2. R(g) \subseteq R(h) /\ D(g) \subseteq D(h) /\ D(g) \subseteq R(g) /\ D(h) \subseteq R(h)
  BY TablesGrow, DeletedWereRegistered
<1>3. \A S \in SUBSET Providers : IsFiniteSet(S) /\ Cardinality(S) \in Nat
  BY FiniteTables
<1> HIDE DEF R, D
<1>4. Cardinality(R(h)) = Cardinality(R(g)) + Cardinality(R(h) \ R(g))
  BY <1>1, <1>2, <1>3, PartAndRest
<1>5. Cardinality(D(h)) = Cardinality(D(g)) + Cardinality(D(h) \ D(g))
  BY <1>1, <1>2, <1>3, PartAndRest
<1>6. Cardinality(R(g)) = Cardinality(D(g)) + Cardinality(R(g) \ D(g))
  BY <1>1, <1>2, <1>3, PartAndRest
<1>7. Cardinality(R(h)) = Cardinality(D(h)) + Cardinality(R(h) \ D(h))
  BY <1>1, <1>2, <1>3, PartAndRest
<1>8. /\ Cardinality(R(g)) \in Nat /\ Cardinality(R(h)) \in Nat
      /\ Cardinality(D(g)) \in Nat /\ Cardinality(D(h)) \in Nat
      /\ Cardinality(R(h) \ R(g)) \in Nat /\ Cardinality(D(h) \ D(g)) \in Nat
      /\ Cardinality(R(g) \ D(g)) \in Nat /\ Cardinality(R(h) \ D(h)) \in Nat
  BY <1>1, <1>3
<1>9. Cardinality(R(h) \ D(h))
        = Cardinality(R(g) \ D(g)) + Cardinality(R(h) \ R(g)) - Cardinality(D(h) \ D(g))
  BY <1>4, <1>5, <1>6, <1>7, <1>8
<1>10. QED
  BY <1>9 DEF R, D

(* A block none of whose messages refresh the caches changes no table.        *)
LEMMA QuietBlock ==
  ASSUME NEW c \in Chain, NEW h \in Nat \ {0},
         \A l \in Leases : h \notin {c.lease[l].created, c.lease[l].changed, c.lease[l].closed}
  PROVE  /\ CreatedIn(c, h) = CreatedIn(c, h - 1)
         /\ ClosedIn(c, h) = ClosedIn(c, h - 1)
         /\ \A l \in Leases : PredictedIn(c, l, h) = PredictedIn(c, l, h - 1)
<1>1. \A l \in Leases : /\ c.lease[l].created \in Nat /\ c.lease[l].changed \in Nat
                        /\ c.lease[l].closed \in Nat
  BY ConstantsAssumption DEF Chain, LeaseScript, MaybeHeight, Heights, NoHeight
<1>2. ASSUME NEW n \in Nat, n # h PROVE (n \in 1..h) <=> (n \in 1..(h - 1))
  BY <1>2
<1>3. \A l \in Leases :
        /\ (c.lease[l].created \in 1..h) <=> (c.lease[l].created \in 1..(h - 1))
        /\ (c.lease[l].changed \in 1..h) <=> (c.lease[l].changed \in 1..(h - 1))
        /\ (c.lease[l].closed \in 1..h) <=> (c.lease[l].closed \in 1..(h - 1))
  BY <1>1, <1>2
<1>4. QED
  BY <1>3 DEF CreatedIn, ClosedIn, PredictedIn

(* Predictions are heights, and what is active is a set of leases.            *)
LEMMA TableTypes ==
  ASSUME NEW c \in Chain, NEW h
  PROVE  /\ \A l \in Leases : PredictedIn(c, l, h) \in Nat
         /\ CreatedIn(c, h) \in SUBSET Leases
         /\ \A from : ActiveIn(c, h, from) \in SUBSET Leases
         /\ RegisteredIn(c, h) \in SUBSET Providers /\ DeletedIn(c, h) \in SUBSET Providers
<1>1. \A l \in Leases : c.lease[l] \in LeaseScript
  BY ConstantsAssumption DEF Chain
<1>2. QED
  BY <1>1 DEF LeaseScript, PredictedIn, CreatedIn, ActiveIn, RegisteredIn, DeletedIn

(* The counts of the tables are numbers.                                      *)
LEMMA CountTypes ==
  ASSUME NEW c \in Chain, NEW g, NEW h
  PROVE  /\ Cardinality(CreatedIn(c, h)) \in Nat
         /\ Cardinality(CreatedIn(c, h) \ CreatedIn(c, g)) \in Nat
         /\ Cardinality(RegisteredIn(c, h)) \in Nat
         /\ Cardinality(RegisteredIn(c, h) \ RegisteredIn(c, g)) \in Nat
         /\ Cardinality(RegisteredIn(c, h) \ DeletedIn(c, h)) \in Nat
         /\ Cardinality(DeletedIn(c, h)) \in Nat
         /\ Cardinality(DeletedIn(c, h) \ DeletedIn(c, g)) \in Nat
BY TableTypes, FiniteTables

(* The leases created up to a block are those up to an earlier one and more.  *)
LEMMA LeasesAtBlock ==
  ASSUME NEW c \in Chain, NEW g \in Nat, NEW h \in Nat, g <= h
  PROVE  Cardinality(CreatedIn(c, h))
           = Cardinality(CreatedIn(c, g)) + Cardinality(CreatedIn(c, h) \ CreatedIn(c, g))
<1>1. CreatedIn(c, g) \in SUBSET CreatedIn(c, h) /\ IsFiniteSet(CreatedIn(c, h))
  BY TablesGrow, TableTypes, FiniteTables
<1>2. QED
  BY <1>1, PartAndRest

------------------------------------------------------------------------------
(* The invariant holds at the start: nothing is written, nothing is cached.   *)
LEMMA InitInv == Init => IInv
<1> SUFFICES ASSUME Init PROVE IInv
  OBVIOUS
<1> USE ConstantsAssumption DEF Init
<1>1. Reached = 0 /\ Written = 0 /\ 1..0 = {}
  BY DEF Reached, Written
<1>2. TypeOK
  <2>1. rows \in [1..0 -> Row]
    BY <1>1
  <2>2. top \in Heights /\ committed \in 0..top /\ at \in 0..MaxHeight
        /\ first \in Nat /\ maxDbHeight \in 0..MaxHeight /\ faults \in 0..MaxFaults
    BY DEF Heights
  <2>3. chain \in Chain /\ leaseCount \in Nat /\ providerCount \in Int /\ since \in 0..committed
    OBVIOUS
  <2>4. \E n \in committed..top : rows \in [1..n -> Row]
    BY <2>1
  <2>5. QED
    BY <2>2, <2>3, <2>4 DEF TypeOK
<1>3. RunInv
  BY <1>1 DEF RunInv, Heights
<1>4. RowsInv
  BY <1>1 DEF RowsInv
<1>5. QED
  BY <1>2, <1>3, <1>4 DEF IInv, CacheInv, LeaseCountInv, ProviderCountInv

(* Types of what the steps below use.                                         *)
LEMMA IInvTypes ==
  ASSUME IInv
  PROVE  /\ chain \in Chain /\ top \in Nat /\ committed \in Nat /\ at \in Nat
         /\ Reached \in Nat /\ Written \in Nat /\ Written <= top /\ top <= MaxHeight
         /\ committed <= Reached /\ Written <= Reached
         /\ rows \in [1..Written -> Row]
<1> USE ConstantsAssumption DEF IInv
<1>1. chain \in Chain /\ top \in 1..MaxHeight /\ committed \in 0..top /\ at \in 0..MaxHeight
  BY DEF TypeOK, Heights
<1>2. Reached \in Nat /\ Written \in Nat /\ Written <= Reached /\ committed <= Reached
  BY <1>1 DEF RunInv, Reached, Written
<1>3. Reached <= top /\ DOMAIN rows = 1..Written
  BY DEF RunInv
<1>4. rows \in [1..Written -> Row]
  <2>1. PICK n \in committed..top : rows \in [1..n -> Row]
    BY DEF TypeOK
  <2>2. QED
    BY <1>3, <2>1
<1>5. QED
  BY <1>1, <1>2, <1>3, <1>4

(* The first block of a run, and the caches read from the tables.             *)
LEMMA StartRunStep == ASSUME IInv, StartRun PROVE IInv'
<1> USE IInvTypes DEF StartRun
<1>1. /\ Reached = committed /\ Written = committed
      /\ Reached' = committed /\ Written' = committed /\ at' = committed
  BY DEF Reached, Written, FirstUnprocessed
<1>2. ASSUME ~ready
      PROVE  /\ counted' = ActiveIn(chain, committed, committed + 1)
             /\ predictions' = {PredictedIn(chain, l, committed) : l \in CreatedIn(chain, committed)}
                                \ (0..committed)
             /\ leaseCount' = Cardinality(CreatedIn(chain, committed))
             /\ providerCount' = Cardinality(RegisteredIn(chain, committed))
             /\ since' = committed
  BY <1>2, TablesOfChain DEF FirstUnprocessed, FuturePredictions, LeaseCount, ProviderCount
<1>3. ASSUME ready
      PROVE  UNCHANGED <<leaseCount, providerCount, counted, predictions, since>>
  BY <1>3
<1>4. TypeOK'
  <2>1. Cardinality(CreatedIn(chain, committed)) \in Nat
        /\ Cardinality(RegisteredIn(chain, committed)) \in Nat
    BY CountTypes
  <2>2. leaseCount' \in Nat /\ providerCount' \in Int /\ since' \in 0..committed
    BY SMTT(30), <1>2, <1>3, <2>1 DEF IInv, TypeOK
  <2>3. counted' \subseteq Leases /\ predictions' \subseteq Nat
    BY <1>2, <1>3, TableTypes DEF IInv, TypeOK
  <2>4. at' \in 0..MaxHeight /\ first' \in Nat /\ maxDbHeight' \in 0..MaxHeight
    BY <1>1, ConstantsAssumption DEF IInv, TypeOK, FirstUnprocessed, Heights
  <2>5. UNCHANGED <<chain, top, rows, committed, suspect, faults>>
        /\ pc' = "messages" /\ ready' = TRUE
    OBVIOUS
  <2>6. QED
    BY ONLY IInv, <2>2, <2>3, <2>4, <2>5 DEF IInv, TypeOK
<1>5. RunInv'
  BY <1>1 DEF IInv, RunInv
<1>6. CacheInv'
  <2>1. CASE ready
    BY <2>1, <1>1, <1>3 DEF IInv, CacheInv
  <2>2. CASE ~ready
    <3>1. \A l \in CreatedIn(chain, committed) :
            PredictedIn(chain, l, committed) > committed
              => PredictedIn(chain, l, committed) \in predictions'
      BY <2>2, <1>2, TableTypes
    <3>2. counted' \subseteq ActiveIn(chain, committed, committed)
      BY <2>2, <1>2, TableTypes DEF ActiveIn, CreatedIn
    <3>3. QED
      BY <3>1, <3>2, <2>2, <1>1, <1>2 DEF CacheInv
  <2>3. QED
    BY <2>1, <2>2
<1>7. LeaseCountInv'
  <2>1. CASE ready
    BY <2>1, <1>1, <1>3 DEF IInv, LeaseCountInv
  <2>2. CASE ~ready
    <3>1. /\ leaseCount' = Cardinality(CreatedIn(chain, committed))
          /\ Cardinality(CreatedIn(chain, committed)) \in Nat
          /\ Reached' = committed /\ chain' = chain
      BY <2>2, <1>1, <1>2, CountTypes
    <3>2. QED
      BY ONLY <3>1 DEF LeaseCountInv
  <2>3. QED
    BY <2>1, <2>2
<1>8. ProviderCountInv'
  <2>1. CASE ready
    BY <2>1, <1>1, <1>3 DEF IInv, ProviderCountInv
  <2>2. CASE ~ready
    BY <2>2, <1>1, <1>2, CountAtStart DEF ProviderCountInv
  <2>3. QED
    BY <2>1, <2>2
<1>9. RowsInv'
  BY <1>1 DEF IInv, RowsInv, RowInv
<1>10. QED
  BY <1>4, <1>5, <1>6, <1>7, <1>8, <1>9 DEF IInv

(* The messages of a block: the counters follow the tables.                   *)
LEMMA MessagesStep == ASSUME IInv, Messages PROVE IInv'
<1> DEFINE h == at + 1
<1> USE IInvTypes, ConstantsAssumption DEF Messages
<1>1. /\ Reached = at /\ Written = at /\ Reached' = h /\ Written' = at
      /\ at' = h /\ pc' = "after" /\ ready
  BY DEF Reached, Written, IInv, RunInv
<1>2. h <= maxDbHeight /\ h <= top /\ h <= MaxHeight
  <2>1. maxDbHeight \in Nat /\ first \in Nat /\ maxDbHeight <= top /\ top <= MaxHeight
    BY DEF IInv, TypeOK, RunInv, Heights
  <2>2. LastOfGroup <= maxDbHeight
    BY <2>1 DEF LastOfGroup, Lower
  <2>3. LastOfGroup \in Nat
    BY <2>1 DEF LastOfGroup, Lower
  <2>4. QED
    BY <2>1, <2>2, <2>3
<1>3. leaseCount' = leaseCount + Cardinality(CreatedIn(chain, h) \ CreatedIn(chain, at))
  BY TablesOfChain
<1>4. providerCount' = providerCount
                       + Cardinality(RegisteredIn(chain, h) \ RegisteredIn(chain, at))
                       - Cardinality(DeletedIn(chain, h) \ DeletedIn(chain, at))
  BY TablesOfChain
<1>5. leaseCount \in Nat /\ providerCount \in Int /\ h \in Nat /\ at <= h
  BY DEF IInv, TypeOK
<1>6. /\ Cardinality(CreatedIn(chain, at)) \in Nat
      /\ Cardinality(CreatedIn(chain, h) \ CreatedIn(chain, at)) \in Nat
      /\ Cardinality(RegisteredIn(chain, h) \ RegisteredIn(chain, at)) \in Nat
      /\ Cardinality(DeletedIn(chain, h) \ DeletedIn(chain, at)) \in Nat
      /\ Cardinality(RegisteredIn(chain, at) \ DeletedIn(chain, at)) \in Nat
      /\ Cardinality(DeletedIn(chain, since)) \in Nat
  BY CountTypes
<1>7. TypeOK'
  <2>1. leaseCount' \in Nat /\ providerCount' \in Int
    BY ONLY <1>3, <1>4, <1>5, <1>6
  <2>2. at' \in 0..MaxHeight
    BY <1>1, <1>2
  <2>3. QED
    BY <2>1, <2>2 DEF IInv, TypeOK
<1>8. RunInv'
  BY <1>1, <1>2 DEF IInv, RunInv
<1>9. CacheInv'
  BY <1>1 DEF IInv, CacheInv
<1>10. LeaseCountInv'
  <2>1. leaseCount >= Cardinality(CreatedIn(chain, at))
    BY <1>1 DEF IInv, LeaseCountInv
  <2>2. QED
    <3>1. Cardinality(CreatedIn(chain, h))
            = Cardinality(CreatedIn(chain, at))
              + Cardinality(CreatedIn(chain, h) \ CreatedIn(chain, at))
      BY <1>5, LeasesAtBlock
    <3>2. leaseCount' >= Cardinality(CreatedIn(chain, h))
      BY ONLY <3>1, <2>1, <1>3, <1>5, <1>6
    <3>3. QED
      BY <3>2, <1>1 DEF LeaseCountInv
<1>11. ProviderCountInv'
  <2>1. ASSUME ~suspect
        PROVE  /\ since <= committed
               /\ providerCount = Cardinality(RegisteredIn(chain, at) \ DeletedIn(chain, at))
                                  + Cardinality(DeletedIn(chain, since))
    BY <2>1, <1>1 DEF IInv, ProviderCountInv
  <2>2. ASSUME ~suspect
        PROVE  providerCount' = Cardinality(RegisteredIn(chain, h) \ DeletedIn(chain, h))
                                + Cardinality(DeletedIn(chain, since))
    <3>1. Cardinality(RegisteredIn(chain, h) \ DeletedIn(chain, h))
            = Cardinality(RegisteredIn(chain, at) \ DeletedIn(chain, at))
              + Cardinality(RegisteredIn(chain, h) \ RegisteredIn(chain, at))
              - Cardinality(DeletedIn(chain, h) \ DeletedIn(chain, at))
      BY <1>5, CountAtBlock
    <3>2. QED
      BY ONLY <3>1, <2>1, <2>2, <1>4, <1>5, <1>6
  <2>3. QED
    BY <2>1, <2>2, <1>1 DEF ProviderCountInv
<1>12. RowsInv'
  BY <1>1 DEF IInv, RowsInv, RowInv
<1>13. QED
  BY <1>7, <1>8, <1>9, <1>10, <1>11, <1>12 DEF IInv

(* The tables refreshed, or quiet, after a block: the cached set is the one a *)
(* query would give, and it stays within reach of the next block.             *)
LEMMA CachesAtBlock ==
  ASSUME IInv, AfterEveryBlock, ~suspect
  PROVE  /\ counted' = ActiveIn(chain, at, at)
         /\ \A l \in CreatedIn(chain, at) :
              PredictedIn(chain, l, at) > at => PredictedIn(chain, l, at) \in predictions'
<1> USE DEF AfterEveryBlock
<1>1. chain \in Chain /\ at \in Nat \ {0} /\ Written = at - 1 /\ ready
  BY IInvTypes DEF IInv, RunInv, Written, Reached
<1>2. \A l \in Leases : PredictedIn(chain, l, at) \in Nat /\ PredictedIn(chain, l, at - 1) \in Nat
  BY <1>1, TableTypes
<1>3. CreatedIn(chain, at) \in SUBSET Leases
  BY <1>1, TableTypes
<1>4. CASE RefreshesAt(at)
  <2>1. counted' = TotalResources(at, at) /\ predictions' = FuturePredictions(at, at)
    BY <1>4
  <2>2. predictions' = {PredictedIn(chain, l, at) : l \in CreatedIn(chain, at)} \ (0..(at - 1))
    BY <2>1, TablesOfChain DEF FuturePredictions
  <2>3. QED
    BY <2>1, <2>2, <1>1, <1>2, <1>3, TablesOfChain
<1>5. CASE ~RefreshesAt(at)
  <2>1. \A l \in Leases :
          at \notin {chain.lease[l].created, chain.lease[l].changed, chain.lease[l].closed}
    BY <1>5 DEF RefreshesAt
  <2>2. /\ CreatedIn(chain, at) = CreatedIn(chain, at - 1)
        /\ ClosedIn(chain, at) = ClosedIn(chain, at - 1)
        /\ \A l \in Leases : PredictedIn(chain, l, at) = PredictedIn(chain, l, at - 1)
    BY <2>1, <1>1, QuietBlock
  <2>3. /\ ActiveIn(chain, at - 1, at) \subseteq counted
        /\ counted \subseteq ActiveIn(chain, at - 1, at - 1)
        /\ \A l \in CreatedIn(chain, at - 1) :
             PredictedIn(chain, l, at - 1) > at - 1 => PredictedIn(chain, l, at - 1) \in predictions
    BY <1>1 DEF IInv, CacheInv
  <2>4. predictions' = predictions
    BY <1>5
  <2>5. \A l \in CreatedIn(chain, at) :
          PredictedIn(chain, l, at) > at - 1 => PredictedIn(chain, l, at) \in predictions'
    BY <2>2, <2>3, <2>4, <1>3
  <2>6. counted' = ActiveIn(chain, at, at)
    <3>1. CASE at \in predictions'
      BY <3>1, TablesOfChain
    <3>2. CASE at \notin predictions'
      <4>1. counted' = counted
        BY <3>2, <1>5
      <4>2. ActiveIn(chain, at, at) \subseteq counted
        BY <2>2, <2>3, <1>3 DEF ActiveIn
      <4>3. ASSUME NEW l \in counted PROVE l \in ActiveIn(chain, at, at)
        <5>1. /\ l \in CreatedIn(chain, at) /\ l \notin ClosedIn(chain, at) /\ l \in Leases
              /\ PredictedIn(chain, l, at) > at - 1
          BY <4>3, <2>2, <2>3, <1>3 DEF ActiveIn
        <5>2. PredictedIn(chain, l, at) # at
          BY <5>1, <2>5, <3>2
        <5>3. PredictedIn(chain, l, at) > at
          BY <5>1, <5>2, <1>1, <1>2
        <5>4. QED
          BY <5>1, <5>3 DEF ActiveIn
      <4>4. QED
        BY <4>1, <4>2, <4>3
    <3>3. QED
      BY <3>1, <3>2
  <2>7. QED
    BY <2>5, <2>6, <1>1, <1>2, <1>3
<1>6. QED
  BY <1>4, <1>5

(* The row of a block, and the caches left for the next one.                  *)
LEMMA AfterEveryBlockStep == ASSUME IInv, AfterEveryBlock PROVE IInv'
<1> DEFINE active == Cardinality(counted')
           row == [active |-> active, total |-> leaseCount, providers |-> providerCount,
                   spent |-> SpentBefore + active, suspect |-> suspect, since |-> since]
<1>1. /\ chain \in Chain /\ at \in Nat \ {0} /\ Written = at - 1 /\ Reached = at /\ ready
      /\ at <= top /\ top \in Nat /\ top <= MaxHeight /\ committed <= at - 1 /\ committed \in Nat
      /\ rows \in [1..(at - 1) -> Row]
  BY IInvTypes DEF IInv, RunInv, Written, Reached, AfterEveryBlock
<1>2. /\ rows' = [h \in 1..at |-> IF h < at THEN rows[h] ELSE row]
      /\ pc' = "messages" /\ chain' = chain /\ top' = top /\ committed' = committed
      /\ at' = at /\ first' = first /\ maxDbHeight' = maxDbHeight /\ ready' = ready
      /\ leaseCount' = leaseCount /\ providerCount' = providerCount
      /\ suspect' = suspect /\ since' = since /\ faults' = faults
  BY DEF AfterEveryBlock
<1>3. Reached' = at /\ Written' = at
  BY <1>2 DEF Reached, Written
<1>4. counted' \subseteq Leases /\ predictions' \subseteq Nat
  <2>1. \A l \in Leases : PredictedIn(chain, l, at) \in Nat
    BY <1>1, TableTypes
  <2>2. /\ FuturePredictions(at, at) \subseteq Nat
        /\ TotalResources(at, at) \subseteq Leases
    BY <2>1, TablesOfChain DEF FuturePredictions, TotalResources, CreatedIn
  <2>3. QED
    BY <2>2 DEF AfterEveryBlock, IInv, TypeOK
<1>5. active \in Nat
  BY <1>4, FiniteTables
<1>6. SpentBefore \in Nat /\ SpentBefore = (IF at = 1 THEN 0 ELSE rows[at - 1].spent)
  BY <1>1 DEF SpentBefore, Row
<1>7. row \in Row
  <2>1. leaseCount \in Nat /\ providerCount \in Int /\ suspect \in BOOLEAN /\ since \in 0..committed
    BY DEF IInv, TypeOK
  <2>2. since \in 0..MaxHeight /\ SpentBefore + active \in Nat
    BY <2>1, <1>1, <1>5, <1>6, ConstantsAssumption
  <2>3. QED
    BY <2>1, <2>2, <1>5 DEF Row
<1> HIDE DEF row
<1>8. rows' \in [1..at -> Row]
  BY <1>1, <1>2, <1>7
<1>9. TypeOK'
  <2>1. \E n \in committed'..top' : rows' \in [1..n -> Row]
    BY <1>1, <1>2, <1>8 DEF IInv, TypeOK, Heights
  <2>2. QED
    BY ONLY IInv, <2>1, <1>2, <1>4 DEF IInv, TypeOK
<1>10. RunInv'
  <2>1. DOMAIN rows' = 1..at
    BY <1>8
  <2>2. pc # "idle" /\ (pc # "idle" => at <= maxDbHeight /\ maxDbHeight <= top)
    BY DEF IInv, RunInv, AfterEveryBlock
  <2>3. QED
    BY ONLY <2>1, <2>2, <1>1, <1>2, <1>3 DEF RunInv
<1>11. CacheInv'
  <2>1. ASSUME ~suspect
        PROVE  /\ ActiveIn(chain, at, at + 1) \subseteq counted'
               /\ counted' \subseteq ActiveIn(chain, at, at)
               /\ \A l \in CreatedIn(chain, at) :
                    PredictedIn(chain, l, at) > at => PredictedIn(chain, l, at) \in predictions'
    <3>1. \A l \in CreatedIn(chain, at) : PredictedIn(chain, l, at) \in Nat
      BY <1>1, TableTypes
    <3>2. ActiveIn(chain, at, at + 1) \subseteq ActiveIn(chain, at, at)
      BY <3>1, <1>1 DEF ActiveIn
    <3>3. QED
      BY <2>1, <3>2, CachesAtBlock
  <2>2. QED
    BY <2>1, <1>2, <1>3 DEF CacheInv
<1>12. LeaseCountInv'
  BY <1>1, <1>2, <1>3 DEF IInv, LeaseCountInv
<1>13. ProviderCountInv'
  BY <1>1, <1>2, <1>3 DEF IInv, ProviderCountInv
<1>14. RowsInv'
  <2>1. ASSUME NEW h \in 1..(at - 1) PROVE RowInv(h)'
    <3>1. RowInv(h)
      BY <1>1 DEF IInv, RowsInv
    <3>2. rows'[h] = rows[h] /\ (h # 1 => rows'[h - 1] = rows[h - 1])
      BY <1>1, <1>2
    <3>3. QED
      BY <3>1, <3>2, <1>2 DEF RowInv
  <2>2. ASSUME NEW h, h = at PROVE RowInv(h)'
    <3>1. rows'[at] = row /\ (at # 1 => rows'[at - 1] = rows[at - 1])
      BY <1>1, <1>2
    <3>2. leaseCount >= Cardinality(CreatedIn(chain, at))
      BY <1>1 DEF IInv, LeaseCountInv
    <3>3. ~suspect => active = Cardinality(ActiveIn(chain, at, at))
      BY CachesAtBlock
    <3>4. ~suspect => providerCount
                        = Cardinality(RegisteredIn(chain, at) \ DeletedIn(chain, at))
                          + Cardinality(DeletedIn(chain, since))
      BY <1>1 DEF IInv, ProviderCountInv
    <3>5. SpentBefore + active = active + (IF at = 1 THEN 0 ELSE rows[at - 1].spent)
      BY ONLY <1>5, <1>6
    <3>6. /\ rows'[at].total = leaseCount /\ rows'[at].active = active
          /\ rows'[at].spent = SpentBefore + active /\ rows'[at].suspect = suspect
          /\ rows'[at].providers = providerCount /\ rows'[at].since = since
      BY <3>1 DEF row
    <3>7. QED
      BY <2>2, <3>1, <3>2, <3>3, <3>4, <3>5, <3>6, <1>2 DEF RowInv
  <2>3. QED
    BY <2>1, <2>2, <1>1, <1>3 DEF RowsInv
<1>15. QED
  BY <1>9, <1>10, <1>11, <1>12, <1>13, <1>14 DEF IInv

(* The group commits: its rows are the table's.                               *)
LEMMA CommitGroupStep == ASSUME IInv, CommitGroup PROVE IInv'
<1>1. /\ chain \in Chain /\ at \in Nat /\ Written = at /\ Reached = at /\ ready
      /\ at <= top /\ top \in Nat /\ committed <= at /\ committed \in Nat
      /\ rows \in [1..at -> Row]
  BY IInvTypes DEF IInv, RunInv, Written, Reached, CommitGroup
<1>2. /\ committed' = at /\ chain' = chain /\ top' = top /\ rows' = rows /\ ready' = ready
      /\ leaseCount' = leaseCount /\ providerCount' = providerCount /\ since' = since
      /\ counted' = counted /\ predictions' = predictions
      /\ suspect' = suspect /\ faults' = faults
  BY DEF CommitGroup, cache
<1>3. \/ pc' = "messages" /\ at' = at /\ maxDbHeight' = maxDbHeight /\ first' = first + GroupSize
      \/ pc' = "idle" /\ at' = 0 /\ first' = 0 /\ maxDbHeight' = 0
  BY DEF CommitGroup
<1>4. Reached' = at /\ Written' = at
  BY <1>2, <1>3 DEF Reached, Written
<1>5. TypeOK'
  <2>1. /\ pc' \in {"idle", "messages", "after"} /\ at' \in 0..MaxHeight /\ first' \in Nat
        /\ maxDbHeight' \in 0..MaxHeight
    BY <1>3, ConstantsAssumption DEF IInv, TypeOK
  <2>2. since \in 0..committed
    BY DEF IInv, TypeOK
  <2>3. committed' \in 0..top' /\ since' \in 0..committed'
    BY <2>2, <1>1, <1>2
  <2>4. \E n \in committed'..top' : rows' \in [1..n -> Row]
    BY <1>1, <1>2
  <2>5. QED
    BY ONLY IInv, <2>1, <2>3, <2>4, <1>2 DEF IInv, TypeOK
<1>6. RunInv'
  <2>1. pc # "idle" /\ (pc # "idle" => at <= maxDbHeight /\ maxDbHeight <= top)
    BY DEF IInv, RunInv, CommitGroup
  <2>2. DOMAIN rows' = 1..at
    BY <1>1, <1>2
  <2>3. QED
    BY ONLY <2>1, <2>2, <1>1, <1>2, <1>3, <1>4 DEF RunInv
<1>7. CacheInv'
  BY <1>1, <1>2, <1>4 DEF IInv, CacheInv
<1>8. LeaseCountInv'
  BY <1>1, <1>2, <1>4 DEF IInv, LeaseCountInv
<1>9. ProviderCountInv'
  <2>1. since <= at
    BY <1>1 DEF IInv, TypeOK
  <2>2. QED
    BY <2>1, <1>1, <1>2, <1>4 DEF IInv, ProviderCountInv
<1>10. RowsInv'
  BY <1>1, <1>2, <1>4 DEF IInv, RowsInv, RowInv
<1>11. QED
  BY <1>5, <1>6, <1>7, <1>8, <1>9, <1>10 DEF IInv

(* The rows a rollback leaves.                                                *)
LEMMA RollBackRows ==
  ASSUME IInv, RollBack, UNCHANGED <<chain, top, committed>>
  PROVE  /\ Reached' = committed /\ Written' = committed
         /\ rows' \in [1..committed -> Row]
         /\ \E n \in committed'..top' : rows' \in [1..n -> Row]
         /\ RowsInv'
         /\ committed' <= Written' /\ Reached' <= top'
<1>1. committed \in Nat /\ top \in Nat /\ Written \in Nat /\ committed <= Written /\ Written <= top
      /\ rows \in [1..Written -> Row]
  BY IInvTypes DEF IInv, RunInv
<1>2. Reached' = committed /\ Written' = committed
  BY DEF Reached, Written, RollBack
<1>3. rows' = [h \in 1..committed |-> rows[h]]
  BY DEF RollBack
<1>4. rows' \in [1..committed -> Row]
  BY <1>1, <1>3
<1>5. \E n \in committed'..top' : rows' \in [1..n -> Row]
  BY <1>1, <1>4
<1>6. RowsInv'
  <2>1. ASSUME NEW h \in 1..committed PROVE RowInv(h)'
    <3>1. RowInv(h)
      BY <1>1 DEF IInv, RowsInv
    <3>2. rows'[h] = rows[h] /\ (h # 1 => rows'[h - 1] = rows[h - 1])
      BY <1>1, <1>3
    <3>3. QED
      BY <3>1, <3>2 DEF RowInv
  <2>2. QED
    BY <2>1, <1>2 DEF RowsInv
<1>7. QED
  BY <1>1, <1>2, <1>4, <1>5, <1>6

(* A group that fails: the caches, ahead of the tables now, are not trusted.  *)
LEMMA GroupFailsStep == ASSUME IInv, GroupFails PROVE IInv'
<1>1. /\ chain' = chain /\ top' = top /\ committed' = committed /\ suspect' = TRUE
      /\ ready' = ready /\ leaseCount' = leaseCount /\ providerCount' = providerCount
      /\ since' = since /\ counted' = counted /\ predictions' = predictions
      /\ pc' = "idle" /\ at' = 0 /\ first' = 0 /\ maxDbHeight' = 0
      /\ faults > 0 /\ faults' = faults - 1
  BY DEF GroupFails, RollBack, Fault, cache
<1>2. /\ Reached' = committed /\ Written' = committed
      /\ rows' \in [1..committed -> Row]
      /\ \E n \in committed'..top' : rows' \in [1..n -> Row]
      /\ RowsInv' /\ committed' <= Written' /\ Reached' <= top'
  BY <1>1, RollBackRows DEF GroupFails
<1>3. chain \in Chain /\ committed \in Nat /\ Reached \in Nat /\ committed <= Reached
  BY IInvTypes
<1>4. TypeOK'
  <2>1. faults' \in 0..MaxFaults /\ 0 \in 0..MaxHeight
    BY <1>1, ConstantsAssumption DEF IInv, TypeOK
  <2>2. QED
    BY ONLY IInv, <2>1, <1>1, <1>2 DEF IInv, TypeOK
<1>5. RunInv'
  BY <1>1, <1>2 DEF RunInv
<1>6. CacheInv' /\ ProviderCountInv'
  BY <1>1 DEF CacheInv, ProviderCountInv
<1>7. LeaseCountInv'
  <2>1. CASE ready
    <3>1. leaseCount >= Cardinality(CreatedIn(chain, Reached)) /\ leaseCount \in Nat
      BY <2>1 DEF IInv, LeaseCountInv, TypeOK
    <3>2. Cardinality(CreatedIn(chain, Reached))
            = Cardinality(CreatedIn(chain, committed))
              + Cardinality(CreatedIn(chain, Reached) \ CreatedIn(chain, committed))
      BY <1>3, LeasesAtBlock
    <3>3. /\ Cardinality(CreatedIn(chain, Reached)) \in Nat
          /\ Cardinality(CreatedIn(chain, committed)) \in Nat
          /\ Cardinality(CreatedIn(chain, Reached) \ CreatedIn(chain, committed)) \in Nat
      BY <1>3, CountTypes
    <3>4. leaseCount >= Cardinality(CreatedIn(chain, committed))
      BY ONLY <3>1, <3>2, <3>3
    <3>5. QED
      BY <3>4, <1>1, <1>2 DEF LeaseCountInv
  <2>2. CASE ~ready
    BY <2>2, <1>1 DEF LeaseCountInv
  <2>3. QED
    BY <2>1, <2>2
<1>8. QED
  BY <1>2, <1>4, <1>5, <1>6, <1>7 DEF IInv

(* A restart: nothing is cached, what is committed stays.                     *)
LEMMA RestartStep == ASSUME IInv, Restart PROVE IInv'
<1>1. /\ chain' = chain /\ top' = top /\ committed' = committed /\ suspect' = FALSE
      /\ ready' = FALSE /\ leaseCount' = 0 /\ providerCount' = 0
      /\ since' = 0 /\ counted' = {} /\ predictions' = {}
      /\ pc' = "idle" /\ at' = 0 /\ first' = 0 /\ maxDbHeight' = 0
      /\ faults > 0 /\ faults' = faults - 1
  BY DEF Restart, RollBack, Fault
<1>2. /\ Reached' = committed /\ Written' = committed
      /\ rows' \in [1..committed -> Row]
      /\ \E n \in committed'..top' : rows' \in [1..n -> Row]
      /\ RowsInv' /\ committed' <= Written' /\ Reached' <= top'
  BY <1>1, RollBackRows DEF Restart
<1>3. TypeOK'
  <2>1. /\ faults' \in 0..MaxFaults /\ 0 \in 0..MaxHeight /\ since' \in 0..committed'
        /\ leaseCount' \in Nat /\ providerCount' \in Int
    BY <1>1, ConstantsAssumption DEF IInv, TypeOK, Heights
  <2>2. QED
    BY ONLY IInv, <2>1, <1>1, <1>2 DEF IInv, TypeOK
<1>4. RunInv'
  BY <1>1, <1>2 DEF RunInv
<1>5. CacheInv' /\ ProviderCountInv' /\ LeaseCountInv'
  BY <1>1 DEF CacheInv, ProviderCountInv, LeaseCountInv
<1>6. QED
  BY <1>2, <1>3, <1>4, <1>5 DEF IInv

(* A block inserted between two runs changes none of what is compared.        *)
LEMMA InsertBlockStep == ASSUME IInv, InsertBlock PROVE IInv'
<1>1. top' = top + 1 /\ top < MaxHeight /\ pc = "idle"
      /\ UNCHANGED <<chain, rows, committed, pc, at, first, maxDbHeight, ready, leaseCount>>
      /\ UNCHANGED <<providerCount, counted, predictions, since, suspect, faults>>
  BY DEF InsertBlock, run, cache
<1>2. top \in Nat /\ committed \in Nat /\ MaxHeight \in Nat /\ Reached \in Nat
  BY IInvTypes, ConstantsAssumption
<1>3. Reached' = Reached /\ Written' = Written
  BY <1>1 DEF Reached, Written
<1>4. TypeOK'
  <2>1. top' \in Heights /\ committed' \in 0..top'
    BY <1>1, <1>2 DEF IInv, TypeOK, Heights
  <2>2. \E n \in committed'..top' : rows' \in [1..n -> Row]
    BY <1>1, <1>2 DEF IInv, TypeOK
  <2>3. QED
    BY ONLY IInv, <2>1, <2>2, <1>1 DEF IInv, TypeOK
<1>5. RunInv'
  BY <1>1, <1>2, <1>3 DEF IInv, RunInv
<1>6. CacheInv' /\ LeaseCountInv' /\ ProviderCountInv'
  BY <1>1, <1>3 DEF IInv, CacheInv, LeaseCountInv, ProviderCountInv
<1>7. RowsInv'
  BY <1>1, <1>3 DEF IInv, RowsInv, RowInv
<1>8. QED
  BY <1>4, <1>5, <1>6, <1>7 DEF IInv

------------------------------------------------------------------------------
(* The invariant is inductive.                                                *)
THEOREM Invariance == Spec => []IInv
<1>1. IInv /\ [Next]_vars => IInv'
  <2> SUFFICES ASSUME IInv, [Next]_vars PROVE IInv'
    OBVIOUS
  <2>1. CASE StartRun
    BY <2>1, StartRunStep
  <2>2. CASE Messages
    BY <2>2, MessagesStep
  <2>3. CASE AfterEveryBlock
    BY <2>3, AfterEveryBlockStep
  <2>4. CASE CommitGroup
    BY <2>4, CommitGroupStep
  <2>5. CASE GroupFails
    BY <2>5, GroupFailsStep
  <2>6. CASE Restart
    BY <2>6, RestartStep
  <2>7. CASE InsertBlock
    BY <2>7, InsertBlockStep
  <2>8. CASE UNCHANGED vars
    <3>1. UNCHANGED <<chain, top, rows, committed, pc, at, first, maxDbHeight, ready>>
          /\ UNCHANGED <<leaseCount, providerCount, counted, predictions, since, suspect, faults>>
      BY <2>8 DEF vars, run, cache
    <3>2. Reached' = Reached /\ Written' = Written
      BY <3>1 DEF Reached, Written
    <3>3. TypeOK' /\ RunInv'
      BY ONLY IInv, <3>1, <3>2 DEF IInv, TypeOK, RunInv
    <3>4. CacheInv' /\ LeaseCountInv' /\ ProviderCountInv' /\ RowsInv'
      BY ONLY IInv, <3>1, <3>2
      DEF IInv, CacheInv, LeaseCountInv, ProviderCountInv, RowsInv, RowInv
    <3>5. QED
      BY <3>3, <3>4 DEF IInv
  <2>9. QED
    BY <2>1, <2>2, <2>3, <2>4, <2>5, <2>6, <2>7, <2>8 DEF Next
<1>2. QED
  BY <1>1, InitInv, PTL DEF Spec

(* Every variable keeps its type.                                             *)
THEOREM TypeCorrect == Spec => []TypeOK
<1>1. IInv => TypeOK
  BY DEF IInv
<1>2. QED
  BY <1>1, Invariance, PTL

(* On every committed block the cached counts are those of the tables, but    *)
(* for a process whose caches a rollback has left ahead.                      *)
THEOREM CountsAreTrue == Spec => []CountsFollowTables
<1>1. IInv => CountsFollowTables
  <2> SUFFICES ASSUME IInv, NEW h \in 1..committed
               PROVE  /\ rows[h].total >= Cardinality(CreatedBy(h))
                      /\ ~rows[h].suspect =>
                           /\ rows[h].active = Cardinality(TotalResources(h, h))
                           /\ rows[h].providers = Cardinality(RegisteredBy(h) \ DeletedBy(h))
                                                   + Cardinality(DeletedBy(rows[h].since))
    BY DEF CountsFollowTables
  <2>1. RowInv(h)
    BY IInvTypes DEF IInv, RowsInv, RunInv
  <2>2. QED
    BY <2>1, TablesOfChain DEF RowInv
<1>2. QED
  BY <1>1, Invariance, PTL

(* What was spent so far is the sum of what each block spent.                 *)
THEOREM SpentIsSum == Spec => []SpentAccumulates
<1>1. IInv => SpentAccumulates
  <2> SUFFICES ASSUME IInv, NEW h \in 1..committed
               PROVE  rows[h].spent = rows[h].active + (IF h = 1 THEN 0 ELSE rows[h - 1].spent)
    BY DEF SpentAccumulates
  <2>1. RowInv(h)
    BY IInvTypes DEF IInv, RowsInv, RunInv
  <2>2. QED
    BY <2>1 DEF RowInv
<1>2. QED
  BY <1>1, Invariance, PTL

(* The row of a committed block is never written again.                       *)
THEOREM CommittedStays == Spec => ProcessedOnce
<1>1. IInv /\ [Next]_vars => [\A h \in 1..committed : rows'[h] = rows[h]]_vars
  <2> SUFFICES ASSUME IInv, Next, NEW h \in 1..committed PROVE rows'[h] = rows[h]
    OBVIOUS
  <2>1. CASE AfterEveryBlock
    <3>1. at \in Nat /\ committed \in Nat /\ committed <= at - 1
      BY <2>1, IInvTypes DEF IInv, RunInv, Written, Reached, AfterEveryBlock
    <3>2. rows'[h] = IF h < at THEN rows[h] ELSE rows'[h]
      BY <2>1, <3>1 DEF AfterEveryBlock
    <3>3. QED
      BY <3>1, <3>2
  <2>2. CASE GroupFails \/ Restart
    BY <2>2 DEF GroupFails, Restart, RollBack
  <2>3. CASE StartRun \/ Messages \/ CommitGroup \/ InsertBlock
    BY <2>3 DEF StartRun, Messages, CommitGroup, InsertBlock
  <2>4. QED
    BY <2>1, <2>2, <2>3 DEF Next
<1>2. QED
  BY <1>1, Invariance, PTL DEF Spec, ProcessedOnce

=============================================================================
