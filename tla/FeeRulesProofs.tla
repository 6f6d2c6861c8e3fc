---------------------------- MODULE FeeRulesProofs ----------------------------
(***************************************************************************)
(* The rules a school bills by.  What a class is billed (PriceList): for   *)
(* any heads, prices, arrangements and overlapping requests, nothing that  *)
(* is still priced is deleted, and the class can be billed, but for a head *)
(* it is charged and a student is ADDED to as well.  What the late are     *)
(* fined (LateFees): however often the pass runs, by cron or by hand, and  *)
(* whatever the office does in between, no challan is fined ahead of       *)
(* schedule, and what stands against it stays within a ceiling the school  *)
(* has set.                                                                *)
(***************************************************************************)
EXTENDS PriceList, LateFees, SumFacts, SequenceTheorems

-----------------------------------------------------------------------------
(* The price list.                                                         *)

\* What a request asks was typed where it began.
Asks(q) ==
    /\ q.op = "delete" => q.on \in Charges \cup Schemes
    /\ q.op = "price" => q.on \in Charges /\ q.what \in Nat
    /\ q.op = "arrange" => q.on \in Students \X Heads /\ q.what \in Departures
    /\ q.op = "name" => q.on \in {"policy", "schedule"} /\ q.what \in Heads
    /\ q.op = "bill" => /\ q.what \in BOOLEAN
                        /\ DOMAIN q.found \subseteq Students
                        /\ \A s \in DOMAIN q.found : q.found[s] \subseteq Line

Asked == /\ request = [r \in Requests |-> request[r]]
         /\ \A r \in Requests : Asks(request[r])

Types == PricesTypeOK /\ Asked

LEMMA NobodyAsks == Asks(Nobody)
  BY DEF Asks, Nobody

-----------------------------------------------------------------------------
(* What a student is billed.                                               *)

LEMMA MinOfTwo ==
  ASSUME NEW a \in Int, NEW b \in Int
  PROVE  /\ Min({a, b}) \in {a, b}
         /\ Min({a, b}) <= a /\ Min({a, b}) <= b
  <1>1. \E x \in {a, b} : \A y \in {a, b} : x <= y
    OBVIOUS
  <1> QED BY <1>1 DEF Min

LEMMA MoneyType ==
  ASSUME NEW hundredths \in Nat
  PROVE  Money(hundredths) \in Nat
  BY DEF Money

LEMMA ProductType ==
  ASSUME NEW a \in Nat, NEW b \in Nat
  PROVE  a * b \in Nat
  OBVIOUS

\* A discount is a sum of money and never more than what it is taken from.
LEMMA DiscountWithinGross ==
  ASSUME Types, NEW departure \in Departures, departure.mode = "discount", NEW gross \in Nat
  PROVE  DiscountFor(departure, gross) \in 0..gross
  <1> DEFINE by == IF departure.by.kind = "scheme" THEN rate[departure.by.value]
                   ELSE departure.by
             raw == IF by.kind = "percent" THEN Money(gross * by.value) ELSE by.value
  <1>1. Percents \subseteq Nat /\ Sums \subseteq Nat
    BY PriceConstants DEF PriceConstants
  <1>2. by.value \in Nat
    <2>1. CASE departure.by.kind = "scheme"
      <3>1. departure.by.value \in Schemes
        BY <2>1 DEF Departures
      <3>2. rate[departure.by.value] \in SchemeRate
        BY <3>1 DEF Types, PricesTypeOK
      <3> QED BY <2>1, <3>2, <1>1 DEF SchemeRate
    <2>2. CASE departure.by.kind # "scheme"
      BY <2>2, <1>1 DEF Departures
    <2> QED BY <2>1, <2>2
  <1>3. raw \in Nat
    <2>1. PICK v \in Nat : v = by.value
      BY <1>2
    <2>2. gross * v \in Nat
      BY ProductType
    <2>3. Money(gross * v) \in Nat
      BY <2>2, MoneyType
    <2> QED BY <2>1, <2>3
  <1>4. DiscountFor(departure, gross) = Min({raw, gross})
    BY DEF DiscountFor
  <1>5. PICK n \in Nat : n = raw
    BY <1>3
  <1>6. Min({n, gross}) \in {n, gross} /\ Min({n, gross}) <= gross
    <2>1. n \in Int /\ gross \in Int
      OBVIOUS
    <2> QED BY <2>1, MinOfTwo, Zenon
  <1>7. DiscountFor(departure, gross) = Min({n, gross})
    BY <1>4, <1>5
  <1> QED BY <1>6, <1>7

Payable == {l \in Line : 0 <= l.off /\ l.off <= l.amount}

LEMMA StationeryPayable ==
  ASSUME Types
  PROVE  StationeryLines \subseteq Payable
  <1>1. ASSUME NEW a \in Priced \cap Articles
        PROVE  a \in Charges /\ structure.price[a] \in Nat
    BY <1>1 DEF Types, PricesTypeOK, Priced, Charges
  <1> QED BY <1>1 DEF StationeryLines, Payable, Line

\* Every line of a student is typed, at the class's rate or their own.
LEMMA LinesTyped ==
  ASSUME Types, NEW s \in Students, NEW l \in Lines(s)
  PROVE  l.head \in Heads /\ l.amount \in Nat /\ l.source \in {"class", "student"}
  <1>0. Sums \subseteq Nat
    BY PriceConstants DEF PriceConstants
  <1>1. ASSUME NEW h \in In(s, "added") \cup In(s, "override")
        PROVE  h \in Heads /\ arranged[s][h].by.value \in Nat
    <2>1. h \in Heads /\ arranged[s][h].mode \in {"added", "override"}
      BY <1>1 DEF In
    <2>2. PICK d \in Departures \cup {Dropped, Untouched} : d = arranged[s][h]
      BY <2>1 DEF Types, PricesTypeOK
    <2>3. d \in [mode: {"added", "override"}, by: [kind: {"amount"}, value: Sums]]
      BY <2>1, <2>2 DEF Departures, Dropped, Untouched
    <2> QED BY <1>0, <2>1, <2>2, <2>3
  <1>2. ASSUME NEW b \in BaseLines
        PROVE  /\ b.head \in Heads /\ b.amount \in Nat /\ b.source = "class"
               /\ DOMAIN b = {"head", "amount", "source"}
    BY <1>2 DEF BaseLines, Types, PricesTypeOK, Priced, Charges
  <1>3. CASE l \in {[head |-> h, amount |-> arranged[s][h].by.value, source |-> "student"] :
                       h \in In(s, "added")}
    BY <1>1, <1>3
  <1>4. CASE \E b \in BaseLines :
                l = IF b.head \in In(s, "override")
                    THEN [b EXCEPT !.amount = arranged[s][b.head].by.value] ELSE b
    <2>1. PICK b \in BaseLines :
             l = IF b.head \in In(s, "override")
                 THEN [b EXCEPT !.amount = arranged[s][b.head].by.value] ELSE b
      BY <1>4
    <2>2. CASE b.head \in In(s, "override")
      BY <2>1, <2>2, <1>1, <1>2
    <2> QED BY <2>1, <2>2, <1>2
  <1> QED BY <1>3, <1>4 DEF Lines

LEMMA EffectivePayable ==
  ASSUME Types, NEW s \in Students
  PROVE  EffectiveLines(s) \subseteq Payable
  <1> SUFFICES ASSUME NEW l \in Lines(s)
               PROVE  [charge |-> l.head, source |-> l.source, amount |-> l.amount,
                       off |-> IF l.head \in In(s, "discount")
                               THEN DiscountFor(arranged[s][l.head], l.amount) ELSE 0]
                      \in Payable
    BY DEF EffectiveLines
  <1>1. l.head \in Heads /\ l.amount \in Nat /\ l.source \in {"class", "student"}
    BY LinesTyped
  <1>2. CASE l.head \in In(s, "discount")
    <2>1. PICK d \in Departures \cup {Dropped, Untouched} :
             d = arranged[s][l.head] /\ d.mode = "discount"
      BY <1>1, <1>2 DEF Types, PricesTypeOK, In
    <2>2. d \in Departures
      BY <2>1 DEF Dropped, Untouched
    <2>3. PICK off \in 0..l.amount : off = DiscountFor(d, l.amount)
      BY <1>1, <2>1, <2>2, DiscountWithinGross
    <2> QED BY <1>1, <1>2, <2>1, <2>3 DEF Payable, Line, Charges
  <1>3. CASE l.head \notin In(s, "discount")
    BY <1>1, <1>3 DEF Payable, Line, Charges
  <1> QED BY <1>2, <1>3

LEMMA BilledPayable ==
  ASSUME Types, NEW s \in Students, NEW stationery \in BOOLEAN
  PROVE  Billed(s, stationery) \subseteq Payable
  BY EffectivePayable, StationeryPayable DEF Billed

\* A head is billed by the class and to the student at once, or on one line.
LEMMA LineOfCharge ==
  ASSUME Types, NEW s \in Students, NEW l \in Billed(s, TRUE), NEW m \in Billed(s, TRUE),
         l.charge = m.charge, l # m
  PROVE  l.charge \in Priced \cap In(s, "added")
  <1>0. Heads \cap Articles = {}
    BY PriceConstants DEF PriceConstants
  <1>1. \A k \in StationeryLines : k.charge \in Articles
                                   /\ k = [charge |-> k.charge, source |-> "class",
                                           amount |-> structure.price[k.charge], off |-> 0]
    BY DEF StationeryLines
  <1>2. \A k \in Lines(s) : k.head \in Heads
    BY LinesTyped
  <1>3. \A k \in EffectiveLines(s) : k.charge \in Heads
    BY <1>2 DEF EffectiveLines
  <1>4. l \in EffectiveLines(s) /\ m \in EffectiveLines(s)
    BY <1>0, <1>1, <1>3 DEF Billed
  <1> DEFINE Off(k) == IF k.head \in In(s, "discount")
                       THEN DiscountFor(arranged[s][k.head], k.amount) ELSE 0
  <1>5. PICK k \in Lines(s) : l = [charge |-> k.head, source |-> k.source, amount |-> k.amount,
                                   off |-> Off(k)]
    BY <1>4 DEF EffectiveLines
  <1>6. PICK j \in Lines(s) : m = [charge |-> j.head, source |-> j.source, amount |-> j.amount,
                                   off |-> Off(j)]
    BY <1>4 DEF EffectiveLines
  <1> HIDE DEF Off
  <1>7. k.head = j.head /\ k # j /\ l.charge = k.head
    BY <1>5, <1>6
  <1> DEFINE TheirOwn == {[head |-> h, amount |-> arranged[s][h].by.value, source |-> "student"] :
                        h \in In(s, "added")}
             Kin == {b \in BaseLines : b.head \notin In(s, "excluded")}
             AtOwnRate(b) == IF b.head \in In(s, "override")
                             THEN [b EXCEPT !.amount = arranged[s][b.head].by.value] ELSE b
  <1>8. Lines(s) = {AtOwnRate(b) : b \in Kin} \cup TheirOwn
    BY DEF Lines
  <1>9. ASSUME NEW i \in {AtOwnRate(b) : b \in Kin}
        PROVE  /\ i.head \in Priced
               /\ i = AtOwnRate([head |-> i.head, amount |-> structure.price[i.head],
                                 source |-> "class"])
    BY <1>9 DEF BaseLines
  <1>10. ASSUME NEW i \in TheirOwn
         PROVE  /\ i.head \in In(s, "added")
                /\ i = [head |-> i.head, amount |-> arranged[s][i.head].by.value,
                        source |-> "student"]
    BY <1>10
  <1> HIDE DEF TheirOwn, AtOwnRate, Kin
  <1> QED BY <1>7, <1>8, <1>9, <1>10

\* Where both are, they are two lines.
LEMMA TwoLines ==
  ASSUME Types, NEW s \in Students, NEW h \in Priced \cap In(s, "added")
  PROVE  ~Accepted(Billed(s, TRUE))
  <1>1. h \in Heads /\ arranged[s][h].mode = "added"
    BY DEF In
  <1>2. h \notin In(s, "excluded") /\ h \notin In(s, "override") /\ h \notin In(s, "discount")
    BY <1>1 DEF In
  <1> DEFINE b == [head |-> h, amount |-> structure.price[h], source |-> "class"]
             o == [head |-> h, amount |-> arranged[s][h].by.value, source |-> "student"]
             BillLine(k) == [charge |-> k.head, source |-> k.source, amount |-> k.amount,
                             off |-> IF k.head \in In(s, "discount")
                                     THEN DiscountFor(arranged[s][k.head], k.amount) ELSE 0]
  <1>3. b \in Lines(s)
    <2>1. b \in BaseLines /\ b.head = h
      BY <1>1 DEF BaseLines
    <2> HIDE DEF b
    <2> QED BY <1>2, <2>1 DEF Lines
  <1>4. o \in Lines(s)
    BY <1>1 DEF Lines
  <1>5. BillLine(b) \in Billed(s, TRUE) /\ BillLine(o) \in Billed(s, TRUE)
    BY <1>3, <1>4 DEF Billed, EffectiveLines
  <1>6. BillLine(b).charge = BillLine(o).charge /\ BillLine(b) # BillLine(o)
    <2>1. BillLine(b).source = "class" /\ BillLine(o).source = "student"
      OBVIOUS
    <2>2. BillLine(b).charge = h /\ BillLine(o).charge = h
      OBVIOUS
    <2> HIDE DEF BillLine, b, o
    <2> QED BY <2>1, <2>2
  <1> HIDE DEF BillLine, b, o
  <1> QED BY <1>5, <1>6 DEF Accepted

\* What keeps a class from being billed follows from the types alone.
LEMMA Billable ==
  ASSUME Types
  PROVE  ClassIsBillable
  <1> SUFFICES ASSUME NEW s \in Students
               PROVE  Accepted(Billed(s, TRUE)) <=> Priced \cap In(s, "added") = {}
    BY DEF ClassIsBillable
  <1>1. \A l \in Billed(s, TRUE) : 0 <= l.off /\ l.off <= l.amount
    BY BilledPayable DEF Payable
  <1>2. ASSUME Priced \cap In(s, "added") = {} PROVE Accepted(Billed(s, TRUE))
    BY <1>1, <1>2, LineOfCharge DEF Accepted
  <1>3. ASSUME Priced \cap In(s, "added") # {} PROVE ~Accepted(Billed(s, TRUE))
    BY <1>3, TwoLines
  <1> QED BY <1>2, <1>3

-----------------------------------------------------------------------------
(* Types.                                                                  *)

\* A step that ends a request, or begins none, asks nothing new.
LEMMA EndsAsked ==
  ASSUME Asked, NEW r \in Requests, NEW q, Asks(q), request' = [request EXCEPT ![r] = q]
  PROVE  Asked'
  <1>1. request' = [x \in Requests |-> IF x = r THEN q ELSE request[x]]
    BY DEF Asked
  <1>2. ASSUME NEW x \in Requests PROVE Asks(request'[x])
    BY <1>1 DEF Asked
  <1>3. request' = [x \in Requests |-> request'[x]]
    BY <1>1
  <1> QED BY <1>2, <1>3 DEF Asked, Asks

LEMMA OthersAsked ==
  ASSUME Asked, request' = request
  PROVE  Asked'
  BY DEF Asked, Asks

LEMMA CellUpdate ==
  ASSUME NEW S, NEW T, NEW V, NEW f \in [S -> [T -> V]], NEW s \in S, NEW t \in T, NEW v \in V
  PROVE  [f EXCEPT ![s][t] = v] \in [S -> [T -> V]]
  OBVIOUS

LEMMA BeginsTyped ==
  ASSUME Types, NEW r \in Requests, NEW op, NEW on, NEW what, NEW found,
         Begins(r, op, on, what, found),
         Asks([op |-> op, on |-> on, what |-> what, found |-> found])
  PROVE  Types'
  <1>1. Asked'
    BY EndsAsked DEF Begins, Types
  <1>2. begun' \in 0..MaxRequests
    BY PriceConstants DEF Begins, Types, PricesTypeOK, PriceConstants
  <1>3. PricesTypeOK'
    BY <1>2 DEF Begins, Types, PricesTypeOK
  <1> QED BY <1>1, <1>3 DEF Types

LEMMA TypesKept ==
  ASSUME Types, [PricesNext]_priceVars
  PROVE  Types'
  <1>0. Sums \subseteq Nat /\ MaxRequests \in Nat
    BY PriceConstants DEF PriceConstants
  <1>1. ASSUME NEW r \in Requests, NEW x \in Charges \cup Schemes, BeginsDelete(r, x)
        PROVE  Types'
    BY <1>1, BeginsTyped DEF BeginsDelete, Asks
  <1>2. ASSUME NEW r \in Requests, NEW c \in Charges, NEW n \in Sums, BeginsPrice(r, c, n)
        PROVE  Types'
    BY <1>0, <1>2, BeginsTyped DEF BeginsPrice, Asks
  <1>3. ASSUME NEW r \in Requests, NEW s \in Students, NEW h \in Heads, NEW d \in Departures,
               BeginsArrange(r, s, h, d)
        PROVE  Types'
    BY <1>3, BeginsTyped DEF BeginsArrange, Asks
  <1>4. ASSUME NEW r \in Requests, NEW n \in DOMAIN names, NEW h \in Heads, BeginsName(r, n, h)
        PROVE  Types'
    <2>1. n \in {"policy", "schedule"}
      BY DEF Types, PricesTypeOK
    <2> QED BY <1>4, <2>1, BeginsTyped DEF BeginsName, Asks
  <1>5. ASSUME NEW r \in Requests, BeginsArchive(r)
        PROVE  Types'
    BY <1>5, BeginsTyped DEF BeginsArchive, Asks
  <1>6. ASSUME NEW r \in Requests, NEW stationery \in BOOLEAN, BeginsBill(r, stationery)
        PROVE  Types'
    <2> DEFINE bills == [s \in {s \in Students : challan[s].status # "draft"} |->
                            Billed(s, stationery)]
               q == [op |-> "bill", on |-> None, what |-> stationery, found |-> bills]
    <2>1. DOMAIN bills \subseteq Students /\ \A s \in DOMAIN bills : bills[s] \subseteq Line
      BY BilledPayable DEF Payable
    <2>2. Begins(r, "bill", None, stationery, bills)
      BY <1>6 DEF BeginsBill
    <2> HIDE DEF bills
    <2>3. Asks(q)
      BY <2>1 DEF Asks
    <2> QED BY <2>2, <2>3, BeginsTyped
  <1>7. ASSUME NEW r \in Requests,
               Deletes(r) \/ Prices(r) \/ Arranges(r) \/ Names(r) \/ Archives(r) \/ BillsClass(r)
               \/ Fails(r)
        PROVE  Types'
    <2>1. Asked'
      BY <1>7, EndsAsked, NobodyAsks
         DEF Deletes, Prices, Arranges, Names, Archives, BillsClass, Fails, Ends, Types
    <2>2. Asks(request[r])
      BY DEF Types, Asked
    <2>3. raced' \in BOOLEAN /\ begun' = begun
      BY <1>7 DEF Deletes, Prices, Arranges, Names, Archives, BillsClass, Fails, Ends, Types, PricesTypeOK
    <2>4. CASE Deletes(r) \/ Names(r) \/ Archives(r) \/ Fails(r)
      BY <2>1, <2>2, <2>3, <2>4
         DEF Types, PricesTypeOK, Asks, Deletes, Names, Archives, Fails, Ends
    <2>5. CASE Prices(r)
      BY <2>1, <2>2, <2>3, <2>5 DEF Types, PricesTypeOK, Asks, Prices
    <2>6. CASE Arranges(r)
      <3>1. PICK s \in Students, h \in Heads, d \in Departures :
               request[r].on[1] = s /\ request[r].on[2] = h /\ request[r].what = d
        BY <2>2, <2>6 DEF Asks, Arranges
      <3>2. arranged' = arranged \/ arranged' = [arranged EXCEPT ![s][h] = d]
        BY <2>6, <3>1 DEF Arranges
      <3>3. arranged' \in [Students -> [Heads -> Departures \cup {Dropped, Untouched}]]
        <4>1. d \in Departures \cup {Dropped, Untouched}
          OBVIOUS
        <4>2. arranged \in [Students -> [Heads -> Departures \cup {Dropped, Untouched}]]
          BY DEF Types, PricesTypeOK
        <4>3. [arranged EXCEPT ![s][h] = d]
                 \in [Students -> [Heads -> Departures \cup {Dropped, Untouched}]]
          BY <4>1, <4>2, CellUpdate
        <4> QED BY <3>2, <4>2, <4>3
      <3> QED BY <2>1, <2>3, <2>6, <3>3 DEF Types, PricesTypeOK, Arranges
    <2>7. CASE BillsClass(r)
      <3>1. PICK bills : bills = request[r].found
        OBVIOUS
      <3>2. \A s \in DOMAIN bills : bills[s] \subseteq Line
        BY <2>2, <2>7, <3>1 DEF Asks, BillsClass
      <3>3. challan' = [s \in Students |-> IF s \in DOMAIN bills
                                           THEN [status |-> "draft", lines |-> bills[s]]
                                           ELSE challan[s]]
        BY <2>7, <3>1 DEF BillsClass
      <3>4. challan' \in [Students -> [status: {"none", "draft", "issued"}, lines: SUBSET Line]]
        <4>1. ASSUME NEW s \in Students, s \in DOMAIN bills
              PROVE  [status |-> "draft", lines |-> bills[s]]
                        \in [status: {"none", "draft", "issued"}, lines: SUBSET Line]
          BY <3>2, <4>1
        <4> QED BY <3>3, <4>1 DEF Types, PricesTypeOK
      <3>5. sold' \subseteq Articles
        BY <2>7 DEF BillsClass, Types, PricesTypeOK
      <3> QED BY <2>1, <2>3, <2>7, <3>4, <3>5 DEF Types, PricesTypeOK, BillsClass
    <2> QED BY <1>7, <2>4, <2>5, <2>6, <2>7
  <1>8. ASSUME NEW x \in Charges \cup Schemes, Creates(x) \/ Retires(x)
        PROVE  Types'
    <2>1. Asked'
      BY <1>8, OthersAsked DEF Creates, Retires, Others, Types
    <2>2. CASE Creates(x)
      BY <2>1, <2>2 DEF Creates, Others, Types, PricesTypeOK
    <2>3. CASE Retires(x)
      BY <2>1, <2>3 DEF Retires, Others, Types, PricesTypeOK
    <2> QED BY <1>8, <2>2, <2>3
  <1>9. ASSUME NEW k \in Schemes, NEW new \in SchemeRate, RevisesScheme(k, new)
        PROVE  Types'
    BY <1>9, OthersAsked DEF RevisesScheme, Others, Types, PricesTypeOK
  <1>10. CASE CreatesStructure \/ Activates
    BY <1>10, OthersAsked DEF CreatesStructure, Activates, Others, Types, PricesTypeOK
  <1>11. ASSUME NEW c \in Charges, Unprices(c)
         PROVE  Types'
    BY <1>11, OthersAsked DEF Unprices, Others, Types, PricesTypeOK
  <1>12. ASSUME NEW s \in Students, NEW h \in Heads, Unarranges(s, h)
         PROVE  Types'
    BY <1>12, OthersAsked DEF Unarranges, Others, Types, PricesTypeOK
  <1>13. ASSUME NEW n \in DOMAIN names, Unnames(n)
         PROVE  Types'
    BY <1>13, OthersAsked DEF Unnames, Others, Types, PricesTypeOK
  <1>14. ASSUME NEW s \in Students, Settles(s)
         PROVE  Types'
    BY <1>14, OthersAsked DEF Settles, Others, Types, PricesTypeOK
  <1>15. CASE UNCHANGED priceVars
    BY <1>15, OthersAsked DEF priceVars, Types, PricesTypeOK
  <1> QED BY <1>1, <1>2, <1>3, <1>4, <1>5, <1>6, <1>7, <1>8, <1>9, <1>10, <1>11, <1>12, <1>13,
             <1>14, <1>15 DEF PricesNext

-----------------------------------------------------------------------------
(* What a guard counts.                                                    *)

Kept == /\ \A h \in Heads : status[h] = "deleted" => ~HeadInUse(h)
        /\ \A k \in Schemes : status[k] = "deleted" => ~SchemeInUse(k)
        /\ \A a \in Articles : status[a] = "deleted" => ~ArticleInUse(a)
        /\ structure.status = "archived" => \A s \in Students : challan[s].status # "draft"

LEMMA KeptIsTheProperty == NothingPricedIsGone <=> (raced \/ Kept)
  BY DEF NothingPricedIsGone, Kept

\* Where nothing is deleted anew and nothing is used anew, what is kept stays so.
LEMMA LessInUse ==
  ASSUME Types, Kept,
         \A x \in Charges \cup Schemes : status'[x] = "deleted" => status[x] = "deleted",
         structure'.status = "archived" => structure.status = "archived",
         \A c \in Charges : structure'.price[c] \in {None, structure.price[c]},
         \A s \in Students, h \in Heads : arranged'[s][h] \in {arranged[s][h], Dropped},
         \A n \in {"policy", "schedule"} : names'[n] \in {names[n], None},
         DOMAIN names' = {"policy", "schedule"},
         \A s \in Students : challan'[s].status = "draft" => challan[s].status = "draft",
         sold' = sold
  PROVE  Kept'
  <1>1. None \notin Heads /\ Heads \subseteq Charges /\ Articles \subseteq Charges
        /\ DOMAIN names = {"policy", "schedule"}
    BY PriceConstants DEF PriceConstants, Charges, Types, PricesTypeOK
  <1>2. ASSUME NEW h \in Heads, status'[h] = "deleted", HeadInUse(h)'
        PROVE  FALSE
    <2>1. ~HeadInUse(h)
      BY <1>1, <1>2 DEF Kept
    <2>2. h \notin Priced'
      BY <1>1, <2>1 DEF HeadInUse, Priced
    <2>3. \A s \in Students : arranged'[s][h].mode \in {"none", "dropped"}
      BY <2>1 DEF HeadInUse, Dropped
    <2>4. \A n \in DOMAIN names' : names'[n] # h
      BY <1>1, <2>1 DEF HeadInUse
    <2> QED BY <1>2, <2>2, <2>3, <2>4 DEF HeadInUse
  <1>3. ASSUME NEW k \in Schemes, status'[k] = "deleted", SchemeInUse(k)'
        PROVE  FALSE
    <2>1. PICK s \in Students, h \in Heads :
             /\ arranged'[s][h].mode = "discount"
             /\ arranged'[s][h].by = [kind |-> "scheme", value |-> k]
      BY <1>3 DEF SchemeInUse
    <2>2. arranged'[s][h] = arranged[s][h]
      BY <2>1 DEF Dropped
    <2>3. SchemeInUse(k)
      BY <2>1, <2>2 DEF SchemeInUse
    <2> QED BY <1>3, <2>3 DEF Kept
  <1>4. ASSUME NEW a \in Articles, status'[a] = "deleted"
        PROVE  ~ArticleInUse(a)'
    BY <1>1, <1>4 DEF Kept, ArticleInUse, Priced
  <1>5. structure'.status = "archived" => \A s \in Students : challan'[s].status # "draft"
    BY DEF Kept
  <1> QED BY <1>2, <1>3, <1>4, <1>5 DEF Kept

\* A request that writes finds its guard as it read it, or the race is on record.
LEMMA WritesKeep ==
  ASSUME Types, Kept, NEW r \in Requests, raced' = FALSE,
         Deletes(r) \/ Prices(r) \/ Arranges(r) \/ Names(r) \/ Archives(r) \/ BillsClass(r)
         \/ Fails(r)
  PROVE  Kept'
  <1>0. /\ None \notin Heads /\ Heads \subseteq Charges /\ Articles \subseteq Charges
        /\ DOMAIN names = {"policy", "schedule"} /\ Asks(request[r])
        /\ Heads \cap Articles = {}
    BY PriceConstants DEF PriceConstants, Charges, Types, PricesTypeOK, Asked
  <1>1. CASE Deletes(r)
    <2>1. PICK x \in Charges \cup Schemes : x = request[r].on
      BY <1>0, <1>1 DEF Asks, Deletes
    <2>2. MayDelete(x) /\ status' = [status EXCEPT ![x] = "deleted"]
      BY <1>1, <2>1 DEF Deletes, Ends
    <2>3. \A y \in Charges \cup Schemes : status'[y] = "deleted" => y = x \/ status[y] = "deleted"
      BY <2>2 DEF Types, PricesTypeOK
    <2>4. UNCHANGED <<structure, arranged, names, challan, sold>>
      BY <1>1 DEF Deletes
    <2>5. /\ \A h \in Heads : status'[h] = "deleted" => ~HeadInUse(h)
          /\ \A k \in Schemes : status'[k] = "deleted" => ~SchemeInUse(k)
          /\ \A a \in Articles : status'[a] = "deleted" => ~ArticleInUse(a)
      BY <1>0, <2>2, <2>3 DEF MayDelete, Kept
    <2>6. /\ \A h \in Heads : HeadInUse(h)' <=> HeadInUse(h)
          /\ \A k \in Schemes : SchemeInUse(k)' <=> SchemeInUse(k)
          /\ \A a \in Articles : ArticleInUse(a)' <=> ArticleInUse(a)
      BY <2>4 DEF HeadInUse, SchemeInUse, ArticleInUse, Priced
    <2> QED BY <2>4, <2>5, <2>6 DEF Kept
  <1>2. CASE Prices(r)
    <2>1. PICK c \in Charges : c = request[r].on
      BY <1>0, <1>2 DEF Asks, Prices
    <2>2. MayPrice(c) /\ structure' = [structure EXCEPT !.price[c] = request[r].what]
      BY <1>2, <2>1 DEF Prices, Ends
    <2>3. UNCHANGED <<status, arranged, names, challan, sold>>
      BY <1>2 DEF Prices
    <2>4. \A h \in Charges : h # c => (h \in Priced' <=> h \in Priced)
      BY <2>2 DEF Types, PricesTypeOK, Priced
    <2>5. status[c] = "active" /\ structure'.status = structure.status
      BY <2>2 DEF MayPrice, Types, PricesTypeOK
    <2>6. \A h \in Heads : status'[h] = "deleted" => ~HeadInUse(h)'
      BY <1>0, <2>3, <2>4, <2>5 DEF Kept, HeadInUse
    <2>7. \A k \in Schemes : SchemeInUse(k)' <=> SchemeInUse(k)
      BY <2>3 DEF SchemeInUse
    <2>8. \A a \in Articles : status'[a] = "deleted" => ~ArticleInUse(a)'
      BY <1>0, <2>3, <2>4, <2>5 DEF Kept, ArticleInUse
    <2> QED BY <2>3, <2>5, <2>6, <2>7, <2>8 DEF Kept
  <1>3. CASE Arranges(r)
    <2>1. PICK s \in Students, h \in Heads, d \in Departures :
             request[r].on[1] = s /\ request[r].on[2] = h /\ request[r].what = d
      BY <1>0, <1>3 DEF Asks, Arranges
    <2>2. MayArrange(h, d) /\ UNCHANGED <<status, structure, names, challan, sold>>
      BY <1>3, <2>1 DEF Arranges, Ends
    <2>3. \A t \in Students, g \in Heads :
             arranged'[t][g] = arranged[t][g] \/ (t = s /\ g = h /\ arranged'[t][g] = d)
      <3>1. arranged' = arranged \/ arranged' = [arranged EXCEPT ![s][h] = d]
        BY <1>3, <2>1 DEF Arranges
      <3> QED BY <3>1 DEF Types, PricesTypeOK
    <2>4. Present(h) /\ (d.mode = "discount" /\ d.by.kind = "scheme"
                         => status[d.by.value] = "active")
      BY <2>2 DEF MayArrange
    <2>5. ASSUME NEW g \in Heads, status'[g] = "deleted" PROVE ~HeadInUse(g)'
      <3>1. g # h /\ ~HeadInUse(g)
        BY <2>2, <2>4, <2>5 DEF Present, Kept
      <3>2. \A t \in Students : arranged'[t][g] = arranged[t][g]
        BY <2>3, <3>1
      <3> QED BY <2>2, <3>1, <3>2 DEF HeadInUse, Priced
    <2>6. ASSUME NEW k \in Schemes, status'[k] = "deleted" PROVE ~SchemeInUse(k)'
      <3>1. ~SchemeInUse(k) /\ status[k] = "deleted"
        BY <2>2, <2>6 DEF Kept
      <3>2. ~(d.mode = "discount" /\ d.by = [kind |-> "scheme", value |-> k])
        BY <2>4, <3>1
      <3> QED BY <2>3, <3>1, <3>2 DEF SchemeInUse
    <2>7. \A a \in Articles : status'[a] = "deleted" => ~ArticleInUse(a)'
      BY <2>2 DEF Kept, ArticleInUse, Priced
    <2> QED BY <2>2, <2>5, <2>6, <2>7 DEF Kept
  <1>4. CASE Names(r)
    <2>1. PICK n \in {"policy", "schedule"}, h \in Heads : n = request[r].on /\ h = request[r].what
      BY <1>0, <1>4 DEF Asks, Names
    <2>2. /\ Present(h) /\ names' = [names EXCEPT ![n] = h]
          /\ UNCHANGED <<status, structure, arranged, challan, sold>>
      BY <1>4, <2>1 DEF Names, Ends, MayName
    <2>3. ASSUME NEW g \in Heads, status'[g] = "deleted" PROVE ~HeadInUse(g)'
      <3>1. g # h /\ ~HeadInUse(g)
        BY <2>2, <2>3 DEF Present, Kept
      <3>2. DOMAIN names' = DOMAIN names /\ \A m \in DOMAIN names : names'[m] # g
        BY <1>0, <2>2, <3>1 DEF HeadInUse
      <3> QED BY <2>2, <3>1, <3>2 DEF HeadInUse, Priced
    <2>4. /\ \A k \in Schemes : status'[k] = "deleted" => ~SchemeInUse(k)'
          /\ \A a \in Articles : status'[a] = "deleted" => ~ArticleInUse(a)'
      BY <2>2 DEF Kept, SchemeInUse, ArticleInUse, Priced
    <2> QED BY <2>2, <2>3, <2>4 DEF Kept
  <1>5. CASE Archives(r)
    <2>1. /\ MayArchive /\ structure' = [structure EXCEPT !.status = "archived"]
          /\ UNCHANGED <<status, arranged, names, challan, sold>>
      BY <1>5 DEF Archives, Ends
    <2>2. structure'.price = structure.price
      BY <2>1 DEF Types, PricesTypeOK
    <2>3. /\ \A h \in Heads : status'[h] = "deleted" => ~HeadInUse(h)'
          /\ \A k \in Schemes : status'[k] = "deleted" => ~SchemeInUse(k)'
          /\ \A a \in Articles : status'[a] = "deleted" => ~ArticleInUse(a)'
      BY <2>1, <2>2 DEF Kept, HeadInUse, SchemeInUse, ArticleInUse, Priced
    <2> QED BY <2>1, <2>3 DEF Kept, MayArchive
  <1>6. CASE BillsClass(r)
    <2> DEFINE bills == request[r].found
    <2>0. PICK stationery \in BOOLEAN : stationery = request[r].what
      BY <1>0, <1>6 DEF Asks, BillsClass
    <2>1. /\ structure.status = "active"
          /\ UNCHANGED <<status, structure, arranged, names>>
          /\ sold' = sold \cup {a \in Articles : \E s \in DOMAIN bills : \E l \in bills[s] :
                                                    l.charge = a}
          /\ DOMAIN bills \subseteq Students
          /\ \A s \in DOMAIN bills : bills[s] = Billed(s, stationery)
      BY <1>0, <1>6, <2>0 DEF BillsClass, Ends, MayBill, Asks
    <2> HIDE DEF bills
    <2>2. /\ \A h \in Heads : status'[h] = "deleted" => ~HeadInUse(h)'
          /\ \A k \in Schemes : status'[k] = "deleted" => ~SchemeInUse(k)'
      BY <2>1 DEF Kept, HeadInUse, SchemeInUse, Priced
    <2>3. ASSUME NEW a \in Articles, status'[a] = "deleted" PROVE ~ArticleInUse(a)'
      <3>1. ~ArticleInUse(a) /\ Priced' = Priced
        BY <2>1, <2>3 DEF Kept, Priced
      <3>2. ASSUME NEW s \in Students, NEW l \in Billed(s, stationery), l.charge = a
            PROVE  FALSE
        <4>1. \A k \in Lines(s) : k.head \in Heads
          BY LinesTyped
        <4>2. l \notin EffectiveLines(s)
          BY <1>0, <3>2, <4>1 DEF EffectiveLines
        <4>3. l \in StationeryLines
          BY <3>2, <4>2 DEF Billed
        <4> QED BY <3>1, <3>2, <4>3 DEF StationeryLines, ArticleInUse
      <3>3. a \notin sold'
        BY <2>1, <3>1, <3>2 DEF ArticleInUse
      <3> QED BY <3>1, <3>3 DEF ArticleInUse
    <2> QED BY <2>1, <2>2, <2>3 DEF Kept
  <1>7. CASE Fails(r)
    BY <1>7 DEF Fails, Kept, HeadInUse, SchemeInUse, ArticleInUse, Priced
  <1> QED BY <1>1, <1>2, <1>3, <1>4, <1>5, <1>6, <1>7

LEMMA NothingGoesUnseen ==
  ASSUME Types, NothingPricedIsGone, [PricesNext]_priceVars
  PROVE  NothingPricedIsGone'
  <1> SUFFICES ASSUME raced' = FALSE PROVE Kept'
    <2>1. raced' \in BOOLEAN
      BY TypesKept DEF Types, PricesTypeOK
    <2> QED BY <2>1 DEF NothingPricedIsGone, Kept
  <1>0. DOMAIN names = {"policy", "schedule"} /\ Heads \subseteq Charges
    BY DEF Types, PricesTypeOK, Charges
  <1>1. CASE UNCHANGED <<status, structure, arranged, names, challan, sold, raced>>
    BY <1>1 DEF NothingPricedIsGone, Kept, HeadInUse, SchemeInUse, ArticleInUse, Priced
  <1>2. ASSUME NEW r \in Requests,
               Deletes(r) \/ Prices(r) \/ Arranges(r) \/ Names(r) \/ Archives(r) \/ BillsClass(r)
               \/ Fails(r)
        PROVE  Kept'
    <2>1. Kept
      BY <1>2, KeptIsTheProperty
         DEF Deletes, Prices, Arranges, Names, Archives, BillsClass, Fails, Ends, Types, PricesTypeOK
    <2> QED BY <1>2, <2>1, WritesKeep
  <1>3. ASSUME raced' = raced PROVE Kept
    BY <1>3, KeptIsTheProperty
  <1>4. ASSUME NEW x \in Charges \cup Schemes, Creates(x) \/ Retires(x)
        PROVE  Kept'
    <2>1. Kept
      BY <1>3, <1>4 DEF Creates, Retires, Others
    <2>2. \A y \in Charges \cup Schemes : status'[y] = "deleted" => status[y] = "deleted"
      BY <1>4 DEF Creates, Retires, Types, PricesTypeOK
    <2>3. UNCHANGED <<structure, arranged, names, challan, sold>>
      BY <1>4 DEF Creates, Retires
    <2> QED BY <1>0, <2>1, <2>2, <2>3, LessInUse
  <1>5. CASE CreatesStructure \/ Activates
    <2>1. Kept
      BY <1>3, <1>5 DEF CreatesStructure, Activates, Others
    <2>2. /\ structure'.status # "archived" /\ structure'.price = structure.price
          /\ UNCHANGED <<status, arranged, names, challan, sold>>
      BY <1>5 DEF CreatesStructure, Activates, Types, PricesTypeOK
    <2> QED BY <1>0, <2>1, <2>2, LessInUse
  <1>6. ASSUME NEW c \in Charges, Unprices(c)
        PROVE  Kept'
    <2>1. Kept
      BY <1>3, <1>6 DEF Unprices, Others
    <2>2. /\ structure'.status = structure.status
          /\ \A a \in Charges : structure'.price[a] \in {None, structure.price[a]}
          /\ UNCHANGED <<status, arranged, names, challan, sold>>
      BY <1>6 DEF Unprices, Types, PricesTypeOK
    <2> QED BY <1>0, <2>1, <2>2, LessInUse
  <1>7. ASSUME NEW s \in Students, NEW h \in Heads, Unarranges(s, h)
        PROVE  Kept'
    <2>1. Kept
      BY <1>3, <1>7 DEF Unarranges, Others
    <2>2. /\ \A t \in Students, g \in Heads : arranged'[t][g] \in {arranged[t][g], Dropped}
          /\ UNCHANGED <<status, structure, names, challan, sold>>
      BY <1>7 DEF Unarranges, Types, PricesTypeOK
    <2> QED BY <1>0, <2>1, <2>2, LessInUse
  <1>8. ASSUME NEW n \in DOMAIN names, Unnames(n)
        PROVE  Kept'
    <2>1. Kept
      BY <1>3, <1>8 DEF Unnames, Others
    <2>2. /\ \A m \in {"policy", "schedule"} : names'[m] \in {names[m], None}
          /\ DOMAIN names' = {"policy", "schedule"}
          /\ UNCHANGED <<status, structure, arranged, challan, sold>>
      BY <1>0, <1>8 DEF Unnames, Types, PricesTypeOK
    <2> QED BY <1>0, <2>1, <2>2, LessInUse
  <1>9. ASSUME NEW s \in Students, Settles(s)
        PROVE  Kept'
    <2>1. Kept
      BY <1>3, <1>9 DEF Settles, Others
    <2>2. /\ \A t \in Students : challan'[t].status = "draft" => challan[t].status = "draft"
          /\ UNCHANGED <<status, structure, arranged, names, sold>>
      BY <1>9 DEF Settles, Types, PricesTypeOK
    <2> QED BY <1>0, <2>1, <2>2, LessInUse
  <1>10. ASSUME NEW k \in Schemes, NEW new \in SchemeRate, RevisesScheme(k, new)
         PROVE  Kept'
    BY <1>10, <1>1 DEF RevisesScheme, Others
  <1>11. ASSUME NEW r, NEW op, NEW on, NEW what, NEW found, Begins(r, op, on, what, found)
         PROVE  Kept'
    BY <1>11, <1>1 DEF Begins
  <1>12. CASE UNCHANGED priceVars
    BY <1>12, <1>1 DEF priceVars
  <1> QED BY <1>2, <1>4, <1>5, <1>6, <1>7, <1>8, <1>9, <1>10, <1>11, <1>12
          DEF PricesNext, BeginsDelete, BeginsPrice, BeginsArrange, BeginsName, BeginsArchive, BeginsBill

-----------------------------------------------------------------------------
(* Theorems.                                                               *)

PriceInv == Types /\ NothingPricedIsGone

LEMMA InitPriceInv ==
  ASSUME PricesInit
  PROVE  PriceInv
  <1>1. Asked
    BY NobodyAsks DEF PricesInit, Asked
  <1>2. rate \in [Schemes -> SchemeRate]
    <2>1. \E new : new \in SchemeRate
      <3>1. PICK v : v \in Percents
        BY PriceConstants DEF PriceConstants
      <3>2. [kind |-> "percent", value |-> v] \in SchemeRate
        BY <3>1 DEF SchemeRate
      <3> QED BY <3>2
    <2>2. (CHOOSE new \in SchemeRate : TRUE) \in SchemeRate
      BY <2>1
    <2> QED BY <2>2 DEF PricesInit
  <1>3. challan \in [Students -> [status: {"none", "draft", "issued"}, lines: SUBSET Line]]
    <2>1. [status |-> "none", lines |-> {}] \in [status: {"none", "draft", "issued"},
                                                lines: SUBSET Line]
      OBVIOUS
    <2> QED BY <2>1 DEF PricesInit
  <1>4. PricesTypeOK
    <2>1. structure \in [status: {"absent", "draft", "active", "archived"},
                        price: [Charges -> Nat \cup {None}]]
      BY DEF PricesInit
    <2>2. arranged \in [Students -> [Heads -> Departures \cup {Dropped, Untouched}]]
      BY DEF PricesInit
    <2>3. status \in [Charges \cup Schemes -> {"absent", "active", "inactive", "deleted"}]
      BY DEF PricesInit
    <2>4. names \in [{"policy", "schedule"} -> Heads \cup {None}]
      BY DEF PricesInit
    <2>5. begun \in 0..MaxRequests
      <3>1. MaxRequests \in Nat /\ begun = 0
        BY PriceConstants DEF PriceConstants, PricesInit
      <3> QED BY <3>1
    <2>6. raced \in BOOLEAN
      BY DEF PricesInit
    <2>7. sold \subseteq Articles
      BY DEF PricesInit
    <2> QED BY <1>2, <1>3, <2>1, <2>2, <2>3, <2>4, <2>5, <2>6, <2>7 DEF PricesTypeOK
  <1>5. \A x \in Charges \cup Schemes : status[x] # "deleted"
    BY DEF PricesInit
  <1>6. Kept
    BY <1>5 DEF PricesInit, Kept, Charges
  <1> QED BY <1>1, <1>4, <1>6, KeptIsTheProperty DEF PriceInv, Types

LEMMA PriceInvKept == PricesSpec => []PriceInv
  <1>1. PricesInit => PriceInv
    BY InitPriceInv
  <1>2. PriceInv /\ [PricesNext]_priceVars => PriceInv'
    BY TypesKept, NothingGoesUnseen DEF PriceInv
  <1> QED BY <1>1, <1>2, PTL DEF PricesSpec

\* Every state of the price list, and of what was billed from it, is of its type
\* (modules/fees/models.py).
THEOREM PricesTyped == PricesSpec => []PricesTypeOK
  <1>1. PriceInv => PricesTypeOK
    BY DEF PriceInv, Types
  <1> QED BY <1>1, PriceInvKept, PTL

\* Nothing that is priced, arranged, named or sold is a deleted row, unless a guard was
\* outdated when its request wrote (delete_head, delete_concession, delete_stationery_item,
\* archive_structure): the guards count everything that refers to a row.
THEOREM NothingPricedGoes == PricesSpec => []NothingPricedIsGone
  <1>1. PriceInv => NothingPricedIsGone
    BY DEF PriceInv
  <1> QED BY <1>1, PriceInvKept, PTL

\* Whatever the prices, percentages, concessions and arrangements: no line takes off more than
\* it charges, and the table takes the lines of every student, but of one to whom a head is
\* ADDED that the class is billed for as well (_effective_lines, _discount_for, _create_voucher
\* and the constraints of fee_voucher_items).
THEOREM TheClassIsBillable == PricesSpec => []ClassIsBillable
  <1>1. PriceInv => ClassIsBillable
    BY Billable DEF PriceInv
  <1> QED BY <1>1, PriceInvKept, PTL

-----------------------------------------------------------------------------
(* Late fees.                                                              *)

\* Division rounds down: so many whole intervals have passed.
LEMMA DivisionRoundsDown ==
  ASSUME NEW x \in Nat, NEW e \in Nat \ {0}
  PROVE  x \div e \in Nat /\ e * (x \div e) <= x
  BY Z3

\* A product grows with its factor.
LEMMA ProductGrows ==
  ASSUME NEW e \in Nat, NEW m \in Nat, NEW n \in Nat, m <= n
  PROVE  e * m <= e * n
  <1>1. PICK d \in Nat : n = m + d
    BY n - m \in Nat /\ n = m + (n - m)
  <1>2. e * n = e * m + e * d
    BY <1>1
  <1>3. e * d \in Nat
    OBVIOUS
  <1> QED BY <1>2, <1>3

\* The lesser of two amounts (Min of the community modules).
LEMMA LesserOf ==
  ASSUME NEW x \in Int, NEW y \in Int
  PROVE  Min({x, y}) \in Int /\ Min({x, y}) <= x /\ Min({x, y}) <= y
  <1>1. \E m \in {x, y} : \A n \in {x, y} : m <= n
    OBVIOUS
  <1> QED BY <1>1 DEF Min

-----------------------------------------------------------------------------
(* What stands against a challan, as a function of its fines.               *)

Live(s) == {k \in DOMAIN s : s[k].status # "void"}
Worth(s) == SumFunction([k \in Live(s) |-> s[k].amount])
Weighs(s, k) == IF k \in Live(s) THEN s[k].amount ELSE 0

\* What is taken on a challan is the worth of its fines.
LEMMA TakenIsWorth ==
  ASSUME NEW b
  PROVE  Taken(b) = Worth(fine[b]) /\ Taken(b)' = Worth(fine'[b])
  BY DEF Taken, Charged, Standing, Sum, Worth, Live

\* Fines are numbered from the oldest, and each is worth its amount.
LEMMA SequenceOfFines ==
  ASSUME NEW s \in Seq(Fine)
  PROVE  /\ Len(s) \in Nat /\ DOMAIN s = 1..Len(s) /\ IsFiniteSet(DOMAIN s)
         /\ \A k \in DOMAIN s : s[k] \in Fine /\ s[k].amount \in Nat /\ Weighs(s, k) \in Nat
  <1>1. Len(s) \in Nat /\ DOMAIN s = 1..Len(s)
    OBVIOUS
  <1>2. IsFiniteSet(1..Len(s))
    BY <1>1, FS_Interval
  <1>3. \A k \in DOMAIN s : s[k] \in Fine
    BY <1>1
  <1> QED BY <1>1, <1>2, <1>3 DEF Weighs, Fine

\* The worth of fines is a sum over all of them in which the void ones weigh nothing.
LEMMA WorthIsSum ==
  ASSUME NEW s \in Seq(Fine), NEW n \in Nat, Len(s) <= n
  PROVE  /\ Worth(s) = SumFunctionOnSet([k \in 1..n |-> Weighs(s, k)], 1..n)
         /\ Worth(s) \in Nat
  <1> DEFINE f == [k \in Live(s) |-> s[k].amount]
             g == [k \in 1..n |-> Weighs(s, k)]
  <1>1. DOMAIN s = 1..Len(s) /\ \A k \in DOMAIN s : Weighs(s, k) \in Nat
    BY SequenceOfFines
  <1>2. IsFiniteSet(1..n)
    BY FS_Interval
  <1>3. \A k \in 1..n : g[k] \in Nat
    BY <1>1 DEF Weighs, Live
  <1>4. DOMAIN f \subseteq 1..n
    BY <1>1 DEF Live
  <1>5. \A k \in 1..n : g[k] = IF k \in DOMAIN f THEN f[k] ELSE 0
    BY DEF Weighs
  <1>6. Worth(s) = SumFunction(f)
    BY DEF Worth
  <1> HIDE DEF f, g
  <1>7. \A k \in 1..n : g[k] \in Int /\ g[k] = IF k \in DOMAIN f THEN f[k] ELSE 0
    BY <1>3, <1>5
  <1>8. SumFunction(f) = SumFunctionOnSet(g, 1..n)
    BY ONLY <1>2, <1>4, <1>7, SumWhere
  <1>9. SumFunctionOnSet(g, 1..n) \in Nat
    BY ONLY <1>2, <1>3, SumNat
  <1> QED BY <1>6, <1>8, <1>9 DEF g

LEMMA WorthIsNat == ASSUME NEW s \in Seq(Fine) PROVE Worth(s) \in Nat
  <1>1. Len(s) \in Nat /\ Len(s) <= Len(s)
    BY SequenceOfFines
  <1> HIDE DEF Worth
  <1> QED BY <1>1, WorthIsSum

\* Fines that move from hand to hand or are void weigh no more than before.
LEMMA WorthShrinks ==
  ASSUME NEW s \in Seq(Fine), NEW t \in Seq(Fine), Len(t) = Len(s),
         \A k \in DOMAIN s : /\ t[k].amount = s[k].amount
                             /\ s[k].status = "void" => t[k].status = "void"
  PROVE  Worth(t) <= Worth(s)
  <1> DEFINE n == Len(s)
             f == [k \in 1..n |-> Weighs(s, k)]
             g == [k \in 1..n |-> Weighs(t, k)]
  <1>1. /\ n \in Nat /\ DOMAIN s = 1..n /\ DOMAIN t = 1..n /\ IsFiniteSet(1..n)
        /\ \A k \in 1..n : Weighs(s, k) \in Nat /\ Weighs(t, k) \in Nat /\ s[k].amount \in Nat
    BY SequenceOfFines
  <1>2. \A k \in 1..n : Weighs(t, k) <= Weighs(s, k)
    BY <1>1 DEF Weighs, Live
  <1>3. \A k \in 1..n : g[k] \in Int /\ f[k] \in Int /\ g[k] <= f[k]
    BY <1>1, <1>2
  <1>4. Worth(s) = SumFunctionOnSet(f, 1..n) /\ Worth(t) = SumFunctionOnSet(g, 1..n)
    BY <1>1, WorthIsSum
  <1> HIDE DEF f, g, n
  <1>5. SumFunctionOnSet(g, 1..n) <= SumFunctionOnSet(f, 1..n)
    BY ONLY <1>1, <1>3, SumLeq
  <1> QED BY <1>4, <1>5

\* A new fine adds its amount.
LEMMA WorthGrows ==
  ASSUME NEW s \in Seq(Fine), NEW x \in Fine, x.status # "void"
  PROVE  /\ Append(s, x) \in Seq(Fine) /\ Len(Append(s, x)) = Len(s) + 1
         /\ Worth(Append(s, x)) = Worth(s) + x.amount
  <1> DEFINE t == Append(s, x)
             n == Len(s) + 1
             f == [k \in 1..n |-> Weighs(s, k)]
             g == [k \in 1..n |-> Weighs(t, k)]
  <1>1. t \in Seq(Fine) /\ Len(t) = n /\ t[n] = x /\ Len(s) \in Nat /\ n \in Nat
          /\ \A k \in 1..Len(s) : t[k] = s[k]
    OBVIOUS
  <1> HIDE DEF t
  <1>2. /\ DOMAIN s = 1..Len(s) /\ DOMAIN t = 1..n
        /\ \A k \in DOMAIN s : Weighs(s, k) \in Nat
        /\ \A k \in DOMAIN t : Weighs(t, k) \in Nat
        /\ IsFiniteSet(DOMAIN t)
    BY <1>1, SequenceOfFines
  <1>3. Weighs(s, n) = 0 /\ Weighs(t, n) = x.amount
    BY <1>1, <1>2 DEF Weighs, Live
  <1>4. \A k \in 1..n : k # n => Weighs(t, k) = Weighs(s, k)
    BY <1>1, <1>2 DEF Weighs, Live
  <1>5. \A k \in 1..n : f[k] \in Int /\ g[k] \in Int
    BY <1>1, <1>2, <1>3, <1>4
  <1>6. (\A k \in (1..n) \ {n} : g[k] = f[k]) /\ n \in 1..n /\ IsFiniteSet(1..n)
    BY <1>1, <1>2, <1>4
  <1>7. g[n] = x.amount /\ f[n] = 0
    BY <1>3, <1>6
  <1>8. Worth(s) = SumFunctionOnSet(f, 1..n) /\ Worth(s) \in Nat
    <2>1. Len(s) <= n /\ n \in Nat
      BY <1>1
    <2> HIDE DEF n
    <2> QED BY <2>1, WorthIsSum
  <1>9. Worth(t) = SumFunctionOnSet(g, 1..n)
    BY <1>1, WorthIsSum
  <1>10. x.amount \in Nat
    BY DEF Fine
  <1> HIDE DEF f, g, n
  <1>11. SumFunctionOnSet(g, 1..n) = SumFunctionOnSet(f, 1..n) + (g[n] - f[n])
    BY ONLY <1>5, <1>6, SumChange
  <1>12. Worth(t) = Worth(s) + x.amount
    BY <1>7, <1>8, <1>9, <1>10, <1>11
  <1> QED BY <1>1, <1>12 DEF t, n

-----------------------------------------------------------------------------
\* A challan is paid in whole receipts.
InInstalments == \A b \in Bills : \E n \in Nat : bill[b].paid = n * Instalment
IInv == TypeOK /\ InInstalments /\ NeverAheadOfSchedule /\ WithinCap

LEMMA InitIInv == ASSUME Init PROVE IInv
  <1> USE LateFeesAssumption
  <1>1. \A b \in Bills : fine[b] = <<>>
    BY DEF Init
  <1>2. TypeOK
    <2>1. bill \in [Bills -> Bill]
      BY DEF Init, Bill
    <2>2. <<>> \in Seq(Fine) /\ policies \in Seq(Policies \cup {NoPolicy})
      BY DEF Init
    <2>3. fine \in [Bills -> Seq(Fine)]
      BY <2>2 DEF Init
    <2>4. day \in 0..LastDay /\ quiet \in BOOLEAN
      <3>1. day = 0 /\ quiet = FALSE
        BY DEF Init
      <3>2. LastDay \in Nat
        OBVIOUS
      <3>3. 0 \in 0..LastDay
        BY ONLY <3>2
      <3> QED BY <3>1, <3>3
    <2> QED BY <2>1, <2>2, <2>3, <2>4 DEF TypeOK
  <1>3. InInstalments
    <2>1. 0 \in Nat /\ 0 = 0 * Instalment
      OBVIOUS
    <2> QED BY <2>1 DEF Init, InInstalments
  <1> QED BY <1>1, <1>2, <1>3 DEF IInv, NeverAheadOfSchedule, WithinCap

\* A step after which every challan has as many fines as before, of no more worth.
LEMMA FinesKept ==
  ASSUME IInv, TypeOK', InInstalments', day <= day', Rules \subseteq Rules',
         \A b \in Bills : /\ Len(fine'[b]) = Len(fine[b])
                          /\ Worth(fine'[b]) <= Worth(fine[b])
  PROVE  IInv'
  <1> USE LateFeesAssumption
  <1>1. ASSUME NEW b \in Bills, fine'[b] # <<>>
        PROVE  /\ fine[b] # <<>> /\ Len(fine[b]) \in Nat
               /\ Worth(fine[b]) \in Nat /\ Worth(fine'[b]) \in Nat
    <2>1. fine[b] \in Seq(Fine) /\ fine'[b] \in Seq(Fine)
      BY DEF IInv, TypeOK
    <2>2. Len(fine[b]) \in Nat /\ Len(fine'[b]) \in Nat
      BY <2>1
    <2>3. Worth(fine[b]) \in Nat /\ Worth(fine'[b]) \in Nat
      BY <2>1, WorthIsNat
    <2>4. Len(fine'[b]) = Len(fine[b])
      OBVIOUS
    <2> QED BY <1>1, <2>1, <2>2, <2>3, <2>4
  <1>2. ASSUME NEW b \in Bills, fine'[b] # <<>>
        PROVE  \E p \in Rules' : Allows(p, b)'
    <2>1. PICK p \in Rules : Allows(p, b)
      BY <1>1, <1>2 DEF IInv, NeverAheadOfSchedule
    <2>2. p.grace \in Nat /\ p.every \in Nat /\ Due[b] \in Nat /\ day \in Int /\ day' \in Int
      BY <2>1 DEF IInv, TypeOK, Rules, ToSet, Policy
    <2>3. p.every * (Len(fine[b]) - 1) \in Int
      BY <1>1, <1>2, <2>2
    <2>4. Len(fine'[b]) = Len(fine[b])
      OBVIOUS
    <2>5. Allows(p, b)'
      BY <2>1, <2>2, <2>3, <2>4 DEF Allows
    <2> QED BY <2>1, <2>5
  <1>3. ASSUME NEW b \in Bills, fine'[b] # <<>>
        PROVE  \E p \in Rules' : p.cap = NoCap \/ Taken(b)' <= p.cap
    <2>1. PICK p \in Rules : p.cap = NoCap \/ Taken(b) <= p.cap
      BY <1>1, <1>3 DEF IInv, WithinCap
    <2>2. p.cap # NoCap => p.cap \in Nat
      BY <2>1 DEF IInv, TypeOK, Rules, ToSet, Policy
    <2>3. Worth(fine[b]) \in Nat /\ Worth(fine'[b]) \in Nat
      BY WorthIsNat DEF IInv, TypeOK
    <2>4. p.cap = NoCap \/ Worth(fine'[b]) <= p.cap
      BY <2>1, <2>2, <2>3, TakenIsWorth
    <2> QED BY <2>4, TakenIsWorth
  <1> QED BY <1>2, <1>3 DEF IInv, NeverAheadOfSchedule, WithinCap

-----------------------------------------------------------------------------
(* The pass.                                                                *)

\* The rule in force is one of the rules there have been.
LEMMA RuleInForce ==
  ASSUME TypeOK, Active # NoPolicy
  PROVE  Active \in Policies /\ Active \in Rules
  <1>1. policies \in Seq(Policies \cup {NoPolicy}) /\ policies # <<>>
    BY DEF Active, TypeOK
  <1>2. Len(policies) \in DOMAIN policies /\ Active = policies[Len(policies)]
    BY <1>1 DEF Active, Last
  <1> QED BY <1>1, <1>2 DEF Rules, ToSet

\* A fine that the pass adds is within what the rule in force allows.
LEMMA FinesOnSchedule ==
  ASSUME IInv, NEW p \in Policies, NEW b \in Candidates(p), Fines(p, b)
  PROVE  /\ Due[b] + p.grace <= day
         /\ IF p.every = 0 THEN Len(fine[b]) + 1 = 1
            ELSE p.every * Len(fine[b]) <= day - Due[b] - p.grace
  <1> USE LateFeesAssumption
  <1>1. b \in Bills /\ Due[b] < day - p.grace
    BY DEF Candidates, Overdue
  <1>2. Len(fine[b]) \in Nat /\ Due[b] \in Nat /\ day \in Nat /\ p.grace \in Nat
          /\ p.every \in Nat
    BY <1>1 DEF IInv, TypeOK, Policy
  <1> DEFINE late == day - Due[b] - p.grace
  <1>3. late \in Nat
    BY <1>1, <1>2
  <1>4. Len(fine[b]) < Earned(p, b)
    BY DEF Fines
  <1>5. CASE p.every = 0
    BY <1>1, <1>2, <1>3, <1>4, <1>5 DEF Earned
  <1>6. CASE p.every # 0
    <2>1. late \div p.every \in Nat /\ p.every * (late \div p.every) <= late
      BY <1>2, <1>3, <1>6, DivisionRoundsDown
    <2>2. Earned(p, b) = late \div p.every + 1
      BY <1>2, <1>3, <1>6 DEF Earned
    <2>3. Len(fine[b]) <= late \div p.every
      BY <1>2, <1>4, <2>1, <2>2
    <2>4. p.every * Len(fine[b]) <= p.every * (late \div p.every)
      BY <1>2, <2>1, <2>3, ProductGrows
    <2>5. p.every * Len(fine[b]) \in Nat /\ p.every * (late \div p.every) \in Nat
      BY <1>2, <2>1
    <2>6. p.every * Len(fine[b]) <= late
      BY <1>3, <2>1, <2>4, <2>5
    <2> QED BY <1>1, <1>2, <1>6, <2>6
  <1> QED BY <1>5, <1>6

\* Its amount is whole, and leaves the ceiling of the rule in force unbroken.
LEMMA LevyWithinCap ==
  ASSUME IInv, NEW p \in Policies, NEW b \in Bills
  PROVE  /\ Levy(p, b) \in Int
         /\ p.cap # NoCap => Levy(p, b) <= p.cap - Taken(b)
         /\ Taken(b) \in Nat /\ (p.cap # NoCap => p.cap \in Nat)
  <1> USE LateFeesAssumption
  <1>1. p.kind \in {"fixed", "percent"} /\ p.value \in Nat /\ (p.cap # NoCap => p.cap \in Nat)
    BY DEF Policy
  <1>2. Outstanding(b) \in Int
    BY DEF IInv, TypeOK, Bill, Outstanding
  <1>3. Rate(p, b) \in Int
    <2>1. 2 * Outstanding(b) * p.value + 100 \in Int
      BY <1>1, <1>2
    <2>2. \A x \in Int : x \div 200 \in Int
      BY Z3
    <2> QED BY <1>1, <2>1, <2>2 DEF Rate
  <1>4. Taken(b) \in Nat
    <2>1. fine[b] \in Seq(Fine)
      BY DEF IInv, TypeOK
    <2> QED BY <2>1, WorthIsNat, TakenIsWorth
  <1>5. p.cap # NoCap =>
          Min({Rate(p, b), p.cap - Taken(b)}) \in Int
            /\ Min({Rate(p, b), p.cap - Taken(b)}) <= p.cap - Taken(b)
    <2> SUFFICES ASSUME p.cap # NoCap
                 PROVE  /\ Min({Rate(p, b), p.cap - Taken(b)}) \in Int
                        /\ Min({Rate(p, b), p.cap - Taken(b)}) <= p.cap - Taken(b)
      OBVIOUS
    <2>1. p.cap - Taken(b) \in Int
      BY <1>1, <1>4
    <2> QED BY <1>3, <2>1, LesserOf
  <1> QED BY <1>1, <1>3, <1>4, <1>5 DEF Levy

\* What the pass mints is a fine.
LEMMA MintedIsFine ==
  ASSUME IInv, NEW p \in Policies, NEW b \in Bills, Levy(p, b) > 0
  PROVE  [status |-> "issued", amount |-> Levy(p, b), into |-> NoBill,
          label |-> FineLabel(p, b)] \in Fine
  <1> USE LateFeesAssumption
  <1>1. Levy(p, b) \in Nat \ {0}
    BY LevyWithinCap
  <1>2. FineLabel(p, b) \in Label
    <2>1. Len(fine[b]) + 1 \in Nat
      BY DEF IInv, TypeOK
    <2> DEFINE nth == IF Spare[Period[b]] > 10 THEN IF p.every = 0 THEN 0 ELSE Len(fine[b]) + 1
                      ELSE 0
    <2>2. nth \in Nat
      BY <2>1
    <2> HIDE DEF nth
    <2>3. FineLabel(p, b) = [family |-> Family[b], period |-> Period[b],
                             fine |-> Spare[Period[b]] > 0, nth |-> nth]
      BY DEF FineLabel, nth
    <2>4. (Spare[Period[b]] > 0) \in BOOLEAN
      OBVIOUS
    <2> QED BY <2>2, <2>3, <2>4 DEF Label
  <1> QED BY <1>1, <1>2 DEF Fine

LEMMA PassUnderRule ==
  ASSUME IInv, ApplyLateFees, NEW p, p = Active
  PROVE  IInv'
  <1> USE LateFeesAssumption
  <1> DEFINE fined == {b \in Candidates(p) : Fines(p, b)}
             m == [b \in Bills |-> [status |-> "issued", amount |-> Levy(p, b),
                                    into |-> NoBill, label |-> FineLabel(p, b)]]
  <1>1. /\ p # NoPolicy /\ UNCHANGED <<day, policies, bill>> /\ quiet' \in BOOLEAN
        /\ fine' = fine \/ fine' = [b \in Bills |-> IF b \in fined THEN Append(fine[b], m[b])
                                                    ELSE fine[b]]
    BY DEF ApplyLateFees, IInv, TypeOK
  <1>2. p \in Policies /\ p \in Rules /\ Rules' = Rules
    BY <1>1, RuleInForce DEF IInv, Rules
  <1>3. \A b \in Bills : fine[b] \in Seq(Fine) /\ Len(fine[b]) \in Nat
    <2>1. \A b \in Bills : fine[b] \in Seq(Fine)
      BY DEF IInv, TypeOK
    <2> QED BY <2>1, SequenceOfFines
  <1>4. ASSUME NEW b \in fined
        PROVE  /\ b \in Bills /\ m[b] \in Fine /\ m[b].status # "void"
               /\ m[b].amount = Levy(p, b) /\ b \in Candidates(p) /\ Fines(p, b)
    <2>1. b \in Bills /\ Levy(p, b) > 0
      BY DEF Candidates, Overdue, Fines
    <2> QED BY <1>2, <2>1, MintedIsFine
  <1> HIDE DEF fined, m
  <1>5. ASSUME NEW b \in Bills
        PROVE  \/ fine'[b] = fine[b]
               \/ /\ b \in fined /\ fine'[b] \in Seq(Fine)
                  /\ Len(fine'[b]) = Len(fine[b]) + 1
                  /\ Worth(fine'[b]) = Worth(fine[b]) + m[b].amount
    <2>1. CASE fine'[b] = fine[b]
      BY <2>1
    <2>2. CASE b \in fined /\ fine'[b] = Append(fine[b], m[b])
      BY <1>3, <1>4, <2>2, WorthGrows
    <2> QED BY <1>1, <2>1, <2>2
  <1>6. TypeOK'
    <2>1. \A b \in Bills : fine'[b] \in Seq(Fine)
      BY <1>3, <1>5
    <2>2. fine' \in [Bills -> Seq(Fine)]
      BY <1>1, <2>1 DEF IInv, TypeOK
    <2> QED BY <1>1, <2>2 DEF IInv, TypeOK
  <1>7. InInstalments'
    BY <1>1 DEF IInv, InInstalments
  <1>8. ASSUME NEW b \in Bills, fine'[b] # <<>>
        PROVE  /\ \E q \in Rules : Allows(q, b)'
               /\ \E q \in Rules : q.cap = NoCap \/ Taken(b)' <= q.cap
    <2>1. CASE fine'[b] = fine[b]
      <3>1. Taken(b)' = Taken(b)
        BY <2>1, TakenIsWorth
      <3>2. \A q : Allows(q, b)' <=> Allows(q, b)
        BY <1>1, <2>1 DEF Allows
      <3> QED BY <1>8, <2>1, <3>1, <3>2 DEF IInv, NeverAheadOfSchedule, WithinCap
    <2>2. CASE /\ b \in fined /\ Len(fine'[b]) = Len(fine[b]) + 1
               /\ Worth(fine'[b]) = Worth(fine[b]) + m[b].amount
      <3>1. /\ Due[b] + p.grace <= day
            /\ IF p.every = 0 THEN Len(fine[b]) + 1 = 1
               ELSE p.every * Len(fine[b]) <= day - Due[b] - p.grace
        BY <1>2, <1>4, <2>2, FinesOnSchedule
      <3>2. Len(fine'[b]) - 1 = Len(fine[b])
        BY <1>3, <2>2
      <3>3. Allows(p, b)'
        BY <1>1, <2>2, <3>1, <3>2 DEF Allows
      <3>4. Taken(b)' = Taken(b) + Levy(p, b)
        BY <1>4, <2>2, TakenIsWorth
      <3>5. p.cap = NoCap \/ Taken(b)' <= p.cap
        <4>1. /\ Levy(p, b) \in Int /\ Taken(b) \in Nat
              /\ p.cap # NoCap => p.cap \in Nat /\ Levy(p, b) <= p.cap - Taken(b)
          BY <1>2, LevyWithinCap
        <4> QED BY <3>4, <4>1
      <3> QED BY <1>2, <3>3, <3>5
    <2> QED BY <1>5, <2>1, <2>2
  <1> QED BY <1>2, <1>6, <1>7, <1>8 DEF IInv, NeverAheadOfSchedule, WithinCap

LEMMA PassKeeps == ASSUME IInv, ApplyLateFees PROVE IInv'
  <1>1. PICK p : p = Active
    OBVIOUS
  <1> QED BY <1>1, PassUnderRule

-----------------------------------------------------------------------------
(* The office and the families.                                             *)

\* A challan's total is a sum of bills and fines, which are whole amounts.
LEMMA SumOfNats ==
  ASSUME NEW S, IsFiniteSet(S), NEW f, \A x \in S : f[x] \in Nat, DOMAIN f = S
  PROVE  SumFunction(f) \in Nat
  BY SumNat, SumOfFunction

LEMMA ChargedIsNat ==
  ASSUME TypeOK, NEW b \in Bills, NEW S \in SUBSET DOMAIN fine[b]
  PROVE  Charged(b, S) \in Nat
  <1> DEFINE f == [k \in S |-> fine[b][k].amount]
  <1>1. fine[b] \in Seq(Fine)
    BY DEF TypeOK
  <1>2. IsFiniteSet(S) /\ \A k \in S : f[k] \in Nat
    BY <1>1, SequenceOfFines, FS_Subset
  <1>3. Charged(b, S) = SumFunction(f) /\ DOMAIN f = S
    BY DEF Charged, Sum
  <1> HIDE DEF f
  <1> QED BY <1>2, <1>3, SumOfNats

\* A step that moves fines or challans about, without a new fine.
LEMMA EditsKeep ==
  ASSUME IInv, UNCHANGED <<day, policies>>, quiet' \in BOOLEAN,
         bill' \in [Bills -> Bill], InInstalments',
         fine' \in [Bills -> Seq(Fine)],
         \A b \in Bills : /\ Len(fine'[b]) = Len(fine[b])
                          /\ Worth(fine'[b]) <= Worth(fine[b])
  PROVE  IInv'
  <1>1. TypeOK'
    BY DEF IInv, TypeOK
  <1>2. day <= day' /\ Rules \subseteq Rules'
    BY DEF IInv, TypeOK, Rules
  <1> QED BY <1>1, <1>2, FinesKept

\* Fines that keep their amounts and do not come back to life.
LEMMA FinesMove ==
  ASSUME TypeOK,
         DOMAIN fine' = Bills, fine' = [b \in Bills |-> fine'[b]],
         \A b \in Bills : /\ fine'[b] = [k \in DOMAIN fine[b] |-> fine'[b][k]]
                          /\ \A k \in DOMAIN fine[b] :
                               /\ fine'[b][k] \in Fine
                               /\ fine'[b][k].amount = fine[b][k].amount
                               /\ fine[b][k].status = "void" => fine'[b][k].status = "void"
  PROVE  /\ fine' \in [Bills -> Seq(Fine)]
         /\ \A b \in Bills : /\ Len(fine'[b]) = Len(fine[b])
                             /\ Worth(fine'[b]) <= Worth(fine[b])
  <1>1. ASSUME NEW b \in Bills
        PROVE  /\ fine'[b] \in Seq(Fine) /\ Len(fine'[b]) = Len(fine[b])
               /\ Worth(fine'[b]) <= Worth(fine[b])
    <2>1. fine[b] \in Seq(Fine) /\ Len(fine[b]) \in Nat /\ DOMAIN fine[b] = 1..Len(fine[b])
      BY DEF TypeOK
    <2>2. fine'[b] \in [1..Len(fine[b]) -> Fine]
      BY <2>1
    <2>3. fine'[b] \in Seq(Fine) /\ Len(fine'[b]) = Len(fine[b])
      BY <2>1, <2>2, SeqDef
    <2> QED BY <2>1, <2>3, WorthShrinks
  <1> QED BY <1>1

LEMMA IssueKeeps ==
  ASSUME IInv, NEW b \in Bills, NEW consolidates \in BOOLEAN, IssueBill(b, consolidates)
  PROVE  IInv'
  <1> USE LateFeesAssumption
  <1> DEFINE gone == IF consolidates THEN AbsorbableBills(b) ELSE {}
             Goes(c, k) == consolidates /\ AbsorbsFine(b, c, fine[c][k])
             dues == Sum(LAMBDA c : bill[c].total, gone)
             carried == [c \in Bills |-> Charged(c, {k \in DOMAIN fine[c] : Goes(c, k)})]
             fines == Sum(LAMBDA c : Charged(c, {k \in DOMAIN fine[c] : Goes(c, k)}), Bills)
  <1>1. dues \in Nat
    <2> DEFINE f == [c \in gone |-> bill[c].total]
    <2>1. IsFiniteSet(gone) /\ \A c \in gone : f[c] \in Nat
      BY FS_Subset, FS_EmptySet DEF AbsorbableBills, IInv, TypeOK, Bill
    <2>2. dues = SumFunction(f) /\ DOMAIN f = gone
      BY DEF Sum
    <2> HIDE DEF f, gone, dues
    <2> QED BY <2>1, <2>2, SumOfNats
  <1>2. fines \in Nat
    <2>1. \A c \in Bills : carried[c] \in Nat
      BY ChargedIsNat DEF IInv
    <2>2. fines = SumFunction(carried) /\ DOMAIN carried = Bills
      BY DEF Sum
    <2> HIDE DEF carried, fines
    <2> QED BY <2>1, <2>2, SumOfNats
  <1>3. /\ bill' = [c \in Bills |->
                     IF c = b THEN [bill[c] EXCEPT !.status = "issued",
                                                   !.total = Own[b] + dues + fines]
                     ELSE IF c \in gone THEN [bill[c] EXCEPT !.status = "void", !.into = b]
                     ELSE bill[c]]
        /\ fine' = [c \in Bills |-> [k \in DOMAIN fine[c] |->
                     IF Goes(c, k) THEN [fine[c][k] EXCEPT !.status = "void", !.into = b]
                     ELSE fine[c][k]]]
        /\ quiet' = FALSE /\ UNCHANGED <<day, policies>>
    BY DEF IssueBill
  <1>4. \A c \in Bills : bill[c] \in Bill
    BY DEF IInv, TypeOK
  <1>5. Own[b] + dues + fines \in Nat
    <2> HIDE DEF dues, fines
    <2>1. Own[b] \in Nat
      OBVIOUS
    <2> QED BY <1>1, <1>2, <2>1
  <1> HIDE DEF dues, fines, gone
  <1>6. bill' \in [Bills -> Bill] /\ \A c \in Bills : bill'[c].paid = bill[c].paid
    BY <1>3, <1>4, <1>5 DEF Bill
  <1>7. InInstalments'
    BY <1>6 DEF IInv, InInstalments
  <1> HIDE DEF Goes
  <1>8. ASSUME NEW c \in Bills
        PROVE  /\ fine'[c] = [k \in DOMAIN fine[c] |-> fine'[c][k]]
               /\ \A k \in DOMAIN fine[c] :
                    /\ fine'[c][k] \in Fine
                    /\ fine'[c][k].amount = fine[c][k].amount
                    /\ fine[c][k].status = "void" => fine'[c][k].status = "void"
    <2>1. fine[c] \in Seq(Fine)
      BY DEF IInv, TypeOK
    <2>2. \A k \in DOMAIN fine[c] : fine[c][k] \in Fine
      BY <2>1, SequenceOfFines
    <2>3. fine'[c] = [k \in DOMAIN fine[c] |->
                        IF Goes(c, k) THEN [fine[c][k] EXCEPT !.status = "void", !.into = b]
                        ELSE fine[c][k]]
      BY <1>3
    <2>4. ASSUME NEW row \in Fine
          PROVE  /\ [row EXCEPT !.status = "void", !.into = b] \in Fine
                 /\ [row EXCEPT !.status = "void", !.into = b].amount = row.amount
                 /\ [row EXCEPT !.status = "void", !.into = b].status = "void"
      BY DEF Fine
    <2>5. ASSUME NEW k \in DOMAIN fine[c]
          PROVE  /\ fine'[c][k] \in Fine
                 /\ fine'[c][k].amount = fine[c][k].amount
                 /\ fine[c][k].status = "void" => fine'[c][k].status = "void"
      <3>1. CASE Goes(c, k)
        <4>1. fine'[c][k] = [fine[c][k] EXCEPT !.status = "void", !.into = b]
          BY <2>3, <3>1
        <4>2. fine[c][k] \in Fine
          BY <2>2
        <4> QED BY <2>4, <4>1, <4>2
      <3>2. CASE ~Goes(c, k)
        BY <2>2, <2>3, <3>2
      <3> QED BY <3>1, <3>2
    <2> QED BY <2>3, <2>5
  <1>9. DOMAIN fine' = Bills /\ fine' = [c \in Bills |-> fine'[c]]
    BY <1>3
  <1>10. /\ fine' \in [Bills -> Seq(Fine)]
         /\ \A c \in Bills : /\ Len(fine'[c]) = Len(fine[c])
                             /\ Worth(fine'[c]) <= Worth(fine[c])
    BY <1>8, <1>9, FinesMove DEF IInv
  <1>11. UNCHANGED <<day, policies>> /\ quiet' \in BOOLEAN
    BY <1>3
  <1> QED BY <1>6, <1>7, <1>10, <1>11, EditsKeep

\* Receipts come and go whole.
LEMMA ReceiptsKeep ==
  ASSUME IInv, NEW b \in Bills, PayBill(b) \/ ReturnReceipt(b)
  PROVE  IInv'
  <1> USE LateFeesAssumption
  <1>1. bill \in [Bills -> Bill] /\ bill[b] \in Bill /\ bill[b].paid \in Nat
    BY DEF IInv, TypeOK, Bill
  <1>2. PICK n \in Nat : bill[b].paid = n * Instalment
    BY DEF IInv, InInstalments
  <1>3. PICK d \in {1, 0 - 1} : /\ bill' = [bill EXCEPT ![b].paid = @ + d * Instalment]
                                /\ n + d \in Nat
    <2>1. CASE PayBill(b)
      <3>1. bill' = [bill EXCEPT ![b].paid = @ + Instalment]
        BY <2>1 DEF PayBill, Edits
      <3>2. n + 1 \in Nat /\ bill[b].paid + Instalment = bill[b].paid + 1 * Instalment
        BY <1>1
      <3> QED BY <3>1, <3>2
    <2>2. CASE ReturnReceipt(b)
      <3>1. bill' = [bill EXCEPT ![b].paid = @ - Instalment] /\ bill[b].paid > 0
        BY <2>2 DEF ReturnReceipt, Edits
      <3>2. n # 0
        BY <1>2, <3>1
      <3>3. n + (0 - 1) \in Nat /\ bill[b].paid - Instalment = bill[b].paid + (0 - 1) * Instalment
        BY <1>1, <3>2
      <3> QED BY <3>1, <3>3
    <2> QED BY <2>1, <2>2
  <1>4. (n + d) * Instalment \in Nat /\ bill[b].paid + d * Instalment = (n + d) * Instalment
    BY <1>2, <1>3
  <1>5. bill' = [bill EXCEPT ![b].paid = (n + d) * Instalment]
    BY <1>3, <1>4
  <1>6. bill' \in [Bills -> Bill]
    BY <1>1, <1>4, <1>5 DEF Bill
  <1>7. InInstalments'
    <2>1. \A c \in Bills : bill'[c].paid = IF c = b THEN (n + d) * Instalment ELSE bill[c].paid
      BY <1>1, <1>5 DEF Bill
    <2> QED BY <1>3, <2>1 DEF IInv, InInstalments
  <1>8. UNCHANGED <<day, policies, fine>> /\ quiet' \in BOOLEAN
    BY DEF PayBill, ReturnReceipt, Edits
  <1>9. \A c \in Bills : /\ Len(fine'[c]) = Len(fine[c])
                         /\ Worth(fine'[c]) <= Worth(fine[c])
    <2>1. \A c \in Bills : fine[c] \in Seq(Fine)
      BY DEF IInv, TypeOK
    <2>2. \A c \in Bills : Worth(fine[c]) \in Nat
      BY <2>1, WorthIsNat
    <2> QED BY <1>8, <2>2
  <1>10. fine' \in [Bills -> Seq(Fine)]
    BY <1>8 DEF IInv, TypeOK
  <1> QED BY <1>6, <1>7, <1>8, <1>9, <1>10, EditsKeep

LEMMA VoidKeeps ==
  ASSUME IInv, NEW b \in Bills, VoidBill(b)
  PROVE  IInv'
  <1> USE LateFeesAssumption
  <1> DEFINE Freed(row) == [row EXCEPT !.into = IF @ = b THEN NoBill ELSE @]
  <1>1. /\ bill' = [c \in Bills |-> IF c = b THEN [bill[b] EXCEPT !.status = "void"]
                                    ELSE Freed(bill[c])]
        /\ fine' = [c \in Bills |-> [k \in DOMAIN fine[c] |-> Freed(fine[c][k])]]
        /\ quiet' = FALSE /\ UNCHANGED <<day, policies>>
    BY DEF VoidBill, Edits
  <1>2. \A row \in Bill : Freed(row) \in Bill /\ Freed(row).paid = row.paid
    BY DEF Bill
  <1>3. \A row \in Fine : /\ Freed(row) \in Fine /\ Freed(row).amount = row.amount
                          /\ Freed(row).status = row.status
    BY DEF Fine
  <1> HIDE DEF Freed
  <1>4. bill' \in [Bills -> Bill] /\ \A c \in Bills : bill'[c].paid = bill[c].paid
    <2>1. \A c \in Bills : bill[c] \in Bill
      BY DEF IInv, TypeOK
    <2>2. [bill[b] EXCEPT !.status = "void"] \in Bill
            /\ [bill[b] EXCEPT !.status = "void"].paid = bill[b].paid
      BY <2>1 DEF Bill
    <2> QED BY <1>1, <1>2, <2>1, <2>2
  <1>5. InInstalments'
    BY <1>4 DEF IInv, InInstalments
  <1>6. ASSUME NEW c \in Bills
        PROVE  /\ fine'[c] = [k \in DOMAIN fine[c] |-> fine'[c][k]]
               /\ \A k \in DOMAIN fine[c] :
                    /\ fine'[c][k] \in Fine
                    /\ fine'[c][k].amount = fine[c][k].amount
                    /\ fine[c][k].status = "void" => fine'[c][k].status = "void"
    <2>1. fine[c] \in Seq(Fine)
      BY DEF IInv, TypeOK
    <2>2. \A k \in DOMAIN fine[c] : fine[c][k] \in Fine
      BY <2>1, SequenceOfFines
    <2>3. fine'[c] = [k \in DOMAIN fine[c] |-> Freed(fine[c][k])]
      BY <1>1
    <2> QED BY <1>3, <2>2, <2>3
  <1>7. DOMAIN fine' = Bills /\ fine' = [c \in Bills |-> fine'[c]]
    BY <1>1
  <1>8. /\ fine' \in [Bills -> Seq(Fine)]
        /\ \A c \in Bills : /\ Len(fine'[c]) = Len(fine[c])
                            /\ Worth(fine'[c]) <= Worth(fine[c])
    BY <1>6, <1>7, FinesMove DEF IInv
  <1>9. UNCHANGED <<day, policies>> /\ quiet' \in BOOLEAN
    BY <1>1
  <1> QED BY <1>4, <1>5, <1>8, <1>9, EditsKeep

\* A fine that is settled, asked for again or waived.
LEMMA FineMovesKeep ==
  ASSUME IInv, NEW b \in Bills, NEW k \in DOMAIN fine[b],
         PayFine(b, k) \/ ReturnFine(b, k) \/ WaiveFine(b, k)
  PROVE  IInv'
  <1>1. PICK to \in {"issued", "paid", "void"} : fine' = [fine EXCEPT ![b][k].status = to]
    BY DEF PayFine, ReturnFine, WaiveFine, FineMoves, Edits
  <1>2. /\ UNCHANGED <<day, policies, bill>> /\ quiet' \in BOOLEAN
        /\ fine[b][k].status # "void"
    BY DEF PayFine, ReturnFine, WaiveFine, FineMoves, Edits
  <1>3. fine \in [Bills -> Seq(Fine)]
    BY DEF IInv, TypeOK
  <1>4. \A c \in Bills : \A j \in DOMAIN fine[c] : fine[c][j] \in Fine
    BY <1>3, SequenceOfFines
  <1>5. [fine[b][k] EXCEPT !.status = to] \in Fine
    BY <1>4 DEF Fine
  <1>6. /\ DOMAIN fine' = Bills /\ fine' = [c \in Bills |-> fine'[c]]
        /\ \A c \in Bills : c # b => fine'[c] = fine[c]
        /\ fine'[b] = [fine[b] EXCEPT ![k] = [fine[b][k] EXCEPT !.status = to]]
    BY <1>1, <1>3
  <1>7. ASSUME NEW c \in Bills
        PROVE  /\ fine'[c] = [j \in DOMAIN fine[c] |-> fine'[c][j]]
               /\ \A j \in DOMAIN fine[c] :
                    /\ fine'[c][j] \in Fine
                    /\ fine'[c][j].amount = fine[c][j].amount
                    /\ fine[c][j].status = "void" => fine'[c][j].status = "void"
    <2>1. fine[c] = [j \in DOMAIN fine[c] |-> fine[c][j]]
      BY <1>3
    <2>2. CASE c # b
      BY <1>4, <1>6, <2>1, <2>2
    <2>3. CASE c = b
      <3>1. fine'[b] = [j \in DOMAIN fine[b] |-> IF j = k THEN [fine[b][k] EXCEPT !.status = to]
                                                 ELSE fine[b][j]]
        BY <1>6, <2>1, <2>3
      <3>2. [fine[b][k] EXCEPT !.status = to].amount = fine[b][k].amount
        BY <1>4 DEF Fine
      <3> QED BY <1>2, <1>4, <1>5, <2>3, <3>1, <3>2
    <2> QED BY <2>2, <2>3
  <1>8. /\ fine' \in [Bills -> Seq(Fine)]
        /\ \A c \in Bills : /\ Len(fine'[c]) = Len(fine[c])
                            /\ Worth(fine'[c]) <= Worth(fine[c])
    BY <1>6, <1>7, FinesMove DEF IInv
  <1>9. bill' \in [Bills -> Bill] /\ InInstalments'
    BY <1>2 DEF IInv, TypeOK, InInstalments
  <1> QED BY <1>2, <1>8, <1>9, EditsKeep

\* A new rule, or none, and a new day.
LEMMA RulesAndDaysKeep ==
  ASSUME IInv, SetLateFeePolicy \/ DeleteLateFeePolicy \/ DayEnds
  PROVE  IInv'
  <1> USE LateFeesAssumption
  <1>1. UNCHANGED <<bill, fine>> /\ quiet' \in BOOLEAN
    BY DEF SetLateFeePolicy, DeleteLateFeePolicy, Revise, DayEnds
  <1>2. \A b \in Bills : /\ Len(fine'[b]) = Len(fine[b])
                         /\ Worth(fine'[b]) <= Worth(fine[b])
    <2>1. \A c \in Bills : fine[c] \in Seq(Fine)
      BY DEF IInv, TypeOK
    <2>2. \A c \in Bills : Worth(fine[c]) \in Nat
      BY <2>1, WorthIsNat
    <2> QED BY <1>1, <2>2
  <1>3. InInstalments'
    BY <1>1 DEF IInv, InInstalments
  <1>4. CASE SetLateFeePolicy \/ DeleteLateFeePolicy
    <2>1. PICK p \in Policies \cup {NoPolicy} : policies' = Append(policies, p)
      BY <1>4 DEF SetLateFeePolicy, DeleteLateFeePolicy, Revise
    <2>2. day' = day
      BY <1>4 DEF SetLateFeePolicy, DeleteLateFeePolicy, Revise
    <2>3. policies \in Seq(Policies \cup {NoPolicy})
      BY DEF IInv, TypeOK
    <2>4. policies' \in Seq(Policies \cup {NoPolicy})
      BY <2>1, <2>3
    <2>5. \A i \in DOMAIN policies : i \in DOMAIN policies' /\ policies'[i] = policies[i]
      BY <2>1, <2>3
    <2>6. Rules \subseteq Rules'
      BY <2>5 DEF Rules, ToSet
    <2>7. TypeOK' /\ day <= day'
      BY <1>1, <2>2, <2>4 DEF IInv, TypeOK
    <2> QED BY <1>2, <1>3, <2>6, <2>7, FinesKept
  <1>5. CASE DayEnds
    <2>1. TypeOK' /\ day <= day' /\ Rules \subseteq Rules'
      BY <1>1, <1>5 DEF DayEnds, IInv, TypeOK, Rules
    <2> QED BY <1>2, <1>3, <2>1, FinesKept
  <1> QED BY <1>4, <1>5

LEMMA NextIInv == ASSUME IInv, [Next]_vars PROVE IInv'
  <1>1. CASE Next
    BY <1>1, PassKeeps, IssueKeeps, ReceiptsKeep, VoidKeeps, FineMovesKeep, RulesAndDaysKeep
       DEF Next
  <1>2. CASE UNCHANGED vars
    <2>1. TypeOK' /\ InInstalments' /\ day <= day' /\ Rules \subseteq Rules'
      BY <1>2 DEF vars, IInv, TypeOK, InInstalments, Rules
    <2>2. \A c \in Bills : fine[c] \in Seq(Fine)
      BY DEF IInv, TypeOK
    <2>3. \A c \in Bills : Worth(fine[c]) \in Nat
      BY <2>2, WorthIsNat
    <2>4. \A b \in Bills : /\ Len(fine'[b]) = Len(fine[b])
                           /\ Worth(fine'[b]) <= Worth(fine[b])
      BY <1>2, <2>3 DEF vars
    <2> QED BY <2>1, <2>4, FinesKept
  <1> QED BY <1>1, <1>2

\* A challan's figures are whole and never negative, its fines well formed: a sum
\* of receipts (`fee_payments`) never takes it below zero.
THEOREM TypeCorrect == Spec => []TypeOK
  <1>1. Init => IInv
    BY InitIInv
  <1>2. IInv /\ [Next]_vars => IInv'
    BY NextIInv
  <1>3. IInv => TypeOK
    BY DEF IInv
  <1> QED BY <1>1, <1>2, <1>3, PTL DEF Spec

\* Whatever rules the school sets and retires, however many challans it has
\* and however often the pass runs (`apply_late_fees` is run by cron and by
\* hand), every challan has at most the fines that some rule allows by then.
THEOREM NoFineAheadOfSchedule == Spec => []NeverAheadOfSchedule
  <1>1. Init => IInv
    BY InitIInv
  <1>2. IInv /\ [Next]_vars => IInv'
    BY NextIInv
  <1>3. IInv => NeverAheadOfSchedule
    BY DEF IInv
  <1> QED BY <1>1, <1>2, <1>3, PTL DEF Spec

\* However often a challan is fined and under however many rules, what stands
\* against it stays within the ceiling of one of them: `apply_late_fees` levies what
\* the ceiling leaves of `fines_for_source`.
THEOREM FinesStayWithinCap == Spec => []WithinCap
  <1>1. Init => IInv
    BY InitIInv
  <1>2. IInv /\ [Next]_vars => IInv'
    BY NextIInv
  <1>3. IInv => WithinCap
    BY DEF IInv
  <1> QED BY <1>1, <1>2, <1>3, PTL DEF Spec
=============================================================================
