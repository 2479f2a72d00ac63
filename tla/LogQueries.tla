------------------------------ MODULE LogQueries ------------------------------
(***************************************************************************)
(* What the server answers about the rows of access_log: the filter of a   *)
(* request (server/src/api/filter.ts) and the queries of                   *)
(* server/src/store/analytics.ts, each as a function of a set of rows.     *)
(*                                                                         *)
(* A row is [id, ts, host, status, client, referer, country]; times are    *)
(* small numbers.  Sums of bytes and the other text columns, which are     *)
(* counted as referers are, are left out.                                  *)
(***************************************************************************)
EXTENDS Naturals, Sequences, FiniteSets, SequencesExt, FiniteSetsExt

CONSTANTS Null,          \* SQL's
          Empty,         \* the empty text
          All,           \* a filter that is not given
          Steps,         \* the sizes of a bucket, in order
          Points,        \* how many buckets a chart should have (120)
          DefaultRange,  \* the range of a request without one (a day)
          TopLimit,      \* the length of a top list (20)
          GeoLimit       \* the countries of a map (250)

ASSUME QueryAssumption ==
    /\ Steps \in Seq(Nat \ {0}) /\ Steps # <<>>
    /\ Points \in Nat \ {0} /\ {DefaultRange, TopLimit, GeoLimit} \subseteq Nat
    /\ Null # All

Class == 2 .. 5

\* The filter of a request at time now; a class that is none is no filter.
ParseFilter(q, now) ==
    [from   |-> IF q.from # All THEN q.from ELSE IF now > DefaultRange THEN now - DefaultRange ELSE 0,
     to     |-> IF q.to # All THEN q.to ELSE now,
     host   |-> CASE q.host = "fallback" -> Null
                  [] q.host = "all" -> All
                  [] OTHER -> q.host,
     class  |-> IF q.class \in Class THEN q.class ELSE All,
     client |-> q.client]

InClass(r, c) == 100 * c <= r.status /\ r.status < 100 * (c + 1)

\* buildWhere: the rows a filter selects.
Where(rows, f) ==
    {r \in rows : /\ f.from <= r.ts /\ r.ts < f.to
                  /\ f.host \in {All, r.host}
                  /\ f.class = All \/ InClass(r, f.class)
                  /\ f.client \in {All, r.client}}

\* The counts of a summary, and of a point of the chart: everything from 500 up
\* is an error of the server.
Summary(sel) ==
    LET n(c) == Cardinality({r \in sel : InClass(r, c)})
        worst == Cardinality({r \in sel : r.status >= 500})
    IN [requests |-> Cardinality(sel), class2 |-> n(2), class3 |-> n(3), class4 |-> n(4),
        class5 |-> worst, errors |-> n(4) + worst,
        visitors |-> Cardinality({r.client : r \in sel})]

\* The first step that keeps the chart within its points, or else the last.
PickBucket(from, to) ==
    LET span == IF to > from THEN to - from ELSE 1
        fits == {i \in DOMAIN Steps : Steps[i] * Points >= span}
    IN IF fits = {} THEN Last(Steps) ELSE Steps[Min(fits)]

Bucket(r, size) == (r.ts \div size) * size
Timeseries(sel, size) ==
    [b \in {Bucket(r, size) : r \in sel} |-> Summary({r \in sel : Bucket(r, size) = b})]

Counts(sel, keys, column) == [k \in keys |-> Cardinality({r \in sel : r[column] = k})]

\* Mutant: the order is left out.
CutAnyhow(counts, limit) ==
    {K \in SUBSET DOMAIN counts :
        Cardinality(K) = IF Cardinality(DOMAIN counts) < limit THEN Cardinality(DOMAIN counts) ELSE limit}

\* ORDER BY count DESC LIMIT: the keys that may be left, for equal counts come in
\* any order.
Cut(counts, limit) ==
    LET keys == DOMAIN counts
    IN {K \in SUBSET keys :
          /\ Cardinality(K) = IF Cardinality(keys) < limit THEN Cardinality(keys) ELSE limit
          /\ \A k \in K, other \in keys \ K : counts[k] >= counts[other]}

\* The lists topBy may give: rows without a value are in none.
TopBy(sel, column, limit) ==
    LET counts == Counts(sel, {r[column] : r \in sel} \ {Null, Empty}, column)
    IN {Restrict(counts, K) : K \in Cut(counts, limit)}

StatusBreakdown(sel) ==
    [s \in {r.status : r \in sel} |-> Cardinality({r \in sel : r.status = s})]

Geo(sel, limit) ==
    LET counts == Counts(sel, {r.country : r \in sel} \ {Null}, "country")
        visitors(c) == Cardinality({r.client : r \in {r \in sel : r.country = c}})
    IN {[c \in K |-> [count |-> counts[c], visitors |-> visitors(c)]] : K \in Cut(counts, limit)}

\* The rows of rotated and default logs are a host of their own.
PerHost(sel) ==
    [h \in {r.host : r \in sel} |->
        LET its == {r \in sel : r.host = h}
        IN [requests |-> Cardinality(its), errors |-> Cardinality({r \in its : r.status >= 400}),
            visitors |-> Cardinality({r.client : r \in its})]]

\* GET /api/overview: the whole bundle is computed without a wait.
Overview(rows, f) ==
    LET sel == Where(rows, f)
        summary == Summary(sel)
        timeseries == Timeseries(sel, PickBucket(f.from, f.to))
        statuses == StatusBreakdown(sel)
        perHost == PerHost(sel)
    IN {[summary |-> summary, timeseries |-> timeseries, statuses |-> statuses,
         perHost |-> perHost, topClients |-> clients, topReferers |-> referers, geo |-> geo] :
          clients \in TopBy(sel, "client", TopLimit),
          referers \in TopBy(sel, "referer", TopLimit),
          geo \in Geo(sel, GeoLimit)}

\* How many rows come before a row in each order of the list.  Mutant: oldest first.
AfterOlder(r, sel) == Cardinality({x \in sel : x.ts < r.ts})
Before(r, sel) == Cardinality({x \in sel : x.ts > r.ts})

\* The pages queryAccess may give for a limit and an offset: newest first, rows of
\* one time in any order, as ORDER BY ts DESC leaves it.
PagesOf(sel, limit, offset) ==
    LET inGroup(r) == Cardinality({x \in sel : x.ts = r.ts})
        least(m, n) == IF m < n THEN m ELSE n
        most(m, n) == IF m > n THEN m ELSE n
        \* how many of the rows of r's time lie in the window
        share(r) == LET first == most(Before(r, sel), offset)
                        end == least(Before(r, sel) + inGroup(r), offset + limit)
                    IN IF end > first THEN end - first ELSE 0
    IN {p \in SUBSET sel :
          \A r \in sel : Cardinality({x \in p : x.ts = r.ts}) = share(r)}

\* The answers of queryAccess (and queryErrors): the count and the page are taken
\* in one handler, with nothing in between.
Answers(rows, f, limit, offset) ==
    LET sel == Where(rows, f)
    IN {[total |-> Cardinality(sel), rows |-> p] : p \in PagesOf(sel, limit, offset)}
===============================================================================
