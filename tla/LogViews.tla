------------------------------- MODULE LogViews -------------------------------
(***************************************************************************)
(* The pages of the access log in the browser (web/src/pages/Logs.tsx; the *)
(* error log is paged alike) over the rows of the store, which go on       *)
(* arriving, late ones included, and are pruned from the old end.          *)
(*                                                                         *)
(* A page fetches through useFetch (web/src/lib/useFetch.ts): whenever its *)
(* filter or its offset changes it asks again, and an answer that was      *)
(* superseded is dropped.  A click and the effects of the render it causes *)
(* are one step; requests and answers are steps of their own.              *)
(***************************************************************************)
EXTENDS LogQueries

CONSTANTS Id,         \* rows that may arrive
          Request,    \* what they may say: [host, status, client, referer, country]
          PAGE,       \* rows on a page
          Ranges,     \* the time ranges the layout offers
          Hosts,      \* the hosts it offers, "all" and "fallback" among them
          Now,        \* the time: it stands still while somebody reads
          Keep,       \* what the daily prune leaves at the least
          Links,      \* of alert mails and findings: [client, from, to, host]
          MaxClicks,  \* bound: what the operator does in all
          MaxCalls    \* bound: requests under way when the operator does it, one less

ASSUME ViewAssumption ==
    /\ IsFiniteSet(Id) /\ {PAGE, Now, Keep, MaxClicks, MaxCalls} \subseteq Nat
    /\ PAGE >= 1 /\ Ranges # {} /\ Ranges \subseteq 1 .. Now
    /\ "all" \in Hosts
    /\ \A k \in Request : /\ k.status \in Nat /\ k.client \notin {Null, Empty, All}
                         /\ k.host # All
    /\ \A l \in Links : {l.from, l.to} \subseteq Nat /\ l.host \in Hosts \cup {All}

VARIABLES
    rows,      \* access_log
    layout,    \* the filter of the layout, which all pages share
    link,      \* what the page's address adds to it
    filters,   \* both: the effective filter
    offset,
    shown,     \* useFetch: data, if there is any
    loading, failed,
    calls,     \* requests under way
    clicks,
    used,      \* history: the rows that have ever arrived
    walk       \* history: a reader who goes from the first page on by Next

vars == <<rows, layout, link, filters, offset, shown, loading, failed, calls, clicks, used, walk>>

page == <<layout, link, filters, offset, shown, loading, failed>>

Time == 0 .. Now
Filter == [from : Nat, to : Nat, host : Hosts, class : {All},
           client : {All} \cup {l.client : l \in Links}]
NoLink == [client |-> All, from |-> All, to |-> All, host |-> All]
Row == [id : Id, ts : Time, host : {k.host : k \in Request}, status : {k.status : k \in Request},
        client : {k.client : k \in Request}, referer : {k.referer : k \in Request},
        country : {k.country : k \in Request}]
Question == [filters : Filter, offset : Nat]
Waiting == {}

TypeOK ==
    /\ rows \subseteq used /\ used \subseteq Row
    /\ \A r \in used, s \in used : r.id = s.id => r = s
    /\ {layout, filters} \subseteq Filter /\ layout.client = All
    /\ link \in Links \cup {NoLink}
    /\ offset \in Nat /\ offset % PAGE = 0
    /\ offset > 0 => offset < Cardinality(used)   \* no page beyond what there was
    /\ Cardinality(shown) <= 1 /\ \A d \in shown : d.q \in Question /\ d.rows \subseteq used
    /\ loading \in BOOLEAN /\ failed \in BOOLEAN /\ ~(loading /\ failed)
    /\ \A c \in calls : c.q \in Question /\ c.active \in BOOLEAN /\ Cardinality(c.reply) <= 1
    /\ clicks \in 0 .. MaxClicks
    /\ Cardinality(walk) <= 1 /\ \A w \in walk : w.start \cup w.seen \subseteq used

Preset(range, host) ==
    [from |-> Now - range, to |-> Now, host |-> host, class |-> All, client |-> All]

\* What a link says goes before what the layout says.
Effective(f, l) ==
    [from   |-> IF l.from = All THEN f.from ELSE l.from,
     to     |-> IF l.to = All THEN f.to ELSE l.to,
     host   |-> IF l.host = All THEN f.host ELSE l.host,
     class  |-> f.class,
     client |-> IF l.client = All THEN f.client ELSE l.client]

-------------------------------------------------------------------------------
(* The store.                                                                 *)

\* A log line is read and stored, after its time and perhaps long after.
Ingest(i) ==
    /\ \A r \in used : r.id # i
    /\ \E k \in Request, t \in 0 .. Now - 1 :
         LET r == [id |-> i, ts |-> t, host |-> k.host, status |-> k.status,
                   client |-> k.client, referer |-> k.referer, country |-> k.country]
         IN rows' = rows \cup {r} /\ used' = used \cup {r}
    /\ UNCHANGED <<page, calls, clicks, walk>>

\* The daily prune, of rows older than backfillDays.
PruneBefore ==
    /\ \E cutoff \in 1 .. Now - Keep : rows' = {r \in rows : r.ts >= cutoff}
    /\ UNCHANGED <<page, calls, clicks, used, walk>>

-------------------------------------------------------------------------------
(* The page.                                                                  *)

Call(f, o) == [q |-> [filters |-> f, offset |-> o], active |-> TRUE, reply |-> Waiting]
Superseded == {[c EXCEPT !.active = FALSE] : c \in calls}

\* The effect of useFetch after a change of what it depends on.
Ask(f, o) ==
    /\ calls' = Superseded \cup {Call(f, o)}
    /\ loading' = TRUE /\ failed' = FALSE

\* The page is open, and has asked for its first rows.
Init ==
    /\ rows = {} /\ used = {}
    /\ \E range \in Ranges : layout = Preset(range, "all")
    /\ link = NoLink /\ filters = layout
    /\ offset = 0 /\ shown = {} /\ loading = TRUE /\ failed = FALSE
    /\ calls = {Call(filters, 0)}
    /\ clicks = 0 /\ walk = {}

Click == /\ clicks < MaxClicks /\ clicks' = clicks + 1
         /\ Cardinality(calls) < MaxCalls

\* A new filter object, if with the same filter.  Two effects: the offset goes back
\* to the first page, and the rows are asked for, at first with the old offset.
SetFilters(f) ==
    /\ filters' = f /\ offset' = 0
    /\ calls' = Superseded \cup {Call(f, 0)}
                \cup (IF offset = 0 THEN {} ELSE {[Call(f, offset) EXCEPT !.active = FALSE]})
    /\ loading' = TRUE /\ failed' = FALSE
    /\ UNCHANGED <<rows, shown, used, walk>>

\* The buttons of the layout: a range sets both ends anew, the host is kept, and
\* the other way round.  What the link says stays.
SetLayout(f) ==
    /\ Click /\ layout' = f /\ link' = link
    /\ SetFilters(Effective(f, link))
PickRange(range) == SetLayout([layout EXCEPT !.from = Now - range, !.to = Now])
PickHost(host)   == host # layout.host /\ SetLayout([layout EXCEPT !.host = host])

\* The address changes on the page: a link is followed or cleared.
FollowLink(l) ==
    /\ l # link
    /\ Click /\ layout' = layout /\ link' = l
    /\ SetFilters(Effective(layout, l))

\* Rows stay on the screen while others load; the error box replaces them and the
\* buttons.
OnScreen == shown # {} /\ ~failed
Shown == CHOOSE d \in shown : TRUE
Least(m, n) == IF m < n THEN m ELSE n
End == Least(offset + PAGE, Shown.total)

Turn(o) ==
    /\ offset' = o /\ Ask(filters, o)
    /\ UNCHANGED <<rows, layout, link, filters, shown, used, walk>>

\* Mutant: the button is never disabled.
NextAlways == OnScreen /\ Click /\ Turn(offset + PAGE)

PrevPage == OnScreen /\ offset > 0 /\ Click /\ Turn(IF offset > PAGE THEN offset - PAGE ELSE 0)
NextPage == OnScreen /\ End < Shown.total /\ Click /\ Turn(offset + PAGE)

\* The page is left for another and entered again, perhaps through a link: what it
\* asked is forgotten, the layout's filter is not.
Revisit(l) ==
    /\ Click
    /\ layout' = layout /\ link' = l /\ filters' = Effective(layout, l)
    /\ offset' = 0 /\ shown' = {} /\ Ask(filters', 0)
    /\ UNCHANGED <<rows, used, walk>>

-------------------------------------------------------------------------------
(* Requests and answers.                                                      *)

\* GET /api/logs.
Answer(c) ==
    /\ c.reply = Waiting
    /\ LET f == ParseFilter(c.q.filters, Now) IN
       \E a \in Answers(rows, f, PAGE, c.q.offset) :
         calls' = (calls \ {c}) \cup
                    {[c EXCEPT !.reply = {[total |-> a.total, rows |-> a.rows, of |-> Where(rows, f)]}]}
    /\ UNCHANGED <<rows, page, clicks, used, walk>>

\* The reader's next page, or the start of a new reading.
Follow(w, q, reply) ==
    IF q.offset = 0 THEN {[start |-> reply.of, seen |-> reply.rows, at |-> q]}
    ELSE {[v EXCEPT !.seen = @ \cup reply.rows, !.at = q] :
            v \in {v \in w : q = [v.at EXCEPT !.offset = @ + PAGE]}}

Put(c, a) ==
    /\ shown' = {[q |-> c.q, total |-> a.total, rows |-> a.rows]}
    /\ loading' = FALSE /\ failed' = FALSE
    /\ walk' = Follow(walk, c.q, a)

\* Mutant: an answer counts, whatever has been asked since.
DeliverAny(c) ==
    /\ \E a \in c.reply : Put(c, a)
    /\ calls' = calls \ {c}
    /\ UNCHANGED <<rows, layout, link, filters, offset, clicks, used>>

\* An answer arrives; a superseded one is dropped.
Deliver(c) ==
    /\ \E a \in c.reply :
         IF c.active THEN Put(c, a) ELSE UNCHANGED <<shown, loading, failed, walk>>
    /\ calls' = calls \ {c}
    /\ UNCHANGED <<rows, layout, link, filters, offset, clicks, used>>

\* The request or its answer is lost.
Lose(c) ==
    /\ calls' = calls \ {c}
    /\ IF c.active
         THEN shown' = {} /\ loading' = FALSE /\ failed' = TRUE /\ walk' = {}
         ELSE UNCHANGED <<shown, loading, failed, walk>>
    /\ UNCHANGED <<rows, layout, link, filters, offset, clicks, used>>

Store == (\E i \in Id : Ingest(i)) \/ PruneBefore

Operator ==
    \/ \E range \in Ranges : PickRange(range)
    \/ \E host \in Hosts : PickHost(host)
    \/ \E l \in Links \cup {NoLink} : FollowLink(l) \/ Revisit(l)
    \/ PrevPage \/ NextPage

Network == \E c \in calls : Answer(c) \/ Deliver(c) \/ Lose(c)

Next == Store \/ Operator \/ Network

Spec == Init /\ [][Next]_vars

-------------------------------------------------------------------------------
(* Properties.                                                                *)

\* A page that has loaded answers the filter and the offset it stands at, whatever
\* overtook what; a page that loads waits for exactly one answer, to just that
\* (useFetch "guards against setting state after unmount or a superseded request").
Asked == [filters |-> filters, offset |-> offset]
Active == {c \in calls : c.active}
PageAnswersQuestion ==
    IF loading THEN \E c \in calls : Active = {c} /\ c.q = Asked
               ELSE Active = {} /\ \A d \in shown : d.q = Asked

\* The page seen through its question: how OneRequest's variables are read off this
\* state, whatever number of requests is under way.
AnswersTo(s, q) == Answers(s, ParseFilter(q.filters, Now), PAGE, q.offset)
Plain(a) == [total |-> a.total, rows |-> a.rows]
One == INSTANCE OneRequest WITH
    store <- rows, question <- Asked,
    screen <- {[q |-> d.q, answer |-> Plain(d)] : d \in shown},
    reply <- {Plain(a) : a \in UNION {c.reply : c \in Active}}

\* However many requests overtake each other or get lost, the page is the one of
\* OneRequest (useFetch "guards against setting state after unmount or a superseded
\* request"): an answer of another filter or page never shows, nor an error of
\* another request, and what shows is a moment of the store, not a mixture.
OneRequestAtATime == One!Spec

\* A reader who goes from the first page to the last by Next, and lets each page
\* load, sees every row that was there when the first page was asked for and still
\* is, however many arrive or are pruned meanwhile -- unless the row shares its
\* time with another, for then a query may put it on any page it likes
\* (analytics.ts queryAccess: ORDER BY ts DESC, LIMIT and OFFSET).
WalkSeesAll ==
    ~loading /\ shown # {} /\ End >= Shown.total =>
        \A w \in walk : \A r \in w.start \cap rows :
            r \in w.seen \/ \E other \in used \ {r} : other.ts = r.ts

\* The sum of a column of counts.
Column(counts, name) == [k \in DOMAIN counts |-> counts[k][name]]
Total(counts) == MapThenSumSet(LAMBDA k : counts[k], DOMAIN counts)

\* A list counts no row twice, and every row that it can count unless it is cut.
ListAdds(list, limit, countable) ==
    /\ Cardinality(DOMAIN list) <= limit /\ Total(list) <= countable
    /\ Cardinality(DOMAIN list) < limit => Total(list) = countable

\* Chart, hosts and statuses add up to the requests and the errors; so do clients,
\* referers and countries as far as their lists go.
CountsAddUp(o, sel) ==
    /\ Total(Column(o.timeseries, "requests")) = o.summary.requests
    /\ Total(Column(o.timeseries, "errors")) = o.summary.errors
    /\ Total(Column(o.perHost, "requests")) = o.summary.requests
    /\ Total(Column(o.perHost, "errors")) = o.summary.errors
    /\ Total(o.statuses) = o.summary.requests
    /\ ListAdds(o.topClients, TopLimit, o.summary.requests)
    /\ ListAdds(o.topReferers, TopLimit,
                Cardinality({r \in sel : r.referer \notin {Null, Empty}}))
    /\ ListAdds(Column(o.geo, "count"), GeoLimit, Cardinality({r \in sel : r.country # Null}))

\* The count next to a client or a host is the total of the list filtered on it, and
\* no client that is cut off has more than one that is listed.
Selected(f) == Cardinality(Where(rows, f))
DrillsDown(o, f, sel) ==
    /\ \A c \in DOMAIN o.topClients : o.topClients[c] = Selected([f EXCEPT !.client = c])
    /\ \A h \in DOMAIN o.perHost : o.perHost[h].requests = Selected([f EXCEPT !.host = h])
    /\ \A r \in sel : \/ r.client \in DOMAIN o.topClients
                      \/ \A c \in DOMAIN o.topClients :
                            o.topClients[c] >= Selected([f EXCEPT !.client = r.client])

\* A page is full, unless the rows end on it or before it.
PagesFit(f, requests) ==
    \A a \in Answers(rows, f, PAGE, offset) :
        /\ a.total = requests
        /\ offset + Cardinality(a.rows) = Max({offset, Least(offset + PAGE, requests)})

\* The chart has its points, unless no step is wide enough.
ChartFits(o, f) ==
    \/ Cardinality(DOMAIN o.timeseries) <= Points + 1
    \/ f.to - f.from > Points * Last(Steps)

\* On a page at rest the numbers of one overview fit together, and fit the pages of
\* the same filter (the queries of analytics.ts, written one by one).
OverviewAddsUp ==
    LET f == ParseFilter(layout, Now)
        sel == Where(rows, f)
    IN calls = {} =>
       /\ \A o \in Overview(rows, f) :
            CountsAddUp(o, sel) /\ DrillsDown(o, f, sel) /\ ChartFits(o, f)
       /\ PagesFit(f, Cardinality(sel))
===============================================================================
