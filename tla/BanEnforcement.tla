---------------------------- MODULE BanEnforcement ----------------------------
(***************************************************************************)
(* The ban list and how it reaches nginx: BanService and BanStore, the     *)
(* file work and the reloads of BanEnforcer, the queue and the timer of    *)
(* BlockedPaths, the auto-ban at the end of an evaluation, and the life    *)
(* of the server process around them (index.ts).                           *)
(*                                                                         *)
(* JavaScript runs a handler without interruption up to an await that      *)
(* really waits, so each action below is one such stretch: the list, the   *)
(* deny file and the include change together, and the reload, three calls  *)
(* to Docker, runs later, fails, or hangs: no call to Docker has a timeout.*)
(* Clients, addresses and ranges are model values; a range is the set of   *)
(* clients it covers.                                                      *)
(***************************************************************************)
EXTENDS NpmNginx

CONSTANTS Client,        \* addresses of clients, each a target of its own
          Covers,        \* Covers[t]: the clients a target denies
          Widen,         \* Widen[t]: the /64 of a bare IPv6 address, else t
          Private,       \* private, loopback and Docker addresses
          Edge,          \* addresses of Cloudflare's edge
          TooBroad,      \* ranges wider than a ban may be
          Config,        \* the configurations an operator saves
          CanReload,     \* a Docker socket and a container name are configured
          MayFail,       \* what can go wrong: see Fault below
          MaxFaults,     \* how often it does in a behaviour
          MaxReloads     \* reloads in flight at a time

Fault == {"include", "file", "reload", "hang", "crash", "edited"}

\* A configuration: exceptions is the trusted list; block and hitBan are the two
\* switches of the blocked paths; autoBan is the switch of the evaluation.
ConfigType ==
    [exceptions : SUBSET Target, block : BOOLEAN, hitBan : BOOLEAN, autoBan : BOOLEAN]

ASSUME BansAssumption ==
    /\ Client \subseteq Target
    /\ Covers \in [Target -> SUBSET Client]
    /\ \A c \in Client : Covers[c] = {c}
    /\ Widen \in [Target -> Target]
    /\ \A t \in Target : Covers[t] \subseteq Covers[Widen[t]]
    /\ Private \subseteq Client /\ Edge \subseteq Client /\ TooBroad \subseteq Target
    /\ Config \subseteq ConfigType
    /\ CanReload \in BOOLEAN
    /\ MayFail \subseteq Fault
    /\ MaxFaults \in Nat /\ MaxReloads \in Nat

VARIABLES
    banned,      \* banned_ip: the stored list
    config,      \* settings: the stored configuration
    phase,       \* the server process: down, up, or stopping
    cached,      \* BlockedPaths.#cfg, the copy handle() works from
    pending,     \* BlockedPaths.#pending: clients waiting to be banned
    timer,       \* BlockedPaths.#timer is set
    reloads,     \* calls of #reload() whose nginx -s reload has not run yet
    hung,        \* calls of #reload() that Docker does not answer
    unwritten,   \* snippets whose last write failed (history)
    missed,      \* a change of the directory that no reload will follow (history)
    faults       \* faults so far

storeVars == <<banned, config>>
queueVars == <<pending, timer>>
callVars == <<reloads, hung>>
historyVars == <<unwritten, missed, faults>>
vars == <<dirVars, nginxVars, storeVars, phase, cached, queueVars, callVars, historyVars>>

Running == phase \in {"up", "stopping"}

-----------------------------------------------------------------------------
\* The safety rules of BanService.

\* The client is in a banned range (or banned itself).
Covered(c) == \E t \in banned : c \in Covers[t]

\* The client matches an entry of the exception list.
Excepted(c, cfg) == \E e \in cfg.exceptions : c \in Covers[e]

Overlap(s, t) == Covers[s] \cap Covers[t] # {}

\* The exact entry is not on the list, the range around it not looked at.
AllowedExact(t) ==
    /\ t \notin TooBroad
    /\ t \notin config.exceptions
    /\ Covers[t] \cap Private = {}

\* ban() takes the target, after it was widened.
Allowed(t) ==
    /\ t \notin TooBroad
    /\ \A e \in config.exceptions : ~Overlap(t, e)
    /\ Covers[t] \cap Private = {}

\* The targets a batch of clients adds: those already covered are skipped, the
\* rest widened and checked.
BansOf(batch) == {t \in {Widen[c] : c \in {d \in batch : ~Covered(d)}} : Allowed(t)}

-----------------------------------------------------------------------------
\* The file work of BanEnforcer.  fail is the set of writes that fail, of
\* "include" (server_proxy.conf) and "file" (the snippet); the directory that
\* cannot be made is both.

CanFail(fail) ==
    /\ fail \subseteq MayFail \cap {"include", "file"}
    /\ faults + Cardinality(fail) <= MaxFaults

IncludesAfter(before, line, fail) ==
    IF "include" \in fail THEN before ELSE before \cup {line}

\* sync() writes the list when the file differs, and only then reloads.
FileIsNew(list, fail) == deny = NoFile /\ "file" \notin fail
DenyChanges(list, fail) == deny # list /\ "file" \notin fail
DenyAfter(list, fail) == IF "file" \in fail THEN deny ELSE list

\* syncBlockedPaths() gives up before the include when its file cannot be
\* written, and reloads when the file or the include is new.
Body(cfg) == IF cfg.block THEN "on" ELSE "off"
SnippetFails(cfg, fail) == snippet # Body(cfg) /\ "file" \in fail
SnippetAfter(cfg, fail) == IF SnippetFails(cfg, fail) THEN snippet ELSE Body(cfg)
IncludeFirst(before, cfg, fail) == IncludesAfter(before, "blocked", fail)
BlockedIncludes(before, cfg, fail) ==
    IF SnippetFails(cfg, fail) THEN before ELSE IncludesAfter(before, "blocked", fail)
FileChanges(cfg, fail) == ~SnippetFails(cfg, fail) /\ snippet # Body(cfg)
BlockedChanges(cfg, fail) ==
    /\ ~SnippetFails(cfg, fail)
    /\ snippet # Body(cfg) \/ ("blocked" \notin includes /\ "include" \notin fail)

\* n calls of #reload(), which returns at once without a Docker socket.  A
\* change that no call follows is missed.
CallReload(n, unfollowed) ==
    /\ reloads' = IF CanReload THEN reloads + n ELSE reloads
    /\ reloads' <= MaxReloads
    /\ UNCHANGED hung
    /\ missed' = (missed \/ unfollowed \/ (n > 0 /\ ~CanReload))

\* BanService.sync with the list as it is to be.
Sync(list, fail) ==
    /\ CanFail(fail)
    /\ includes' = IncludesAfter(includes, "bans", fail)
    /\ deny' = DenyAfter(list, fail)
    /\ CallReload(IF DenyChanges(list, fail) THEN 1 ELSE 0,
                  includes' # includes /\ ~DenyChanges(list, fail))
    /\ unwritten' = IF deny' = list THEN unwritten \ {"bans"} ELSE unwritten \cup {"bans"}
    /\ faults' = faults + Cardinality(fail)
    /\ UNCHANGED snippet

\* BlockedPaths.apply, its copy of the configuration aside.
SyncBlockedPaths(cfg, fail) ==
    /\ CanFail(fail)
    /\ includes' = BlockedIncludes(includes, cfg, fail)
    /\ snippet' = SnippetAfter(cfg, fail)
    /\ CallReload(IF BlockedChanges(cfg, fail) THEN 1 ELSE 0, FALSE)
    /\ unwritten' =
         IF SnippetFails(cfg, fail) THEN unwritten \cup {"blocked"} ELSE unwritten \ {"blocked"}
    /\ faults' = faults + Cardinality(fail)
    /\ UNCHANGED deny

-----------------------------------------------------------------------------
Init ==
    /\ NginxInit
    /\ banned = {}
    /\ config \in Config
    /\ phase = "down"
    /\ cached = config
    /\ pending = {} /\ timer = FALSE
    /\ reloads = 0 /\ hung = 0
    /\ unwritten = Include
    /\ missed = FALSE
    /\ faults = 0

\* main() up to the server listening: the bans are synced and the blocked paths
\* applied without a wait between them.
Boot(failBans, failBlocked) ==
    /\ phase = "down"
    /\ phase' = "up"
    /\ cached' = config
    /\ failBans \cup failBlocked \subseteq MayFail \cap {"include", "file"}
    /\ faults' = faults + Cardinality(failBans) + Cardinality(failBlocked)
    /\ faults' <= MaxFaults
    /\ deny' = DenyAfter(banned, failBans)
    /\ snippet' = SnippetAfter(config, failBlocked)
    /\ includes' = BlockedIncludes(IncludesAfter(includes, "bans", failBans), config, failBlocked)
    /\ CallReload((IF DenyChanges(banned, failBans) THEN 1 ELSE 0)
                    + (IF BlockedChanges(config, failBlocked) THEN 1 ELSE 0),
                  includes' # includes /\ ~DenyChanges(banned, failBans)
                    /\ ~BlockedChanges(config, failBlocked))
    /\ unwritten' = (IF deny' = banned THEN {} ELSE {"bans"})
                      \cup (IF SnippetFails(config, failBlocked) THEN {"blocked"} ELSE {})
    /\ UNCHANGED <<nginxVars, storeVars, queueVars>>

\* BlockedPaths.handle for a fresh line of the client on a listed path.
Hit(c) ==
    /\ phase = "up"
    /\ cached.hitBan
    /\ c \notin Private \cup Edge
    /\ ~Excepted(c, cached)
    /\ c \notin pending
    /\ pending' = pending \cup {c}
    /\ timer' = TRUE
    /\ UNCHANGED <<dirVars, nginxVars, storeVars, phase, cached, callVars, historyVars>>

\* The list grows by new and is synced once, or nothing happens.
AddBans(new, fail) ==
    /\ banned' = banned \cup new
    /\ IF new # {}
         THEN Sync(banned', fail)
         ELSE fail = {} /\ UNCHANGED <<dirVars, callVars, historyVars>>
    /\ UNCHANGED config

\* A flush that copies the queue after it has cleared it.
FlushCleared(fail) ==
    /\ pending' = {}
    /\ timer' = FALSE
    /\ AddBans(BansOf({}), fail)

\* BlockedPaths.flush.
FlushQueue(fail) ==
    /\ pending' = {}
    /\ timer' = FALSE
    /\ AddBans(BansOf(pending), fail)

\* The timer of the queue fires.
Flush(fail) ==
    /\ phase = "up" /\ timer
    /\ FlushQueue(fail)
    /\ UNCHANGED <<nginxVars, phase, cached>>

\* SIGTERM: the watcher is closed first, so no line comes any more, and the
\* queue is flushed.
Stop(fail) ==
    /\ phase = "up"
    /\ phase' = "stopping"
    /\ FlushQueue(fail)
    /\ UNCHANGED <<nginxVars, cached>>

\* MaxReloads is a bound of the model.  What an operator or an evaluation does
\* leaves room for the reload of a flush or of the reconcile.
Room == reloads + 1 < MaxReloads

\* ThreatEngine.evaluate and the auto-ban at its end: the subjects that meet
\* the thresholds and have no good history are any set of clients.
Evaluate(subjects, fail) ==
    /\ Running /\ Room
    /\ config.autoBan
    /\ AddBans(BansOf({c \in subjects \ Edge : ~Excepted(c, config)}), fail)
    /\ UNCHANGED <<nginxVars, phase, cached, queueVars>>

\* POST /api/bans
Ban(t, fail) ==
    /\ Running /\ Room
    /\ Allowed(Widen[t])
    /\ banned' = banned \cup {Widen[t]}
    /\ Sync(banned', fail)
    /\ UNCHANGED <<nginxVars, config, phase, cached, queueVars>>

\* An unban that leaves the file to the next reconcile.
UnbanLater(t, fail) ==
    /\ Running /\ Room
    /\ fail = {}
    /\ banned' = banned \ {t, Widen[t]}
    /\ UNCHANGED <<dirVars, nginxVars, config, phase, cached, queueVars, callVars, historyVars>>

\* DELETE /api/bans/:ip
Unban(t, fail) ==
    /\ Running /\ Room
    /\ banned' = banned \ {t, Widen[t]}
    /\ Sync(banned', fail)
    /\ UNCHANGED <<nginxVars, config, phase, cached, queueVars>>

\* A configuration that is stored and not applied.
StoreConfig(cfg, fail) ==
    /\ Running /\ Room
    /\ fail = {}
    /\ config' = cfg
    /\ UNCHANGED <<dirVars, nginxVars, banned, phase, cached, queueVars, callVars, historyVars>>

\* PUT /api/threats/config
PutConfig(cfg, fail) ==
    /\ Running /\ Room
    /\ config' = cfg
    /\ cached' = cfg
    /\ SyncBlockedPaths(cfg, fail)
    /\ UNCHANGED <<nginxVars, banned, phase, queueVars>>

\* A reconcile that trusts a file once it is there.
ReconcileMissing(fail) ==
    /\ Running
    /\ deny = NoFile
    /\ Sync(banned, fail)
    /\ UNCHANGED <<nginxVars, storeVars, phase, cached, queueVars>>

\* The interval of index.ts, and POST /api/bans/sync.
Reconcile(fail) ==
    /\ Running
    /\ Sync(banned, fail)
    /\ UNCHANGED <<nginxVars, storeVars, phase, cached, queueVars>>

\* The process ends once its flush and the requests in progress are through.  One
\* that hangs holds it up until the container engine kills what does not stop.
Exit ==
    /\ phase = "stopping"
    /\ reloads = 0
    /\ phase' = "down"
    /\ pending' = {} /\ timer' = FALSE
    /\ hung' = 0
    /\ UNCHANGED <<dirVars, nginxVars, storeVars, cached, reloads, historyVars>>

\* A kill: the queue is gone, and the reloads not yet handed to Docker are.
Crash ==
    /\ phase # "down"
    /\ "crash" \in MayFail /\ faults < MaxFaults
    /\ phase' = "down"
    /\ pending' = {} /\ timer' = FALSE
    /\ \E left \in 0 .. reloads :
         /\ reloads' = left
         /\ missed' = (missed \/ (left = 0 /\ reloads > 0))
    /\ hung' = 0
    /\ faults' = faults + 1
    /\ UNCHANGED <<dirVars, nginxVars, storeVars, cached, unwritten>>

-----------------------------------------------------------------------------
\* A reload that was called reaches nginx ...
ReloadRuns ==
    /\ reloads > 0
    /\ reloads' = reloads - 1
    /\ Reload
    /\ missed' = ~(serving /\ ~Refused)
    /\ UNCHANGED <<storeVars, phase, cached, queueVars, hung, unwritten, faults>>

\* A failure counted although its reload has run.
FailsTwice ==
    /\ "reload" \in MayFail /\ faults < MaxFaults
    /\ reloads' = reloads - 1
    /\ missed' = (missed \/ reloads = 1)
    /\ faults' = faults + 1
    /\ UNCHANGED <<dirVars, nginxVars, storeVars, phase, cached, queueVars, hung, unwritten>>

\* ... or fails at one of its three calls, which is only logged.
ReloadFails ==
    /\ reloads > 0
    /\ "reload" \in MayFail /\ faults < MaxFaults
    /\ reloads' = reloads - 1
    /\ missed' = (missed \/ reloads = 1)
    /\ faults' = faults + 1
    /\ UNCHANGED <<dirVars, nginxVars, storeVars, phase, cached, queueVars, hung, unwritten>>

\* ... or gets no answer: nothing ends it, and its handler waits for ever.
ReloadHangs ==
    /\ reloads > 0
    /\ "hang" \in MayFail /\ faults < MaxFaults
    /\ reloads' = reloads - 1
    /\ hung' = hung + 1
    /\ missed' = (missed \/ reloads = 1)
    /\ faults' = faults + 1
    /\ UNCHANGED <<dirVars, nginxVars, storeVars, phase, cached, queueVars, unwritten>>

\* A call that hung comes to an end after all, and nginx is reloaded.
LateReload ==
    /\ hung > 0
    /\ hung' = hung - 1
    /\ Reload
    /\ missed' = (missed /\ ~(serving /\ ~Refused))
    /\ UNCHANGED <<storeVars, phase, cached, queueVars, reloads, unwritten, faults>>

\* NPM reloads nginx for a change of its own.
NpmReloads ==
    /\ Reload
    /\ missed' = (missed /\ ~(serving /\ ~Refused))
    /\ UNCHANGED <<storeVars, phase, cached, queueVars, callVars, unwritten, faults>>

NpmRestarts ==
    /\ Restart
    /\ missed' = (missed /\ Refused)
    /\ UNCHANGED <<storeVars, phase, cached, queueVars, callVars, unwritten, faults>>

\* The operator edits server_proxy.conf and an include is lost.
IncludeLost(line) ==
    /\ line \in includes
    /\ "edited" \in MayFail /\ faults < MaxFaults
    /\ includes' = includes \ {line}
    /\ missed' = TRUE
    /\ faults' = faults + 1
    /\ UNCHANGED <<deny, snippet, nginxVars, storeVars, phase, cached, queueVars, callVars, unwritten>>

Operator ==
    \E fail \in SUBSET {"include", "file"} :
        \/ \E t \in Target : Ban(t, fail) \/ Unban(t, fail)
        \/ \E cfg \in Config : PutConfig(cfg, fail)
        \/ Stop(fail)

Server ==
    \/ \E f, g \in SUBSET {"include", "file"} : Boot(f, g)
    \/ \E fail \in SUBSET {"include", "file"} :
        \/ Flush(fail)
        \/ Reconcile(fail)
        \/ \E subjects \in SUBSET Client : Evaluate(subjects, fail)
    \/ Exit

World ==
    \/ \E c \in Client : Hit(c)
    \/ ReloadRuns \/ ReloadFails \/ ReloadHangs \/ LateReload \/ NpmReloads \/ NpmRestarts \/ Crash
    \/ \E line \in Include : IncludeLost(line)

Next == Operator \/ Server \/ World

Spec == Init /\ [][Next]_vars

\* The timers of the process fire, and the container engine starts what has
\* stopped: the viewer (restart: unless-stopped) and the nginx of NPM.  A call in
\* flight runs, fails or hangs; one that hangs is owed nothing.
Fairness ==
    /\ WF_vars(\E f, g \in SUBSET {"include", "file"} : Boot(f, g))
    /\ WF_vars(\E fail \in SUBSET {"include", "file"} : Flush(fail))
    /\ WF_vars(\E fail \in SUBSET {"include", "file"} : Reconcile(fail))
    /\ WF_vars(Exit)
    /\ WF_vars(ReloadRuns \/ ReloadFails \/ ReloadHangs)
    /\ WF_vars(~serving /\ NpmRestarts)

FairSpec == Spec /\ Fairness

-----------------------------------------------------------------------------
\* Every variable has its type, and the calls in flight are bounded.
TypeOK ==
    /\ NginxTypeOK
    /\ banned \in SUBSET Target
    /\ config \in Config /\ cached \in Config
    /\ phase \in {"down", "up", "stopping"}
    /\ pending \in SUBSET Client /\ timer \in BOOLEAN
    /\ reloads \in 0 .. MaxReloads /\ hung \in Nat
    /\ unwritten \in SUBSET Include
    /\ missed \in BOOLEAN
    /\ faults \in 0 .. MaxFaults

\* The deny file is the stored list at every moment at which a handler of the
\* server can be waiting, unless its last write failed: every way of changing
\* the list goes through BanService.sync.
DenyFollowsList == "bans" \notin unwritten => deny = banned

\* The blocked-paths snippet and the copy that handle() works from follow the
\* stored configuration (BlockedPaths.apply), unless the write failed.
BlockedPathsFresh ==
    Running => /\ cached = config
               /\ "blocked" \notin unwritten => snippet = Body(config)

\* server_proxy.conf never includes a blocked-paths snippet that is not there
\* (the order of syncBlockedPaths), whatever fails between the two writes.
BlockedIncludeHasFile == "blocked" \in includes => snippet # NoFile

\* A client waits to be banned only while the process is up and its timer is
\* set: no hit is left in a queue that nobody flushes, and none is there any
\* more once a shutdown flushed (index.ts: "so a restart does not let it slip
\* through").
QueueHasTimer == pending # {} => phase = "up" /\ timer

\* A running nginx that works from something else than the directory has a
\* reload coming, unless one failed, hung, or was not called for.
NginxNotBehind == serving /\ ~Current => reloads > 0 \/ missed

\* The inductive invariant.
IInv ==
    /\ TypeOK
    /\ DenyFollowsList
    /\ BlockedPathsFresh
    /\ BlockedIncludeHasFile
    /\ QueueHasTimer
    /\ NginxNotBehind

\* No step puts a target on the list that covers a private address or a client
\* of the exception list as it is at that moment: the rules run on what is
\* stored, and after whatever was saved while a hit waited in the queue.
NeverBansTrusted ==
    [][\A t \in banned' \ banned : \A c \in Covers[t] : c \notin Private /\ ~Excepted(c, config)]_vars

\* What nothing undoes that gets there: neither the list, nor the file, nor the running
\* nginx ever denies a private address or a range too broad, by whatever way it came
\* onto the list and however late a write or a reload brings it to nginx
\* (bans/service.ts:23: "so you cannot lock yourself out").
Harmless(list) == \A t \in list : t \notin TooBroad /\ Covers[t] \cap Private = {}
NobodyLockedOut ==
    /\ Harmless(banned) /\ Harmless(loadedDeny)
    /\ deny # NoFile => Harmless(deny)

\* From end to end: when no reload is in flight and none was missed, a running nginx
\* denies the stored list, no more and no less, unless the last write of its file failed
\* or the include is lost (BanService.sync, BanEnforcer.sync, #reload).
EnforcedAtRest ==
    serving /\ reloads = 0 /\ ~missed /\ "bans" \notin unwritten /\ "bans" \in includes
        => loadedDeny = banned

\* A client leaves the queue decided: covered by the list, or refused by the rules as
\* they are then.  Only a kill drops it; an orderly stop does not (index.ts:136: "so a
\* restart does not let it slip through").
HitsAreDecided ==
    [][\A c \in pending \ pending' : Covered(c)' \/ ~Allowed(Widen[c]) \/ Crash]_vars

\* Once no write fails any more, the deny file is the list for good while the
\* server runs, however the list changes (the reconcile of index.ts).
EventuallyWritten == <>[](Running => deny = banned)

\* A client that asked for a blocked path is covered by the list in the end,
\* unless the rules refuse its target or the process stops.  (handle() queues no
\* other clients.)
HitHandled ==
    \A c \in Client \ (Private \cup Edge) : c \in pending ~> Covered(c) \/ ~Allowed(Widen[c]) \/ phase # "up"

\* The targets that can be on the list at all: see NobodyLockedOut.
Bannable == {t \in Target : t \notin TooBroad /\ Covers[t] \cap Private = {}}

\* A target that stays on the list is denied by the running nginx in the end,
\* unless a reload was missed: the last one in flight failed or hangs
\* (enforcer.ts:190-225 sets no timeout), or none was called for.
BansEnforced ==
    \A t \in Bannable : t \in banned ~> t \in loadedDeny \/ t \notin banned \/ missed

\* README: with a Docker socket the viewer "reloads nginx itself on every
\* change", so a target that stays on the list is denied in the end.
EveryBanEnforced == \A t \in Bannable : t \in banned ~> t \in loadedDeny \/ t \notin banned

\* enforcer.ts:95-97 of the other snippet: the file is there before its include, since
\* nginx refuses a config that includes a missing file.
IncludeHasFile == "bans" \in includes => deny # NoFile

===============================================================================
