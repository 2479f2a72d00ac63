------------------------- MODULE BanEnforcementProofs -------------------------
(***************************************************************************)
(* Proofs about BanEnforcement, for every set of clients and targets,      *)
(* every configuration and every bound.  The file work is proved once, in  *)
(* SyncKeeps, BlockedPathsKeeps and BootKeeps; the actions cite it.        *)
(***************************************************************************)
EXTENDS BanEnforcement, FiniteSetTheorems, TLAPS

Fails == SUBSET {"include", "file"}

\* A set of failed writes is finite, so it can be counted.
LEMMA FaultCount == \A fail \in Fails : Cardinality(fail) \in Nat
<1>1. IsFiniteSet({"include", "file"})
  <2>1. IsFiniteSet({} \cup {"include"}) BY FS_EmptySet, FS_AddElement
  <2>2. IsFiniteSet(({} \cup {"include"}) \cup {"file"}) BY <2>1, FS_AddElement
  <2>3. ({} \cup {"include"}) \cup {"file"} = {"include", "file"} OBVIOUS
  <2> QED BY <2>2, <2>3
<1> QED BY <1>1, FS_Subset, FS_CardinalityType DEF Fails

\* A call of #reload() is either in flight or missed, and takes back neither.
LEMMA CallReloadKeeps ==
  ASSUME reloads \in 0 .. MaxReloads, missed \in BOOLEAN,
         NEW n \in Nat, NEW unfollowed \in BOOLEAN,
         CallReload(n, unfollowed)
  PROVE  /\ reloads' \in 0 .. MaxReloads /\ hung' = hung
         /\ missed' \in BOOLEAN
         /\ reloads > 0 => reloads' > 0
         /\ missed => missed'
         /\ unfollowed => missed'
         /\ n > 0 => reloads' > 0 \/ missed'
<1>1. reloads' \in Nat /\ reloads' <= MaxReloads /\ reloads' >= reloads
  BY BansAssumption DEF CallReload
<1>2. CASE CanReload
  <2>1. reloads' = reloads + n BY <1>2 DEF CallReload
  <2> QED BY <1>1, <1>2, <2>1, BansAssumption DEF CallReload
<1>3. CASE ~CanReload
  BY <1>1, <1>3, BansAssumption DEF CallReload
<1> QED BY <1>2, <1>3

\* The directory after a sync: it is typed, the file is the list unless its
\* write failed, no include lost its file, and nginx is not left behind
\* unnoticed.
LEMMA SyncKeeps ==
  ASSUME IInv, NEW list \in SUBSET Target, NEW fail \in Fails,
         Sync(list, fail), UNCHANGED nginxVars
  PROVE  /\ NginxTypeOK'
         /\ reloads' \in 0 .. MaxReloads /\ hung' = hung /\ missed' \in BOOLEAN
         /\ unwritten' \in SUBSET Include /\ faults' \in 0 .. MaxFaults
         /\ "bans" \notin unwritten' => deny' = list
         /\ snippet' = snippet
         /\ "blocked" \in unwritten' <=> "blocked" \in unwritten
         /\ BlockedIncludeHasFile'
         /\ NginxNotBehind'
<1> DEFINE n == IF DenyChanges(list, fail) THEN 1 ELSE 0
           unfollowed == includes' # includes /\ ~DenyChanges(list, fail)
<1>1. CallReload(n, unfollowed) BY DEF Sync
<1>2. n \in Nat /\ unfollowed \in BOOLEAN OBVIOUS
<1>3. reloads \in 0 .. MaxReloads /\ missed \in BOOLEAN BY DEF IInv, TypeOK
<1>4. /\ reloads' \in 0 .. MaxReloads /\ hung' = hung
      /\ missed' \in BOOLEAN
      /\ reloads > 0 => reloads' > 0
      /\ missed => missed'
      /\ unfollowed => missed'
      /\ n > 0 => reloads' > 0 \/ missed'
  <2> HIDE DEF n, unfollowed
  <2> QED BY <1>1, <1>2, <1>3, CallReloadKeeps
<1>5. NginxTypeOK'
  BY DEF IInv, TypeOK, NginxTypeOK, Sync, IncludesAfter, DenyAfter, Include, nginxVars
<1>6. faults' \in 0 .. MaxFaults
  BY FaultCount, BansAssumption DEF IInv, TypeOK, Sync, CanFail
<1>7. /\ unwritten' \in SUBSET Include
      /\ "bans" \notin unwritten' => deny' = list
      /\ "blocked" \in unwritten' <=> "blocked" \in unwritten
  BY DEF IInv, TypeOK, Sync, Include
<1>8. snippet' = snippet BY DEF Sync
<1>9. "blocked" \in includes' <=> "blocked" \in includes
  BY DEF Sync, IncludesAfter
<1>10. BlockedIncludeHasFile'
  BY <1>8, <1>9 DEF IInv, BlockedIncludeHasFile
<1>11. NginxNotBehind'
  <2>1. CASE DenyChanges(list, fail)
    BY <1>4, <2>1 DEF NginxNotBehind
  <2>2. CASE ~DenyChanges(list, fail) /\ includes' # includes
    BY <1>4, <2>2 DEF NginxNotBehind
  <2>3. CASE ~DenyChanges(list, fail) /\ includes' = includes
    <3>1. deny' = deny BY <2>3 DEF Sync, DenyChanges, DenyAfter
    <3>2. Current' <=> Current
      BY <1>8, <2>3, <3>1 DEF Current, DirDeny, DirBlock, nginxVars
    <3> QED BY <1>4, <3>2 DEF IInv, NginxNotBehind, nginxVars
  <2> QED BY <2>1, <2>2, <2>3
<1> QED BY <1>4, <1>5, <1>6, <1>7, <1>8, <1>10, <1>11

\* The directory after BlockedPaths.apply.
LEMMA BlockedPathsKeeps ==
  ASSUME IInv, NEW cfg \in Config, NEW fail \in Fails,
         SyncBlockedPaths(cfg, fail), UNCHANGED nginxVars
  PROVE  /\ NginxTypeOK'
         /\ reloads' \in 0 .. MaxReloads /\ hung' = hung /\ missed' \in BOOLEAN
         /\ unwritten' \in SUBSET Include /\ faults' \in 0 .. MaxFaults
         /\ "bans" \in unwritten' <=> "bans" \in unwritten
         /\ deny' = deny
         /\ "blocked" \notin unwritten' => snippet' = Body(cfg)
         /\ BlockedIncludeHasFile'
         /\ NginxNotBehind'
<1> DEFINE n == IF BlockedChanges(cfg, fail) THEN 1 ELSE 0
<1>1. CallReload(n, FALSE) BY DEF SyncBlockedPaths
<1>2. n \in Nat OBVIOUS
<1>3. reloads \in 0 .. MaxReloads /\ missed \in BOOLEAN BY DEF IInv, TypeOK
<1>4. /\ reloads' \in 0 .. MaxReloads /\ hung' = hung
      /\ missed' \in BOOLEAN
      /\ reloads > 0 => reloads' > 0
      /\ missed => missed'
      /\ n > 0 => reloads' > 0 \/ missed'
  <2> HIDE DEF n
  <2> QED BY <1>1, <1>2, <1>3, CallReloadKeeps
<1>5. Body(cfg) \in Snippet BY DEF Body, Snippet
<1>6. NginxTypeOK'
  BY <1>5 DEF IInv, TypeOK, NginxTypeOK, SyncBlockedPaths, BlockedIncludes, SnippetAfter,
              IncludesAfter, Include, nginxVars
<1>7. faults' \in 0 .. MaxFaults
  BY FaultCount, BansAssumption DEF IInv, TypeOK, SyncBlockedPaths, CanFail
<1>8. /\ unwritten' \in SUBSET Include
      /\ "blocked" \notin unwritten' => snippet' = Body(cfg)
      /\ "bans" \in unwritten' <=> "bans" \in unwritten
  BY DEF IInv, TypeOK, SyncBlockedPaths, SnippetAfter, Include
<1>9. deny' = deny BY DEF SyncBlockedPaths
<1>10. BlockedIncludeHasFile'
  BY <1>5, NginxAssumption
  DEF IInv, BlockedIncludeHasFile, SyncBlockedPaths, BlockedIncludes, SnippetAfter
<1>11. NginxNotBehind'
  <2>1. CASE BlockedChanges(cfg, fail)
    BY <1>4, <2>1 DEF NginxNotBehind
  <2>2. CASE ~BlockedChanges(cfg, fail)
    <3>1. snippet' = snippet /\ includes' = includes
      BY <2>2 DEF SyncBlockedPaths, BlockedChanges, BlockedIncludes, SnippetAfter, IncludesAfter
    <3>2. Current' <=> Current
      BY <1>9, <3>1 DEF Current, DirDeny, DirBlock, nginxVars
    <3> QED BY <1>4, <3>2 DEF IInv, NginxNotBehind, nginxVars
  <2> QED BY <2>1, <2>2
<1> QED BY <1>4, <1>6, <1>7, <1>8, <1>9, <1>10, <1>11

\* Both at once, as main() does them.
LEMMA BootKeeps ==
  ASSUME IInv, NEW f \in Fails, NEW g \in Fails, Boot(f, g)
  PROVE  /\ NginxTypeOK'
         /\ reloads' \in 0 .. MaxReloads /\ hung' = hung /\ missed' \in BOOLEAN
         /\ unwritten' \in SUBSET Include /\ faults' \in 0 .. MaxFaults
         /\ "bans" \notin unwritten' => deny' = banned
         /\ "blocked" \notin unwritten' => snippet' = Body(config)
         /\ BlockedIncludeHasFile'
         /\ NginxNotBehind'
<1> DEFINE n == (IF DenyChanges(banned, f) THEN 1 ELSE 0)
                  + (IF BlockedChanges(config, g) THEN 1 ELSE 0)
           unfollowed == /\ includes' # includes
                         /\ ~DenyChanges(banned, f) /\ ~BlockedChanges(config, g)
<1>1. CallReload(n, unfollowed) BY DEF Boot
<1>2. n \in Nat /\ unfollowed \in BOOLEAN OBVIOUS
<1>3. reloads \in 0 .. MaxReloads /\ missed \in BOOLEAN BY DEF IInv, TypeOK
<1>4. /\ reloads' \in 0 .. MaxReloads /\ hung' = hung
      /\ missed' \in BOOLEAN
      /\ reloads > 0 => reloads' > 0
      /\ missed => missed'
      /\ unfollowed => missed'
      /\ n > 0 => reloads' > 0 \/ missed'
  <2> HIDE DEF n, unfollowed
  <2> QED BY <1>1, <1>2, <1>3, CallReloadKeeps
<1>5. Body(config) \in Snippet BY DEF Body, Snippet
<1>6. NginxTypeOK'
  BY <1>5 DEF IInv, TypeOK, NginxTypeOK, Boot, BlockedIncludes, SnippetAfter, DenyAfter,
              IncludesAfter, Include, nginxVars
<1>7. faults' \in 0 .. MaxFaults
  BY FaultCount, BansAssumption DEF IInv, TypeOK, Boot
<1>8. /\ unwritten' \in SUBSET Include
      /\ "bans" \notin unwritten' => deny' = banned
      /\ "blocked" \notin unwritten' => snippet' = Body(config)
  BY DEF IInv, TypeOK, Boot, SnippetAfter, Include
<1>9. BlockedIncludeHasFile'
  BY <1>5, NginxAssumption
  DEF IInv, BlockedIncludeHasFile, Boot, BlockedIncludes, SnippetAfter, IncludesAfter
<1>10. NginxNotBehind'
  <2>1. CASE DenyChanges(banned, f) \/ BlockedChanges(config, g)
    <3>1. n > 0 BY <2>1
    <3> QED BY <1>4, <3>1 DEF NginxNotBehind
  <2>2. CASE ~DenyChanges(banned, f) /\ ~BlockedChanges(config, g) /\ includes' # includes
    BY <1>4, <2>2 DEF NginxNotBehind
  <2>3. CASE ~DenyChanges(banned, f) /\ ~BlockedChanges(config, g) /\ includes' = includes
    <3>1. deny' = deny /\ snippet' = snippet
      BY <2>3 DEF Boot, DenyChanges, DenyAfter, BlockedChanges, SnippetAfter
    <3>2. Current' <=> Current
      BY <2>3, <3>1 DEF Boot, Current, DirDeny, DirBlock, nginxVars
    <3> QED BY <1>4, <3>2 DEF IInv, NginxNotBehind, Boot, nginxVars
  <2> QED BY <2>1, <2>2, <2>3
<1> QED BY <1>4, <1>6, <1>7, <1>8, <1>9, <1>10

-----------------------------------------------------------------------------
\* The parts of the inductive invariant, from what an action that runs
\* BanService.sync leaves behind.
LEMMA SyncStep ==
  ASSUME IInv, NEW fail \in Fails, banned' \in SUBSET Target,
         Sync(banned', fail), UNCHANGED <<nginxVars, config, cached>>,
         phase' \in {"up", "stopping"}, Running,
         pending' \in SUBSET Client, timer' \in BOOLEAN, QueueHasTimer'
  PROVE  IInv'
<1> DEFINE list == banned'
<1>1. list \in SUBSET Target /\ Sync(list, fail) OBVIOUS
<1>2. /\ NginxTypeOK'
      /\ reloads' \in 0 .. MaxReloads /\ hung' = hung /\ missed' \in BOOLEAN
      /\ unwritten' \in SUBSET Include /\ faults' \in 0 .. MaxFaults
      /\ "bans" \notin unwritten' => deny' = list
      /\ snippet' = snippet
      /\ "blocked" \in unwritten' <=> "blocked" \in unwritten
      /\ BlockedIncludeHasFile'
      /\ NginxNotBehind'
  <2> HIDE DEF list
  <2> QED BY <1>1, SyncKeeps
<1>3. TypeOK' BY <1>2 DEF IInv, TypeOK
<1>4. DenyFollowsList' BY <1>2 DEF DenyFollowsList
<1>5. BlockedPathsFresh' BY <1>2 DEF IInv, BlockedPathsFresh, Running, Body
<1> QED BY <1>2, <1>3, <1>4, <1>5 DEF IInv

\* A batch of bans adds targets only.
LEMMA BansOfTargets ==
  \A batch \in SUBSET Client : BansOf(batch) \in SUBSET Target
BY BansAssumption DEF BansOf

\* An action that adds a batch, and syncs unless it is empty.
LEMMA AddBansStep ==
  ASSUME IInv, NEW batch \in SUBSET Client, NEW fail \in Fails,
         AddBans(BansOf(batch), fail), UNCHANGED <<nginxVars, cached>>,
         phase' \in {"up", "stopping"}, Running,
         pending' \in SUBSET Client, timer' \in BOOLEAN, QueueHasTimer'
  PROVE  IInv'
<1>1. banned' \in SUBSET Target
  BY BansOfTargets DEF AddBans, IInv, TypeOK
<1>2. CASE BansOf(batch) # {}
  BY <1>1, <1>2, SyncStep DEF AddBans
<1>3. CASE BansOf(batch) = {}
  <2>1. UNCHANGED <<dirVars, callVars, historyVars, banned, config>>
    BY <1>3 DEF AddBans
  <2>2. TypeOK'
    BY <2>1 DEF IInv, TypeOK, NginxTypeOK, dirVars, nginxVars, callVars, historyVars
  <2>3. DenyFollowsList' /\ BlockedIncludeHasFile'
    BY <2>1 DEF IInv, DenyFollowsList, BlockedIncludeHasFile, dirVars, historyVars
  <2>4. BlockedPathsFresh'
    BY <2>1 DEF IInv, BlockedPathsFresh, Running, Body, dirVars, historyVars
  <2>5. NginxNotBehind'
    BY <2>1 DEF IInv, NginxNotBehind, Current, DirDeny, DirBlock, dirVars, nginxVars, callVars,
                historyVars
  <2> QED BY <2>2, <2>3, <2>4, <2>5 DEF IInv
<1> QED BY <1>2, <1>3

\* A step that leaves the directory, nginx, the stores and the history alone.
LEMMA QueueStep ==
  ASSUME IInv, UNCHANGED <<dirVars, nginxVars, storeVars, cached, reloads, historyVars>>,
         hung' \in Nat,
         phase' \in {"down", "up", "stopping"}, phase' # phase => phase' = "down",
         pending' \in SUBSET Client, timer' \in BOOLEAN, QueueHasTimer'
  PROVE  IInv'
<1>1. TypeOK'
  BY DEF IInv, TypeOK, NginxTypeOK, dirVars, nginxVars, storeVars, historyVars
<1>2. DenyFollowsList' /\ BlockedIncludeHasFile'
  BY DEF IInv, DenyFollowsList, BlockedIncludeHasFile, dirVars, storeVars, historyVars
<1>3. BlockedPathsFresh'
  BY DEF IInv, BlockedPathsFresh, Running, Body, dirVars, storeVars, historyVars
<1>4. NginxNotBehind'
  BY DEF IInv, NginxNotBehind, Current, DirDeny, DirBlock, dirVars, nginxVars, historyVars
<1> QED BY <1>1, <1>2, <1>3, <1>4 DEF IInv

-----------------------------------------------------------------------------
LEMMA InitKeeps == Init => IInv
<1> SUFFICES ASSUME Init PROVE IInv OBVIOUS
<1>1. TypeOK
  <2>1. NginxTypeOK BY DEF Init, NginxInit, NginxTypeOK
  <2>2. reloads \in 0 .. MaxReloads /\ faults \in 0 .. MaxFaults
    BY BansAssumption DEF Init
  <2> QED BY <2>1, <2>2 DEF Init, TypeOK
<1>2. NginxNotBehind
  BY DEF Init, NginxInit, NginxNotBehind, Current, DirDeny, DirBlock
<1> QED
  BY <1>1, <1>2 DEF Init, NginxInit, IInv, DenyFollowsList, BlockedPathsFresh, Running,
                    BlockedIncludeHasFile, QueueHasTimer, Include

LEMMA BootStep ==
  ASSUME IInv, NEW f \in Fails, NEW g \in Fails, Boot(f, g)
  PROVE  IInv'
<1>1. /\ NginxTypeOK'
      /\ reloads' \in 0 .. MaxReloads /\ hung' = hung /\ missed' \in BOOLEAN
      /\ unwritten' \in SUBSET Include /\ faults' \in 0 .. MaxFaults
      /\ "bans" \notin unwritten' => deny' = banned
      /\ "blocked" \notin unwritten' => snippet' = Body(config)
      /\ BlockedIncludeHasFile'
      /\ NginxNotBehind'
  BY BootKeeps
<1>2. UNCHANGED <<banned, config, pending, timer>> /\ phase = "down" /\ phase' = "up" /\ cached' = config
  BY DEF Boot, storeVars, queueVars
<1>3. TypeOK' BY <1>1, <1>2 DEF IInv, TypeOK
<1>4. DenyFollowsList' BY <1>1, <1>2 DEF DenyFollowsList
<1>5. BlockedPathsFresh' BY <1>1, <1>2 DEF BlockedPathsFresh, Body
<1>6. QueueHasTimer' BY <1>2 DEF IInv, QueueHasTimer
<1> QED BY <1>1, <1>3, <1>4, <1>5, <1>6 DEF IInv

LEMMA PutConfigStep ==
  ASSUME IInv, NEW cfg \in Config, NEW fail \in Fails, PutConfig(cfg, fail)
  PROVE  IInv'
<1>1. SyncBlockedPaths(cfg, fail) /\ UNCHANGED nginxVars BY DEF PutConfig
<1>2. /\ NginxTypeOK'
      /\ reloads' \in 0 .. MaxReloads /\ hung' = hung /\ missed' \in BOOLEAN
      /\ unwritten' \in SUBSET Include /\ faults' \in 0 .. MaxFaults
      /\ "bans" \in unwritten' <=> "bans" \in unwritten
      /\ deny' = deny
      /\ "blocked" \notin unwritten' => snippet' = Body(cfg)
      /\ BlockedIncludeHasFile'
      /\ NginxNotBehind'
  BY <1>1, BlockedPathsKeeps
<1>3. UNCHANGED <<banned, phase, pending, timer>> /\ config' = cfg /\ cached' = cfg
  BY DEF PutConfig, queueVars
<1>4. TypeOK' BY <1>2, <1>3 DEF IInv, TypeOK
<1>5. DenyFollowsList' BY <1>2, <1>3 DEF IInv, DenyFollowsList
<1>6. BlockedPathsFresh' BY <1>2, <1>3 DEF BlockedPathsFresh, Body
<1>7. QueueHasTimer' BY <1>3 DEF IInv, QueueHasTimer
<1> QED BY <1>2, <1>4, <1>5, <1>6, <1>7 DEF IInv

LEMMA CrashStep == IInv /\ Crash => IInv'
<1> SUFFICES ASSUME IInv, Crash PROVE IInv' OBVIOUS
<1>1. PICK left \in 0 .. reloads :
        /\ reloads' = left
        /\ missed' = (missed \/ (left = 0 /\ reloads > 0))
  BY DEF Crash
<1>2. reloads \in 0 .. MaxReloads /\ MaxReloads \in Nat /\ faults \in 0 .. MaxFaults /\ MaxFaults \in Nat
  BY BansAssumption DEF IInv, TypeOK
<1>3. reloads' \in 0 .. MaxReloads /\ hung' \in Nat /\ faults' \in 0 .. MaxFaults
  BY <1>1, <1>2 DEF Crash
<1>4. reloads > 0 \/ missed => reloads' > 0 \/ missed'
  <2>1. CASE left = 0
    <3>1. reloads > 0 => missed' BY <1>1, <2>1
    <3>2. missed => missed' BY <1>1
    <3> QED BY <3>1, <3>2
  <2>2. CASE left # 0
    BY <1>1, <1>2, <2>2
  <2> QED BY <2>1, <2>2
<1>5. missed' \in BOOLEAN BY <1>1 DEF IInv, TypeOK
<1>6. TypeOK'
  BY <1>3, <1>5 DEF IInv, TypeOK, NginxTypeOK, Crash, dirVars, nginxVars, storeVars
<1>7. DenyFollowsList' /\ BlockedIncludeHasFile'
  BY DEF IInv, DenyFollowsList, BlockedIncludeHasFile, Crash, dirVars, storeVars
<1>8. BlockedPathsFresh' /\ QueueHasTimer'
  BY DEF BlockedPathsFresh, Running, QueueHasTimer, Crash
<1>9. NginxNotBehind'
  BY <1>4 DEF IInv, NginxNotBehind, Current, DirDeny, DirBlock, Crash, dirVars, nginxVars
<1> QED BY <1>6, <1>7, <1>8, <1>9 DEF IInv

\* nginx reads the directory, or stays as it is: after a reload that works it
\* is up to date.
LEMMA ReloadKeeps ==
  ASSUME NginxTypeOK, Reload
  PROVE  /\ NginxTypeOK' /\ UNCHANGED dirVars /\ serving' = serving
         /\ serving /\ ~Refused => Current'
         /\ ~(serving /\ ~Refused) => Current' = Current
<1>1. UNCHANGED <<deny, snippet, includes, serving>> BY DEF Reload, dirVars
<1>2. DirDeny' = DirDeny /\ DirBlock' = DirBlock BY <1>1 DEF DirDeny, DirBlock
<1>3. DirDeny \in SUBSET Target /\ DirBlock \in BOOLEAN
  BY DEF NginxTypeOK, DirDeny, DirBlock
<1>4. CASE serving /\ ~Refused
  BY <1>1, <1>2, <1>3, <1>4 DEF Reload, Load, Current, NginxTypeOK, dirVars
<1>5. CASE ~(serving /\ ~Refused)
  BY <1>1, <1>2, <1>5 DEF Reload, Current, NginxTypeOK, dirVars
<1> QED BY <1>4, <1>5

LEMMA RestartKeeps ==
  ASSUME NginxTypeOK, Restart
  PROVE  /\ NginxTypeOK' /\ UNCHANGED dirVars
         /\ serving' = ~Refused
         /\ ~Refused => Current'
<1>1. UNCHANGED <<deny, snippet, includes>> BY DEF Restart, dirVars
<1>2. DirDeny' = DirDeny /\ DirBlock' = DirBlock BY <1>1 DEF DirDeny, DirBlock
<1>3. DirDeny \in SUBSET Target /\ DirBlock \in BOOLEAN /\ Refused \in BOOLEAN
  BY DEF NginxTypeOK, DirDeny, DirBlock, Refused
<1>4. CASE Refused
  BY <1>1, <1>3, <1>4 DEF Restart, NginxTypeOK, dirVars
<1>5. CASE ~Refused
  BY <1>1, <1>2, <1>3, <1>5 DEF Restart, Load, Current, NginxTypeOK, dirVars
<1> QED BY <1>4, <1>5

\* What nginx does on its own, or is told to, changes nothing of the server.
LEMMA NginxStep ==
  ASSUME IInv, NginxTypeOK', UNCHANGED dirVars,
         UNCHANGED <<storeVars, phase, cached, queueVars, unwritten>>,
         faults' \in 0 .. MaxFaults, reloads' \in 0 .. MaxReloads, hung' \in Nat,
         missed' \in BOOLEAN,
         NginxNotBehind'
  PROVE  IInv'
<1>1. TypeOK' BY DEF IInv, TypeOK, storeVars, queueVars
<1>2. DenyFollowsList' /\ BlockedIncludeHasFile' /\ QueueHasTimer'
  BY DEF IInv, DenyFollowsList, BlockedIncludeHasFile, QueueHasTimer, dirVars, storeVars, queueVars
<1>3. BlockedPathsFresh'
  BY DEF IInv, BlockedPathsFresh, Running, Body, dirVars, storeVars
<1> QED BY <1>1, <1>2, <1>3 DEF IInv

LEMMA ReloadRunsStep == IInv /\ ReloadRuns => IInv'
<1> SUFFICES ASSUME IInv, ReloadRuns PROVE IInv' OBVIOUS
<1>1. /\ NginxTypeOK' /\ UNCHANGED dirVars /\ serving' = serving
      /\ serving /\ ~Refused => Current'
  BY ReloadKeeps DEF IInv, TypeOK, ReloadRuns
<1>2. reloads' \in 0 .. MaxReloads /\ hung' \in Nat
  BY BansAssumption DEF IInv, TypeOK, ReloadRuns
<1>3. missed' \in BOOLEAN BY DEF ReloadRuns
<1>4. NginxNotBehind' BY <1>1 DEF NginxNotBehind, ReloadRuns
<1> QED BY <1>1, <1>2, <1>3, <1>4, NginxStep DEF IInv, TypeOK, ReloadRuns

LEMMA ReloadFailsStep == IInv /\ ReloadFails => IInv'
<1> SUFFICES ASSUME IInv, ReloadFails PROVE IInv' OBVIOUS
<1>1. NginxTypeOK' /\ UNCHANGED dirVars /\ serving' = serving
  BY DEF IInv, TypeOK, NginxTypeOK, ReloadFails, dirVars, nginxVars
<1>2. reloads' \in 0 .. MaxReloads /\ hung' \in Nat /\ faults' \in 0 .. MaxFaults
  BY BansAssumption DEF IInv, TypeOK, ReloadFails
<1>3. missed' \in BOOLEAN BY DEF IInv, TypeOK, ReloadFails
<1>4. reloads' > 0 \/ missed'
  <2>1. CASE reloads = 1 BY <2>1 DEF ReloadFails
  <2>2. CASE reloads # 1
    BY <2>2, BansAssumption DEF IInv, TypeOK, ReloadFails
  <2> QED BY <2>1, <2>2
<1> QED BY <1>1, <1>2, <1>3, <1>4, NginxStep DEF NginxNotBehind, ReloadFails

LEMMA ReloadHangsStep == IInv /\ ReloadHangs => IInv'
<1> SUFFICES ASSUME IInv, ReloadHangs PROVE IInv' OBVIOUS
<1>1. NginxTypeOK' /\ UNCHANGED dirVars /\ serving' = serving
  BY DEF IInv, TypeOK, NginxTypeOK, ReloadHangs, dirVars, nginxVars
<1>2. reloads' \in 0 .. MaxReloads /\ hung' \in Nat /\ faults' \in 0 .. MaxFaults
  BY BansAssumption DEF IInv, TypeOK, ReloadHangs
<1>3. missed' \in BOOLEAN BY DEF IInv, TypeOK, ReloadHangs
<1>4. reloads' > 0 \/ missed'
  <2>1. CASE reloads = 1 BY <2>1 DEF ReloadHangs
  <2>2. CASE reloads # 1
    BY <2>2, BansAssumption DEF IInv, TypeOK, ReloadHangs
  <2> QED BY <2>1, <2>2
<1> QED BY <1>1, <1>2, <1>3, <1>4, NginxStep DEF NginxNotBehind, ReloadHangs

\* A reload that no call in flight stands for: one of NPM, or of a call that hung.
LEMMA OtherReloadStep ==
  ASSUME IInv, Reload, missed' = (missed /\ ~(serving /\ ~Refused)), hung' \in Nat,
         UNCHANGED <<storeVars, phase, cached, queueVars, reloads, unwritten, faults>>
  PROVE  IInv'
<1>1. /\ NginxTypeOK' /\ UNCHANGED dirVars /\ serving' = serving
      /\ serving /\ ~Refused => Current'
      /\ ~(serving /\ ~Refused) => Current' = Current
  BY ReloadKeeps DEF IInv, TypeOK
<1>2. missed' \in BOOLEAN BY DEF IInv, TypeOK
<1>3. NginxNotBehind'
  <2>1. CASE serving /\ ~Refused
    BY <1>1, <2>1 DEF NginxNotBehind
  <2>2. CASE ~(serving /\ ~Refused)
    <3>1. missed => missed' BY <2>2
    <3>2. Current' = Current BY <1>1, <2>2
    <3> QED BY <1>1, <3>1, <3>2 DEF IInv, NginxNotBehind
  <2> QED BY <2>1, <2>2
<1> QED BY <1>1, <1>2, <1>3, NginxStep DEF IInv, TypeOK

LEMMA LateReloadStep == IInv /\ LateReload => IInv'
<1> SUFFICES ASSUME IInv, LateReload PROVE IInv' OBVIOUS
<1>1. hung' \in Nat BY DEF IInv, TypeOK, LateReload
<1> QED BY <1>1, OtherReloadStep DEF LateReload

LEMMA NpmReloadsStep == IInv /\ NpmReloads => IInv'
<1> SUFFICES ASSUME IInv, NpmReloads PROVE IInv' OBVIOUS
<1>1. hung' \in Nat /\ UNCHANGED reloads BY DEF IInv, TypeOK, NpmReloads, callVars
<1> QED BY <1>1, OtherReloadStep DEF NpmReloads

LEMMA NpmRestartsStep == IInv /\ NpmRestarts => IInv'
<1> SUFFICES ASSUME IInv, NpmRestarts PROVE IInv' OBVIOUS
<1>1. NginxTypeOK' /\ UNCHANGED dirVars /\ serving' = ~Refused /\ (~Refused => Current')
  BY RestartKeeps DEF IInv, TypeOK, NpmRestarts
<1>2. UNCHANGED <<storeVars, phase, cached, queueVars, unwritten, faults, reloads, hung>>
  BY DEF NpmRestarts, callVars
<1>3. missed' \in BOOLEAN BY DEF IInv, TypeOK, NpmRestarts
<1>4. NginxNotBehind' BY <1>1 DEF NginxNotBehind
<1> QED BY <1>1, <1>2, <1>3, <1>4, NginxStep DEF IInv, TypeOK

LEMMA IncludeLostStep == ASSUME IInv, NEW line \in Include, IncludeLost(line) PROVE IInv'
<1>1. UNCHANGED <<deny, snippet, nginxVars, banned, config, phase, cached, pending, timer, reloads, hung, unwritten>>
  BY DEF IncludeLost, storeVars, queueVars, callVars
<1>2. faults' \in 0 .. MaxFaults
  BY BansAssumption DEF IInv, TypeOK, IncludeLost
<1>3. TypeOK'
  BY <1>1, <1>2 DEF IInv, TypeOK, NginxTypeOK, IncludeLost, nginxVars
<1>4. DenyFollowsList' /\ QueueHasTimer'
  BY <1>1 DEF IInv, DenyFollowsList, QueueHasTimer
<1>5. BlockedPathsFresh' BY <1>1 DEF IInv, BlockedPathsFresh, Running, Body
<1>6. BlockedIncludeHasFile' BY <1>1 DEF IInv, BlockedIncludeHasFile, IncludeLost
<1>7. NginxNotBehind' BY DEF NginxNotBehind, IncludeLost
<1> QED BY <1>3, <1>4, <1>5, <1>6, <1>7 DEF IInv

-----------------------------------------------------------------------------
LEMMA OperatorStep == IInv /\ Operator => IInv'
<1> SUFFICES ASSUME IInv, NEW fail \in Fails,
                    \/ \E t \in Target : Ban(t, fail) \/ Unban(t, fail)
                    \/ \E cfg \in Config : PutConfig(cfg, fail)
                    \/ Stop(fail)
             PROVE  IInv'
  BY DEF Operator, Fails
<1>1. ASSUME NEW t \in Target, Ban(t, fail) PROVE IInv'
  <2>1. banned' \in SUBSET Target
    BY <1>1, BansAssumption DEF Ban, IInv, TypeOK
  <2>2. phase' \in {"up", "stopping"} /\ Running BY <1>1 DEF Ban, Running
  <2>3. pending' \in SUBSET Client /\ timer' \in BOOLEAN /\ QueueHasTimer'
    BY <1>1 DEF Ban, IInv, TypeOK, QueueHasTimer, queueVars
  <2> QED BY <1>1, <2>1, <2>2, <2>3, SyncStep DEF Ban
<1>2. ASSUME NEW t \in Target, Unban(t, fail) PROVE IInv'
  <2>1. banned' \in SUBSET Target BY <1>2 DEF Unban, IInv, TypeOK
  <2>2. phase' \in {"up", "stopping"} /\ Running BY <1>2 DEF Unban, Running
  <2>3. pending' \in SUBSET Client /\ timer' \in BOOLEAN /\ QueueHasTimer'
    BY <1>2 DEF Unban, IInv, TypeOK, QueueHasTimer, queueVars
  <2>4. Sync(banned', fail) /\ UNCHANGED <<nginxVars, config, cached>>
    BY <1>2 DEF Unban
  <2> QED BY <2>1, <2>2, <2>3, <2>4, SyncStep
<1>3. ASSUME NEW cfg \in Config, PutConfig(cfg, fail) PROVE IInv'
  BY <1>3, PutConfigStep
<1>4. CASE Stop(fail)
  <2>1. pending \in SUBSET Client BY DEF IInv, TypeOK
  <2>2. pending' \in SUBSET Client /\ timer' \in BOOLEAN /\ QueueHasTimer'
    BY <1>4 DEF Stop, FlushQueue, QueueHasTimer
  <2>3. phase' \in {"up", "stopping"} /\ Running BY <1>4 DEF Stop, Running
  <2>4. AddBans(BansOf(pending), fail) /\ UNCHANGED <<nginxVars, cached>>
    BY <1>4 DEF Stop, FlushQueue
  <2> QED BY <2>1, <2>2, <2>3, <2>4, AddBansStep
<1> QED BY <1>1, <1>2, <1>3, <1>4

LEMMA ServerStep == IInv /\ Server => IInv'
<1> SUFFICES ASSUME IInv, Server PROVE IInv' OBVIOUS
<1>1. ASSUME NEW f \in Fails, NEW g \in Fails, Boot(f, g) PROVE IInv'
  BY <1>1, BootStep
<1>2. ASSUME NEW fail \in Fails, Flush(fail) PROVE IInv'
  <2>1. pending \in SUBSET Client BY DEF IInv, TypeOK
  <2>2. pending' \in SUBSET Client /\ timer' \in BOOLEAN /\ QueueHasTimer'
    BY <1>2 DEF Flush, FlushQueue, QueueHasTimer
  <2>3. phase' \in {"up", "stopping"} /\ Running BY <1>2 DEF Flush, Running
  <2>4. AddBans(BansOf(pending), fail) /\ UNCHANGED <<nginxVars, cached>>
    BY <1>2 DEF Flush, FlushQueue
  <2> QED BY <2>1, <2>2, <2>3, <2>4, AddBansStep
<1>3. ASSUME NEW fail \in Fails, Reconcile(fail) PROVE IInv'
  <2>1. banned' \in SUBSET Target /\ Sync(banned', fail)
    BY <1>3 DEF Reconcile, IInv, TypeOK, storeVars, Sync
  <2>2. phase' \in {"up", "stopping"} /\ Running BY <1>3 DEF Reconcile, Running
  <2>3. pending' \in SUBSET Client /\ timer' \in BOOLEAN /\ QueueHasTimer'
    BY <1>3 DEF Reconcile, IInv, TypeOK, QueueHasTimer, queueVars
  <2>4. UNCHANGED <<nginxVars, config, cached>> BY <1>3 DEF Reconcile, storeVars
  <2> QED BY <2>1, <2>2, <2>3, <2>4, SyncStep
<1>4. ASSUME NEW fail \in Fails, NEW subjects \in SUBSET Client, Evaluate(subjects, fail)
      PROVE  IInv'
  <2> DEFINE batch == {c \in subjects \ Edge : ~Excepted(c, config)}
  <2>1. batch \in SUBSET Client OBVIOUS
  <2>2. pending' \in SUBSET Client /\ timer' \in BOOLEAN /\ QueueHasTimer'
    BY <1>4 DEF Evaluate, IInv, TypeOK, QueueHasTimer, queueVars
  <2>3. phase' \in {"up", "stopping"} /\ Running BY <1>4 DEF Evaluate, Running
  <2>4. AddBans(BansOf(batch), fail) /\ UNCHANGED <<nginxVars, cached>>
    BY <1>4 DEF Evaluate
  <2> HIDE DEF batch
  <2> QED BY <2>1, <2>2, <2>3, <2>4, AddBansStep
<1>5. CASE Exit
  <2>1. hung' \in Nat BY <1>5 DEF Exit
  <2> QED BY <1>5, <2>1, QueueStep DEF Exit, QueueHasTimer
<1> QED BY <1>1, <1>2, <1>3, <1>4, <1>5 DEF Server, Fails

LEMMA WorldStep == IInv /\ World => IInv'
<1> SUFFICES ASSUME IInv, World PROVE IInv' OBVIOUS
<1>1. ASSUME NEW c \in Client, Hit(c) PROVE IInv'
  <2>1. pending' \in SUBSET Client /\ timer' \in BOOLEAN /\ QueueHasTimer' /\ phase' = "up"
    BY <1>1 DEF Hit, IInv, TypeOK, QueueHasTimer
  <2>2. /\ UNCHANGED <<dirVars, nginxVars, storeVars, cached, reloads, historyVars>>
        /\ phase' = phase /\ hung' \in Nat
    BY <1>1 DEF Hit, callVars, IInv, TypeOK
  <2> QED BY <2>1, <2>2, QueueStep
<1> QED
  BY <1>1, ReloadRunsStep, ReloadFailsStep, ReloadHangsStep, LateReloadStep, NpmReloadsStep,
     NpmRestartsStep, CrashStep, IncludeLostStep DEF World

LEMMA StutterStep == IInv /\ UNCHANGED vars => IInv'
<1> SUFFICES ASSUME IInv, UNCHANGED vars PROVE IInv' OBVIOUS
<1>1. pending' \in SUBSET Client /\ timer' \in BOOLEAN /\ QueueHasTimer' /\ phase' = phase
  BY DEF vars, queueVars, IInv, TypeOK, QueueHasTimer
<1>2. phase' \in {"down", "up", "stopping"} BY <1>1 DEF IInv, TypeOK
<1>3. /\ UNCHANGED <<dirVars, nginxVars, storeVars, cached, reloads, historyVars>>
      /\ hung' \in Nat
  BY DEF vars, callVars, IInv, TypeOK
<1> QED BY <1>1, <1>2, <1>3, QueueStep

LEMMA InductiveStep == IInv /\ [Next]_vars => IInv'
BY OperatorStep, ServerStep, WorldStep, StutterStep DEF Next

\* Every behaviour satisfies the inductive invariant.
THEOREM Invariant == Spec => []IInv
BY InitKeeps, InductiveStep, PTL DEF Spec

\* The variables keep their types.
THEOREM TypeCorrect == Spec => []TypeOK
<1>1. IInv => TypeOK BY DEF IInv
<1> QED BY Invariant, <1>1, PTL

\* The deny file is the ban list unless its last write failed, whatever handler
\* ran last.
THEOREM FileIsList == Spec => []DenyFollowsList
<1>1. IInv => DenyFollowsList BY DEF IInv
<1> QED BY Invariant, <1>1, PTL

\* No blocked-paths include ever names a missing file.
THEOREM IncludeIsSafe == Spec => []BlockedIncludeHasFile
<1>1. IInv => BlockedIncludeHasFile BY DEF IInv
<1> QED BY Invariant, <1>1, PTL

\* While the server runs, its copy of the configuration is the stored one, and the
\* blocked-paths snippet is what it asks for unless the last write of it failed.
THEOREM CopiesAreFresh == Spec => []BlockedPathsFresh
<1>1. IInv => BlockedPathsFresh BY DEF IInv
<1> QED BY Invariant, <1>1, PTL

\* A running nginx is behind the directory only while a reload is in flight or
\* after one was missed.
THEOREM NginxFollows == Spec => []NginxNotBehind
<1>1. IInv => NginxNotBehind BY DEF IInv
<1> QED BY Invariant, <1>1, PTL

-----------------------------------------------------------------------------
\* The rules of ban() in terms of clients: a target that passes covers none that
\* is private or trusted.
LEMMA AllowedIsHarmless ==
  ASSUME TypeOK, NEW t \in Target, Allowed(t), NEW c \in Covers[t]
  PROVE  c \notin Private /\ ~Excepted(c, config)
<1>1. Covers[t] \cap Private = {} /\ \A e \in config.exceptions : Covers[t] \cap Covers[e] = {}
  BY DEF Allowed, Overlap
<1> QED BY <1>1 DEF Excepted

\* Only a batch and an operator's ban add to the list, and what they add passed
\* the rules.
LEMMA AddedIsAllowed ==
  ASSUME TypeOK, Next, NEW t \in banned' \ banned
  PROVE  t \in Target /\ Allowed(t)
<1>1. ASSUME NEW batch \in SUBSET Client, banned' = banned \cup BansOf(batch)
      PROVE  t \in Target /\ Allowed(t)
  <2>1. t \in BansOf(batch) BY <1>1
  <2>2. BansOf(batch) \in SUBSET Target BY BansOfTargets
  <2>3. Allowed(t) BY <2>1 DEF BansOf
  <2> QED BY <2>1, <2>2, <2>3
<1>2. ASSUME Operator PROVE t \in Target /\ Allowed(t)
  <2>1. ASSUME NEW u \in Target, NEW fail, Ban(u, fail) PROVE t \in Target /\ Allowed(t)
    <3>1. t = Widen[u] /\ Allowed(Widen[u]) BY <2>1 DEF Ban
    <3> QED BY <3>1, BansAssumption
  <2>2. ASSUME NEW u \in Target, NEW fail, Unban(u, fail) PROVE FALSE
    BY <2>2 DEF Unban
  <2>3. ASSUME NEW cfg, NEW fail, PutConfig(cfg, fail) PROVE FALSE
    BY <2>3 DEF PutConfig
  <2>4. ASSUME NEW fail, Stop(fail) PROVE t \in Target /\ Allowed(t)
    <3>1. pending \in SUBSET Client /\ banned' = banned \cup BansOf(pending)
      BY <2>4 DEF Stop, FlushQueue, AddBans, TypeOK
    <3> QED BY <1>1, <3>1
  <2> QED BY <1>2, <2>1, <2>2, <2>3, <2>4 DEF Operator
<1>3. ASSUME Server PROVE t \in Target /\ Allowed(t)
  <2>1. ASSUME NEW fail, Flush(fail) PROVE t \in Target /\ Allowed(t)
    <3>1. pending \in SUBSET Client /\ banned' = banned \cup BansOf(pending)
      BY <2>1 DEF Flush, FlushQueue, AddBans, TypeOK
    <3> QED BY <1>1, <3>1
  <2>2. ASSUME NEW subjects \in SUBSET Client, NEW fail, Evaluate(subjects, fail)
        PROVE  t \in Target /\ Allowed(t)
    <3> DEFINE batch == {c \in subjects \ Edge : ~Excepted(c, config)}
    <3>1. batch \in SUBSET Client OBVIOUS
    <3>2. banned' = banned \cup BansOf(batch) BY <2>2 DEF Evaluate, AddBans
    <3> HIDE DEF batch
    <3> QED BY <1>1, <3>1, <3>2
  <2>3. ASSUME NEW f, NEW g, Boot(f, g) PROVE FALSE BY <2>3 DEF Boot, storeVars
  <2>4. ASSUME NEW fail, Reconcile(fail) PROVE FALSE BY <2>4 DEF Reconcile, storeVars
  <2>5. ASSUME Exit PROVE FALSE BY <2>5 DEF Exit, storeVars
  <2> QED BY <1>3, <2>1, <2>2, <2>3, <2>4, <2>5 DEF Server
<1>4. ASSUME World PROVE FALSE
  BY <1>4 DEF World, Hit, ReloadRuns, ReloadFails, ReloadHangs, LateReload,
              NpmReloads, NpmRestarts, Crash, IncludeLost, storeVars
<1> QED BY <1>2, <1>3, <1>4 DEF Next

\* No step bans a target that covers a trusted or a private client.
THEOREM BansAreSafe == Spec => NeverBansTrusted
<1>1. ASSUME TypeOK, [Next]_vars
      PROVE  [\A t \in banned' \ banned :
                \A c \in Covers[t] : c \notin Private /\ ~Excepted(c, config)]_vars
  <2>1. CASE Next BY <1>1, <2>1, AddedIsAllowed, AllowedIsHarmless
  <2>2. CASE UNCHANGED vars BY <2>2
  <2> QED BY <1>1, <2>1, <2>2
<1> QED BY <1>1, TypeCorrect, PTL DEF Spec, NeverBansTrusted

-----------------------------------------------------------------------------
\* The file is written from the list and from nothing else.
LEMMA FileFromList ==
  ASSUME Next
  PROVE  deny' = deny \/ deny' = banned'
<1>1. ASSUME NEW list, NEW fail, Sync(list, fail), list = banned'
      PROVE  deny' = deny \/ deny' = banned'
  BY <1>1 DEF Sync, DenyAfter
<1>2. ASSUME NEW new, NEW fail, AddBans(new, fail)
      PROVE  deny' = deny \/ deny' = banned'
  BY <1>1, <1>2 DEF AddBans, dirVars
<1>3. CASE Operator
  <2>1. ASSUME NEW t, NEW fail, Ban(t, fail) \/ Unban(t, fail)
        PROVE  deny' = deny \/ deny' = banned'
    BY <1>1, <2>1 DEF Ban, Unban
  <2>2. ASSUME NEW cfg, NEW fail, PutConfig(cfg, fail) PROVE deny' = deny
    BY <2>2 DEF PutConfig, SyncBlockedPaths
  <2>3. ASSUME NEW fail, Stop(fail) PROVE deny' = deny \/ deny' = banned'
    BY <1>2, <2>3 DEF Stop, FlushQueue
  <2> QED BY <1>3, <2>1, <2>2, <2>3 DEF Operator
<1>4. CASE Server
  <2>1. ASSUME NEW f, NEW g, Boot(f, g) PROVE deny' = deny \/ deny' = banned'
    BY <2>1 DEF Boot, DenyAfter, storeVars
  <2>2. ASSUME NEW fail, Flush(fail) PROVE deny' = deny \/ deny' = banned'
    BY <1>2, <2>2 DEF Flush, FlushQueue
  <2>3. ASSUME NEW fail, Reconcile(fail) PROVE deny' = deny \/ deny' = banned'
    BY <1>1, <2>3 DEF Reconcile, storeVars
  <2>4. ASSUME NEW subjects, NEW fail, Evaluate(subjects, fail)
        PROVE  deny' = deny \/ deny' = banned'
    BY <1>2, <2>4 DEF Evaluate
  <2>5. ASSUME Exit PROVE deny' = deny
    BY <2>5 DEF Exit, dirVars
  <2> QED BY <1>4, <2>1, <2>2, <2>3, <2>4, <2>5 DEF Server
<1>5. CASE World
  BY <1>5 DEF World, Hit, ReloadRuns, ReloadFails, ReloadHangs, LateReload,
              NpmReloads, NpmRestarts, Crash, IncludeLost, Reload, Restart, dirVars
<1> QED BY <1>3, <1>4, <1>5 DEF Next

\* nginx works from the file and from nothing else.
LEMMA NginxFromFile ==
  ASSUME Next
  PROVE  loadedDeny' = loadedDeny \/ loadedDeny' = DirDeny
<1>1. CASE Operator
  BY <1>1 DEF Operator, Ban, Unban, PutConfig, Stop, nginxVars
<1>2. CASE Server
  BY <1>2 DEF Server, Boot, Flush, Reconcile, Evaluate, Exit, nginxVars
<1>3. CASE World
  BY <1>3 DEF World, Hit, ReloadRuns, ReloadFails, ReloadHangs, LateReload,
              NpmReloads, NpmRestarts, Crash, IncludeLost, Reload, Restart, Load, nginxVars
<1> QED BY <1>1, <1>2, <1>3 DEF Next

LEMMA LockOutStep ==
  ASSUME TypeOK, NobodyLockedOut, [Next]_vars
  PROVE  NobodyLockedOut'
<1>1. CASE Next
  <2>1. Harmless(banned)'
    <3>1. ASSUME NEW t \in banned' \ banned PROVE t \notin TooBroad /\ Covers[t] \cap Private = {}
      BY <1>1, <3>1, AddedIsAllowed DEF Allowed
    <3> QED BY <3>1 DEF NobodyLockedOut, Harmless
  <2>2. deny' # NoFile => Harmless(deny)'
    BY <1>1, <2>1, FileFromList DEF NobodyLockedOut, Harmless
  <2>3. Harmless(loadedDeny)'
    BY <1>1, NginxFromFile DEF NobodyLockedOut, Harmless, DirDeny
  <2> QED BY <2>1, <2>2, <2>3 DEF NobodyLockedOut
<1>2. CASE UNCHANGED vars
  BY <1>2 DEF vars, dirVars, nginxVars, storeVars, NobodyLockedOut, Harmless
<1> QED BY <1>1, <1>2

\* Nobody can be locked out of a private network, by whatever sequence of bans, hits,
\* evaluations, edits, failed writes, late reloads, kills and restarts: the rules of ban()
\* are the only way onto the list, the list the only source of the file, and the file
\* the only source of what nginx denies.
THEOREM NoLockOut == Spec => []NobodyLockedOut
<1>1. Init => NobodyLockedOut
  BY DEF Init, NginxInit, NobodyLockedOut, Harmless
<1> QED BY <1>1, LockOutStep, TypeCorrect, PTL DEF Spec

\* With nothing in flight and nothing missed, the running nginx denies exactly the list:
\* it is not behind the directory, and the directory is not behind the list.
THEOREM RestIsEnforced == Spec => []EnforcedAtRest
<1>1. ASSUME IInv, serving, reloads = 0, ~missed, "bans" \notin unwritten, "bans" \in includes
      PROVE  loadedDeny = banned
  <2>1. deny = banned
    BY <1>1 DEF IInv, DenyFollowsList
  <2>2. deny # NoFile
    BY <1>1, <2>1, NginxAssumption DEF IInv, TypeOK
  <2>3. Current
    BY <1>1 DEF IInv, NginxNotBehind
  <2> QED BY <1>1, <2>1, <2>2, <2>3 DEF Current, DirDeny
<1> QED BY <1>1, Invariant, PTL DEF EnforcedAtRest

\* The flush of a queue covers each of its clients that the rules let it ban.
LEMMA FlushDecides ==
  ASSUME TypeOK, NEW fail, FlushQueue(fail), NEW c \in pending
  PROVE  Covered(c)' \/ ~Allowed(Widen[c])
<1>1. c \in Client /\ banned' = banned \cup BansOf(pending)
  BY DEF FlushQueue, AddBans, TypeOK
<1>2. CASE Covered(c)
  BY <1>1, <1>2 DEF Covered
<1>3. CASE ~Covered(c) /\ Allowed(Widen[c])
  <2>1. Widen[c] \in banned'
    BY <1>1, <1>3 DEF BansOf
  <2>2. c \in Covers[Widen[c]]
    BY <1>1, BansAssumption
  <2> QED BY <2>1, <2>2 DEF Covered
<1> QED BY <1>2, <1>3

\* No hit slips away: whoever leaves the queue is on the list or may not be, unless the
\* process was killed.  An orderly stop finds the queue flushed, which the invariant
\* says of the phase it ends in.
THEOREM NoHitSlips == Spec => HitsAreDecided
<1>1. ASSUME IInv, [Next]_vars
      PROVE  [\A c \in pending \ pending' : Covered(c)' \/ ~Allowed(Widen[c]) \/ Crash]_vars
  <2>1. SUFFICES ASSUME Next, NEW c \in pending, c \notin pending'
                 PROVE  Covered(c)' \/ ~Allowed(Widen[c]) \/ Crash
    BY <1>1 DEF vars
  <2>2. ASSUME NEW fail, Flush(fail) \/ Stop(fail)
        PROVE  Covered(c)' \/ ~Allowed(Widen[c])
    BY <1>1, <2>2, FlushDecides DEF Flush, Stop, IInv
  <2>3. ~Exit
    BY <1>1, <2>1 DEF Exit, IInv, QueueHasTimer
  <2>4. CASE Operator
    BY <2>1, <2>2, <2>4 DEF Operator, Ban, Unban, PutConfig, queueVars
  <2>5. CASE Server
    BY <2>1, <2>2, <2>3, <2>5 DEF Server, Boot, Reconcile, Evaluate, queueVars
  <2>6. CASE World
    BY <2>1, <2>6 DEF World, Hit, ReloadRuns, ReloadFails, ReloadHangs, LateReload,
                      NpmReloads, NpmRestarts, IncludeLost, queueVars
  <2> QED BY <2>1, <2>4, <2>5, <2>6 DEF Next
<1> QED BY <1>1, Invariant, PTL DEF Spec, HitsAreDecided
===============================================================================
