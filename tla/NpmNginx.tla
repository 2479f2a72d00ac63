------------------------------- MODULE NpmNginx -------------------------------
(***************************************************************************)
(* The nginx that Nginx Proxy Manager runs, and the custom config          *)
(* directory the viewer writes into.  It is not code of the repository: it *)
(* is modelled from what bans/enforcer.ts writes there and expects of it.  *)
(*                                                                         *)
(* The directory has the deny snippet (the set of banned targets), the     *)
(* blocked-paths snippet (a 444 location, or only a comment) and           *)
(* server_proxy.conf, of which only the two include lines count.  nginx    *)
(* reads all of it when it starts and when it is told to reload, and then  *)
(* works from what it read.                                                *)
(***************************************************************************)
EXTENDS Integers, FiniteSets

CONSTANTS Target,        \* what a deny line can name: addresses and ranges
          NoFile         \* a snippet that has not been written

Snippet == {"off", "on"}           \* a comment only, or the 444 location
Include == {"bans", "blocked"}     \* the lines of server_proxy.conf

ASSUME NginxAssumption == (\A list \in SUBSET Target : NoFile # list) /\ NoFile \notin Snippet

VARIABLES
    deny,        \* proxylogs-bans.conf: a set of targets, or NoFile
    snippet,     \* proxylogs-blocked-paths.conf: on, off, or NoFile
    includes,    \* the snippets server_proxy.conf includes
    loadedDeny,  \* the targets the running nginx refuses
    loadedBlock, \* the running nginx answers blocked paths with 444
    serving      \* nginx runs: it does not if its config was refused at a start

dirVars == <<deny, snippet, includes>>
nginxVars == <<loadedDeny, loadedBlock, serving>>

NginxTypeOK ==
    /\ deny = NoFile \/ deny \in SUBSET Target
    /\ snippet \in Snippet \cup {NoFile}
    /\ includes \in SUBSET Include
    /\ loadedDeny \in SUBSET Target
    /\ loadedBlock \in BOOLEAN
    /\ serving \in BOOLEAN

\* nginx refuses a config that includes a missing file.
Refused ==
    \/ "bans" \in includes /\ deny = NoFile
    \/ "blocked" \in includes /\ snippet = NoFile

\* What the directory says is to be refused, and whether paths are blocked.
DirDeny == IF "bans" \in includes /\ deny # NoFile THEN deny ELSE {}
DirBlock == "blocked" \in includes /\ snippet = "on"

\* The running nginx works from what the directory says now.
Current == loadedDeny = DirDeny /\ loadedBlock = DirBlock

NginxInit ==
    /\ deny = NoFile
    /\ snippet = NoFile
    /\ includes = {}
    /\ loadedDeny = {}
    /\ loadedBlock = FALSE
    /\ serving = TRUE

Load ==
    /\ loadedDeny' = DirDeny
    /\ loadedBlock' = DirBlock

\* nginx -s reload: a refused config leaves the running one in place, and
\* there is nothing to signal when nginx does not run.
Reload ==
    /\ IF serving /\ ~Refused THEN Load ELSE UNCHANGED <<loadedDeny, loadedBlock>>
    /\ UNCHANGED <<serving, dirVars>>

\* The container restarts: a refused config keeps nginx down.
Restart ==
    /\ IF Refused THEN UNCHANGED <<loadedDeny, loadedBlock>> ELSE Load
    /\ serving' = ~Refused
    /\ UNCHANGED dirVars
===============================================================================
