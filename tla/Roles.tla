-------------------------------- MODULE Roles --------------------------------
(***************************************************************************)
(* The roles of the phase 4 servers (tree_skel.c: tree_skel_init and       *)
(* child_watcher).  A server process owns at most one of the ephemeral     *)
(* nodes /kvstore/primary and /kvstore/backup; a watch on the children of  *)
(* /kvstore tells it of changes.  ZooKeeper is modelled from how the code  *)
(* uses it: calls are atomic, a watch fires once, the nodes of a process   *)
(* disappear when its session ends, which is some time after it died.      *)
(***************************************************************************)
EXTENDS FiniteSets

CONSTANT Procs    \* server processes; one that died is not started again

None == "none"
ASSUME ProcsAssumption == None \notin Procs /\ "unreachable" \notin Procs

VARIABLES
  root,       \* /kvstore exists
  node,       \* "primary" and "backup" -> the process whose node it is, or None
  session,    \* process -> whether its session is open
  watch,      \* process -> "none", "set" or "fired": its event is on its way
  mpc,        \* where the process is in tree_skel_init, "run" after it
  wpc,        \* where its child_watcher is
  currentPath,\* process -> the role it believes to have
  rtreeBack,  \* process -> the backup it sends its writes to
  missed      \* history: what its checks found changed before its watch was set

rolesVars == <<root, node, session, watch, mpc, wpc, currentPath, rtreeBack, missed>>

Roles == {"primary", "backup"}
Nodes == {role \in Roles : node[role] # None}
Alive(p) == mpc[p] \notin {"off", "dead"}

RolesInit ==
  /\ root = FALSE
  /\ node = [role \in Roles |-> None]
  /\ session = [p \in Procs |-> FALSE]
  /\ watch = [p \in Procs |-> "none"]
  /\ mpc = [p \in Procs |-> "off"]
  /\ wpc = [p \in Procs |-> "idle"]
  /\ currentPath = [p \in Procs |-> None]
  /\ rtreeBack = [p \in Procs |-> None]
  /\ missed = [p \in Procs |-> FALSE]

-----------------------------------------------------------------------------
(* ZooKeeper: a change of the children of /kvstore. *)

Notify(watches) == [p \in Procs |-> IF watches[p] = "set" THEN "fired" ELSE watches[p]]

MissedByWatchless == [p \in Procs |-> missed[p] \/ mpc[p] = "watch"]
NodesChange == missed' = MissedByWatchless

SetNode(role, owner) == /\ node' = [node EXCEPT ![role] = owner]
                        /\ watch' = Notify(watch)

WithoutNodesOf(p) == [role \in Roles |-> IF node[role] = p THEN None ELSE node[role]]

\* Mutant: exit ends one thread only.
DieInPart(p) == /\ mpc' = [mpc EXCEPT ![p] = "dead"]
                /\ UNCHANGED wpc

\* exit and a crash leave the session to ZooKeeper's timeout.
Die(p) == /\ mpc' = [mpc EXCEPT ![p] = "dead"]
          /\ wpc' = [wpc EXCEPT ![p] = "idle"]

Crash(p) ==
  /\ Alive(p)
  /\ Die(p)
  /\ UNCHANGED <<root, node, session, watch, currentPath, rtreeBack, missed>>

\* The session ends: of a process that died, or of one that was cut off for too
\* long, which goes on with the role it had.
EndSession(p) ==
  /\ session[p]
  /\ mpc[p] = "dead" \/ (mpc[p] = "run" /\ wpc[p] = "idle")
  /\ session' = [session EXCEPT ![p] = FALSE]
  /\ node' = WithoutNodesOf(p)
  /\ LET others == [watch EXCEPT ![p] = "none"]
     IN  IF node' = node THEN watch' = others /\ UNCHANGED missed
                         ELSE watch' = Notify(others) /\ NodesChange
  /\ UNCHANGED <<root, mpc, wpc, currentPath, rtreeBack>>

-----------------------------------------------------------------------------
(* tree_skel_init. *)

\* One second after zookeeper_init the session is there, or the server goes on
\* without a role and without a watch.
Start(p) ==
  /\ mpc[p] = "off"
  /\ \/ /\ mpc' = [mpc EXCEPT ![p] = "exists_root"]
        /\ session' = [session EXCEPT ![p] = TRUE]
     \/ /\ mpc' = [mpc EXCEPT ![p] = "run"]
        /\ UNCHANGED session
  /\ UNCHANGED <<root, node, watch, wpc, currentPath, rtreeBack, missed>>

ExistsRoot(p) ==
  /\ mpc[p] = "exists_root"
  /\ mpc' = [mpc EXCEPT ![p] = IF root THEN "both_primary" ELSE "create_root"]
  /\ UNCHANGED <<root, node, session, watch, wpc, currentPath, rtreeBack, missed>>

CreateRoot(p) ==
  /\ mpc[p] = "create_root"
  /\ IF root THEN Die(p)
             ELSE mpc' = [mpc EXCEPT ![p] = "create_primary"] /\ UNCHANGED wpc
  /\ root' = TRUE
  /\ UNCHANGED <<node, session, watch, currentPath, rtreeBack, missed>>

\* The chain of conditions: both exist, neither does, only the primary does.
\* Every zoo_exists is a call of its own, and && does not make the second call
\* when the first decides.
Checks ==
  [both_primary |-> [role |-> "primary", found |-> "both_backup", missing |-> "none_primary"],
   both_backup  |-> [role |-> "backup",  found |-> "exit",        missing |-> "none_primary"],
   none_primary |-> [role |-> "primary", found |-> "one_primary", missing |-> "none_backup"],
   none_backup  |-> [role |-> "backup",  found |-> "one_primary", missing |-> "create_primary"],
   one_primary  |-> [role |-> "primary", found |-> "one_backup",  missing |-> "watch"],
   one_backup   |-> [role |-> "backup",  found |-> "watch",       missing |-> "create_backup"]]

Check(p) ==
  /\ mpc[p] \in DOMAIN Checks
  /\ LET check == Checks[mpc[p]]
     IN  mpc' = [mpc EXCEPT ![p] = IF node[check.role] # None THEN check.found ELSE check.missing]
  /\ UNCHANGED <<root, node, session, watch, wpc, currentPath, rtreeBack, missed>>

Exit(p) ==
  /\ mpc[p] = "exit"
  /\ Die(p)
  /\ UNCHANGED <<root, node, session, watch, currentPath, rtreeBack, missed>>

\* Mutant: a create that finds the node taken is not an error.
CreateAnyway(p, role) ==
  /\ mpc[p] = IF role = "primary" THEN "create_primary" ELSE "create_backup"
  /\ IF node[role] = None THEN SetNode(role, p) ELSE UNCHANGED <<node, watch>>
  /\ currentPath' = [currentPath EXCEPT ![p] = role]
  /\ mpc' = [mpc EXCEPT ![p] = "watch"]
  /\ UNCHANGED <<root, session, wpc, rtreeBack, missed>>

\* What tree_skel_init had found when it chose the role.
ChecksStillHold(role) == IF role = "primary" THEN node["backup"] = None
                                             ELSE node["primary"] # None

Create(p, role) ==
  /\ mpc[p] = IF role = "primary" THEN "create_primary" ELSE "create_backup"
  /\ IF node[role] = None
     THEN /\ SetNode(role, p)
          /\ missed' = [MissedByWatchless EXCEPT ![p] = ~ChecksStillHold(role)]
          /\ currentPath' = [currentPath EXCEPT ![p] = role]
          /\ mpc' = [mpc EXCEPT ![p] = "watch"]
          /\ UNCHANGED wpc
     ELSE /\ Die(p)
          /\ UNCHANGED <<node, watch, currentPath, missed>>
  /\ UNCHANGED <<root, session, rtreeBack>>

\* The children that zoo_wget_children returns here are not looked at.
SetWatch(p) ==
  /\ mpc[p] = "watch"
  /\ watch' = [watch EXCEPT ![p] = "set"]
  /\ mpc' = [mpc EXCEPT ![p] = "run"]
  /\ UNCHANGED <<root, node, session, wpc, currentPath, rtreeBack, missed>>

-----------------------------------------------------------------------------
(* child_watcher. *)

Fired(p) == mpc[p] = "run" /\ wpc[p] = "idle" /\ watch[p] = "fired"

\* Mutant: the watch is not set again.
LookOnce(p) ==
  /\ watch' = [watch EXCEPT ![p] = "none"]
  /\ missed' = [missed EXCEPT ![p] = FALSE]

\* The watch is set again and the children are read, in one call.
Look(p) ==
  /\ watch' = [watch EXCEPT ![p] = "set"]
  /\ missed' = [missed EXCEPT ![p] = FALSE]

SeesBackupAlone(p) ==
  /\ Fired(p)
  /\ Nodes = {"backup"}
  /\ Look(p)
  /\ wpc' = [wpc EXCEPT ![p] = "delete_backup"]
  /\ UNCHANGED <<root, node, session, mpc, currentPath, rtreeBack>>

PrimarySeesBoth(p) ==
  /\ Fired(p)
  /\ Nodes = Roles /\ currentPath[p] = "primary"
  /\ Look(p)
  /\ rtreeBack' = [rtreeBack EXCEPT ![p] = "unreachable"]
  /\ wpc' = [wpc EXCEPT ![p] = "get_backup"]
  /\ UNCHANGED <<root, node, session, mpc, currentPath>>

PrimarySeesItself(p) ==
  /\ Fired(p)
  /\ Nodes = {"primary"} /\ currentPath[p] = "primary"
  /\ Look(p)
  /\ rtreeBack' = [rtreeBack EXCEPT ![p] = None]
  /\ UNCHANGED <<root, node, session, mpc, wpc, currentPath>>

SeesNothingToDo(p) ==
  /\ Fired(p)
  /\ Nodes = {} \/ (Nodes # {"backup"} /\ currentPath[p] = "backup")
  /\ Look(p)
  /\ UNCHANGED <<root, node, session, mpc, wpc, currentPath, rtreeBack>>

\* strcmp reads currentPath, which is NULL in a server without a role.
RolelessCrashes(p) ==
  /\ Fired(p)
  /\ "primary" \in Nodes /\ currentPath[p] = None
  /\ Look(p)
  /\ Die(p)
  /\ UNCHANGED <<root, node, session, currentPath, rtreeBack>>

\* Mutant: the backup keeps its node.
DeleteNothing(p) ==
  /\ wpc[p] = "delete_backup"
  /\ wpc' = [wpc EXCEPT ![p] = "promote"]
  /\ UNCHANGED <<root, node, session, watch, mpc, currentPath, rtreeBack, missed>>

\* zoo_delete removes the backup's node, whoever's it is by now, if it is there.
DeleteBackup(p) ==
  /\ wpc[p] = "delete_backup"
  /\ wpc' = [wpc EXCEPT ![p] = "promote"]
  /\ IF node["backup"] # None THEN SetNode("backup", None) /\ NodesChange
                              ELSE UNCHANGED <<node, watch, missed>>
  /\ UNCHANGED <<root, session, mpc, currentPath, rtreeBack>>

Promote(p) ==
  /\ wpc[p] = "promote"
  /\ IF node["primary"] = None
     THEN /\ SetNode("primary", p)
          /\ NodesChange
          /\ currentPath' = [currentPath EXCEPT ![p] = "primary"]
          /\ rtreeBack' = [rtreeBack EXCEPT ![p] = None]
          /\ wpc' = [wpc EXCEPT ![p] = "idle"]
          /\ UNCHANGED mpc
     ELSE /\ Die(p)
          /\ UNCHANGED <<node, watch, currentPath, rtreeBack, missed>>
  /\ UNCHANGED <<root, session>>

\* Mutant: the address of the backup is read only the first time.
GetBackupOnce(p) ==
  /\ wpc[p] = "get_backup"
  /\ wpc' = [wpc EXCEPT ![p] = "idle"]
  /\ UNCHANGED <<root, node, session, watch, mpc, currentPath, rtreeBack, missed>>

\* The node may be gone again: then the address is what malloc returned, which
\* leads nowhere or, without a ':', to a NULL port.
GetBackup(p) ==
  /\ wpc[p] = "get_backup"
  /\ \/ /\ rtreeBack' = [rtreeBack EXCEPT ![p] =
                           IF node["backup"] # None THEN node["backup"] ELSE @]
        /\ wpc' = [wpc EXCEPT ![p] = "idle"]
        /\ UNCHANGED mpc
     \/ /\ node["backup"] = None
        /\ Die(p)
        /\ UNCHANGED rtreeBack
  /\ UNCHANGED <<root, node, session, watch, currentPath, missed>>

-----------------------------------------------------------------------------
TreeSkelInit(p) == \/ ExistsRoot(p) \/ CreateRoot(p) \/ Check(p) \/ Exit(p)
                   \/ \E role \in Roles : Create(p, role)
                   \/ SetWatch(p)
ChildWatcher(p) == \/ SeesBackupAlone(p) \/ PrimarySeesBoth(p) \/ PrimarySeesItself(p)
                   \/ SeesNothingToDo(p) \/ RolelessCrashes(p)
                   \/ DeleteBackup(p) \/ Promote(p) \/ GetBackup(p)

RolesNext == \E p \in Procs : \/ Start(p) \/ TreeSkelInit(p) \/ ChildWatcher(p)
                              \/ Crash(p) \/ EndSession(p)

\* Threads are scheduled, events are delivered and dead sessions time out;
\* nothing makes a server start, crash or lose its session.
Fairness == \A p \in Procs : /\ WF_rolesVars(TreeSkelInit(p))
                             /\ WF_rolesVars(ChildWatcher(p))
                             /\ WF_rolesVars(mpc[p] = "dead" /\ EndSession(p))

RolesSpec == RolesInit /\ [][RolesNext]_rolesVars /\ Fairness

-----------------------------------------------------------------------------
(* Properties. *)

InitSteps == {"exists_root", "create_root", "create_primary", "create_backup", "watch", "exit"}
               \cup DOMAIN Checks

\* The type of every variable; child_watcher runs only in a server that is up.
RolesTypeOK ==
  /\ root \in BOOLEAN
  /\ node \in [Roles -> Procs \cup {None}]
  /\ session \in [Procs -> BOOLEAN]
  /\ watch \in [Procs -> {"none", "set", "fired"}]
  /\ mpc \in [Procs -> {"off", "run", "dead"} \cup InitSteps]
  /\ wpc \in [Procs -> {"idle", "delete_backup", "promote", "get_backup"}]
  /\ currentPath \in [Procs -> Roles \cup {None}]
  /\ rtreeBack \in [Procs -> Procs \cup {None, "unreachable"}]
  /\ missed \in [Procs -> BOOLEAN]
  /\ \A p \in Procs : wpc[p] # "idle" => mpc[p] = "run"

\* A server that believes it is the primary, and is in touch with ZooKeeper, owns
\* the primary's node; so there is never a second one.
OnePrimary ==
  \A p \in Procs : session[p] /\ currentPath[p] = "primary" => node["primary"] = p

\* Who is starting, waiting for an event or handling one is in session.
InSession ==
  \A p \in Procs : mpc[p] \in InitSteps \/ watch[p] # "none" \/ wpc[p] # "idle" => session[p]

\* No node outlives its owner's session, and nobody owns both.
OwnersInSession == \A role \in Roles : node[role] # None => session[node[role]]
NotItsOwnBackup == \A p \in Procs : ~(node["primary"] = p /\ node["backup"] = p)

\* A server owns no node before it creates one, and not the backup's when it is
\* about to create the primary's; it has no role before it is started.
OwnsNothingYet ==
  \A p \in Procs : /\ mpc[p] \in {"off"} \cup (InitSteps \ {"watch"})
                       => \A role \in Roles : node[role] # p
                   /\ wpc[p] = "promote" => node["backup"] # p
                   /\ mpc[p] = "off" => currentPath[p] = None

\* A node is in the hands of one server in session, which is not its own backup:
\* a promotion gives up the backup's node before it takes the primary's, and a
\* server that starts takes one node at most.
NodesOwned == InSession /\ OwnersInSession /\ NotItsOwnBackup /\ OwnsNothingYet

Stays(p, q) == node = [primary |-> p, backup |-> q]

\* The primary's connection follows the nodes: a backup that stays is connected
\* in the end, one that is gone is forgotten, if nothing was missed at the start.
LinkFollowsNodes ==
  \A p \in Procs, q \in Procs \cup {None} :
    Stays(p, q) /\ mpc[p] = "run" /\ ~missed[p] ~>
      rtreeBack[p] = q \/ ~Stays(p, q) \/ ~Alive(p)

\* A backup that is told of the end of the primary takes over, or somebody else
\* has, unless it dies.
TakesOver ==
  \A p \in Procs :
    Stays(None, p) /\ ~missed[p] /\ mpc[p] = "run" ~> ~Stays(None, p)

\* tree_skel.c:68: "SE EU FOR SERVIDOR BACKUP -> PASSAR A PRIMARIO E ATIVAR
\* WATCH".  A backup whose primary is lost before it has set its watch stays
\* backup.
BackupTakesOver == \A p \in Procs : Stays(None, p) ~> ~Stays(None, p)
=============================================================================
