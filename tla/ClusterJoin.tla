----------------------------- MODULE ClusterJoin -----------------------------
(***************************************************************************)
(* Admission of servers to a cluster: invite keys (cluster/invite_key.rs), *)
(* the join protocol of the leader (cluster/service.rs), the state a       *)
(* server keeps on disk to come back (cluster/state.rs), the three ways of *)
(* starting (init_bootstrap, init_join and init_rejoin of main.rs) and the *)
(* operator's commands (handler_cluster.rs).                               *)
(*                                                                         *)
(* One bootstrapped node leads; it may crash and start again between any   *)
(* two steps.  Join requests are handled concurrently, one per joiner.     *)
(* Writing invite_keys.json may fail, which is only logged, or be cut off  *)
(* by a crash, which leaves a file that does not parse.                    *)
(***************************************************************************)
EXTENDS Integers, Sequences, FiniteSets

CONSTANTS Key, Joiner, Nil,
          LeaderId,  \* node_id of the bootstrapped node; ids are naturals
          MaxIds,    \* bound: ids that a run of the leader assigns
          MaxCrashes \* bound: crashes of the leader, and of each joiner

VARIABLES keys,     \* InviteKeyStore.keys of the leader: Nil, or a record
          persists, \* data_dir is set: the store saves itself
          saved,    \* invite_keys.json: keys, or Nil when torn
          lock,     \* the holder of the invite_keys mutex, or Nil
          leads,    \* the node runs, and leads
          crashes,  \* history
          counter,  \* next_node_id of the ClusterService
          peerMap,  \* shared_peer_map: the peers, as <<id, joiner>>
          join,     \* the handling of each joiner's request
          server,   \* what each joiner became: Nil, or [id, peers]
          state,    \* cluster_state.json of each joiner
          made,     \* history: keys generated; tokens are random, and never repeat
          unsaved,  \* history: keys whose use is not on disk
          admitted, \* history: <<key, joiner>> pairs that validate let pass
          panicked  \* history: a handler met the lock taken (try_lock().expect)

joinVars == <<keys, persists, saved, lock, leads, crashes, counter, peerMap, join, server,
              state, made, unsaved, admitted, panicked>>

Record == [single_use : BOOLEAN, used : BOOLEAN, revoked : BOOLEAN, expired : BOOLEAN]

None == [k \in Key |-> Nil]

-----------------------------------------------------------------------------
(* InviteKeyStore *)

\* auto_persist: saves the store as it is now, or logs that it could not.
AutoPersist ==
  \/ persists /\ saved' = keys' /\ unsaved' = {}
  \/ /\ UNCHANGED saved
     /\ unsaved' = {k \in Key : keys'[k] # Nil /\ keys'[k].used}

Consumed(r) == r.single_use /\ r.used

Create(k, single) ==
  /\ k \notin made
  /\ made' = made \cup {k}
  /\ keys' = [keys EXCEPT ![k] = [single_use |-> single, used |-> FALSE, revoked |-> FALSE,
                                  expired |-> FALSE]]
  /\ AutoPersist

Valid(k) == keys[k] # Nil /\ ~keys[k].revoked /\ ~keys[k].expired /\ ~Consumed(keys[k])

Validate(k) == keys' = [keys EXCEPT ![k].used = TRUE] /\ AutoPersist

Revoke(k) ==
  IF keys[k] = Nil THEN UNCHANGED <<keys, saved, made, unsaved>>
  ELSE keys' = [keys EXCEPT ![k].revoked = TRUE] /\ AutoPersist /\ UNCHANGED made

\* What purge_expired keeps.
PurgeExpired(all) ==
  [k \in Key |-> IF all[k] # Nil /\ (all[k].expired \/ Consumed(all[k])) THEN Nil ELSE all[k]]

\* InviteKeyStore::load(..).unwrap_or_default(): a file that does not parse
\* gives an empty store, which never saves itself.
Load == /\ keys' = IF saved = Nil THEN None ELSE PurgeExpired(saved)
        /\ persists' = (saved # Nil)
        /\ saved' = IF saved = Nil THEN saved ELSE PurgeExpired(saved)

Expire(k) ==
  /\ keys[k] # Nil /\ ~keys[k].expired
  /\ keys' = [keys EXCEPT ![k].expired = TRUE]
  /\ saved' = IF saved # Nil /\ saved[k] # Nil THEN [saved EXCEPT ![k].expired = TRUE] ELSE saved
  /\ UNCHANGED <<persists, lock, leads, crashes, counter, peerMap, join, server, state,
                 made, unsaved, admitted, panicked>>

-----------------------------------------------------------------------------
(* The operator: handler_cluster.rs *)

\* The handlers do not wait for the lock.
Handler(A) ==
  /\ leads
  /\ IF lock = Nil THEN A /\ UNCHANGED panicked
     ELSE panicked' = TRUE /\ UNCHANGED <<keys, saved, made, unsaved>>
  /\ UNCHANGED <<persists, lock, leads, crashes, counter, peerMap, join, server, state, admitted>>

\* A generated key is always single-use; create's other callers may ask for more.
HandleInviteKeyGenerate(k) == Handler(\E single \in BOOLEAN : Create(k, single))

HandleInviteKeyRevoke(k) == Handler(Revoke(k))

\* handle_invite_key_list: the keys that are shown as active.
Active == {k \in Key : keys[k] # Nil /\ Valid(k)}

-----------------------------------------------------------------------------
(* The leader: ClusterService::handle_join_request *)

NoJoin == [at |-> "none"]

\* init_join of the joiner sends CLUSTER JOIN; the leader checks that it leads.
HandleJoinRequest(j, k) ==
  /\ leads
  /\ counter < LeaderId + 1000 + MaxIds
  /\ join[j] = NoJoin
  /\ server[j] = Nil /\ state[j] = Nil
  /\ join' = [join EXCEPT ![j] = [at |-> "key", key |-> k]]
  /\ UNCHANGED <<keys, persists, saved, lock, leads, crashes, counter, peerMap, server, state,
                 unsaved, admitted, panicked, made>>

TakeLock(j) ==
  /\ join[j].at = "key" /\ lock = Nil
  /\ lock' = j
  /\ UNCHANGED <<keys, persists, saved, leads, crashes, counter, peerMap, join, server, state,
                 unsaved, admitted, panicked, made>>

\* A refused key ends the request with an error to the joiner.
JoinValidate(j) ==
  /\ join[j].at = "key" /\ lock = j
  /\ lock' = Nil
  /\ IF Valid(join[j].key)
       THEN /\ Validate(join[j].key)
            /\ admitted' = admitted \cup {<<join[j].key, j>>}
            /\ join' = [join EXCEPT ![j].at = "assign"]
       ELSE /\ join' = [join EXCEPT ![j] = NoJoin]
            /\ UNCHANGED <<keys, saved, unsaved, admitted>>
  /\ UNCHANGED <<persists, leads, crashes, counter, peerMap, server, state, panicked, made>>

AssignId(j) ==
  /\ join[j].at = "assign"
  /\ join' = [join EXCEPT ![j] = [at |-> "propose", id |-> counter]]
  /\ counter' = counter + 1
  /\ UNCHANGED <<keys, persists, saved, lock, leads, crashes, peerMap, server, state, unsaved,
                 admitted, panicked, made>>

\* propose_membership_change, which fails when leadership is lost meanwhile, or
\* another change is under way.  The key and the id are used up all the same.
ProposeMembershipChange(j) ==
  /\ join[j].at = "propose"
  /\ \/ join' = [join EXCEPT ![j].at = "add"]
     \/ join' = [join EXCEPT ![j] = NoJoin]
  /\ UNCHANGED <<keys, persists, saved, lock, leads, crashes, counter, peerMap, server, state,
                 unsaved, admitted, panicked, made>>

FaultAddPeer(j) ==
  /\ join[j].at = "add"
  /\ join' = [join EXCEPT ![j].at = "welcome"]
  /\ UNCHANGED <<keys, persists, saved, lock, leads, crashes, counter, peerMap, server, state,
                 unsaved, admitted, panicked, made>>

\* PeerUpdater::add_peer, awaited before the topology is read.
AddPeer(j) ==
  /\ join[j].at = "add"
  /\ peerMap' = peerMap \cup {<<join[j].id, j>>}
  /\ join' = [join EXCEPT ![j].at = "welcome"]
  /\ UNCHANGED <<keys, persists, saved, lock, leads, crashes, counter, server, state, unsaved,
                 admitted, panicked, made>>

\* CLUSTER WELCOME: this node and all of the peer map.
BuildWelcome(j) ==
  /\ join[j].at = "welcome"
  /\ join' = [join EXCEPT ![j] = [at |-> "sent", id |-> @.id,
                                  peers |-> peerMap \cup {<<LeaderId, Nil>>}]]
  /\ UNCHANGED <<keys, persists, saved, lock, leads, crashes, counter, peerMap, server, state,
                 unsaved, admitted, panicked, made>>

-----------------------------------------------------------------------------
(* The joiner: init_join and init_rejoin *)

\* parse_welcome_message; the joiner leaves itself out of its peers, and the
\* state is written when it already runs.
InitJoin(j) ==
  /\ join[j].at = "sent" /\ server[j] = Nil
  /\ server' = [server EXCEPT ![j] =
       [id |-> join[j].id, peers |-> {p \in join[j].peers : p[1] # join[j].id}]]
  /\ UNCHANGED <<keys, persists, saved, lock, leads, crashes, counter, peerMap, join, state,
                 unsaved, admitted, panicked, made>>

PersistJoin(j) ==
  /\ server[j] # Nil /\ state[j] = Nil
  /\ state' = [state EXCEPT ![j] = server[j]]
  /\ join' = [join EXCEPT ![j] = NoJoin]
  /\ UNCHANGED <<keys, persists, saved, lock, leads, crashes, counter, peerMap, server, unsaved,
                 admitted, panicked, made>>

\* A joiner that crashes before its state is on disk needs another key.
JoinerCrash(j) ==
  /\ server[j] # Nil /\ crashes[j] < MaxCrashes
  /\ crashes' = [crashes EXCEPT ![j] = @ + 1]
  /\ server' = [server EXCEPT ![j] = Nil]
  /\ join' = [join EXCEPT ![j] = NoJoin]
  /\ UNCHANGED <<keys, persists, saved, lock, leads, counter, peerMap, state, unsaved, admitted,
                 panicked, made>>

InitRejoin(j) ==
  /\ server[j] = Nil /\ state[j] # Nil
  /\ server' = [server EXCEPT ![j] = state[j]]
  /\ UNCHANGED <<keys, persists, saved, lock, leads, crashes, counter, peerMap, join, state,
                 unsaved, admitted, panicked, made>>

-----------------------------------------------------------------------------
\* The leader stops, maybe while invite_keys.json is being written; the joiners
\* whose requests it was handling give up, save those already answered.
Crash ==
  /\ leads /\ crashes[Nil] < MaxCrashes
  /\ leads' = FALSE
  /\ crashes' = [crashes EXCEPT ![Nil] = @ + 1]
  /\ saved' \in {saved, Nil}
  /\ lock' = Nil
  /\ join' = [j \in Joiner |-> IF join[j].at = "sent" THEN join[j] ELSE NoJoin]
  /\ UNCHANGED <<keys, persists, counter, peerMap, server, state, unsaved, admitted, panicked, made>>

\* init_bootstrap again, or init_rejoin from a state file that nothing updated
\* after the bootstrap: the peer map is empty, and the counter starts anew.
Restart ==
  /\ ~leads
  /\ leads' = TRUE
  /\ Load
  /\ counter' = LeaderId + 1000
  /\ peerMap' = {}
  /\ UNCHANGED <<lock, crashes, join, server, state, unsaved, admitted, panicked, made>>

InitBootstrap ==
  /\ keys = None /\ persists = TRUE /\ saved = None /\ lock = Nil
  /\ leads = TRUE /\ crashes = [c \in Joiner \cup {Nil} |-> 0]
  /\ counter = LeaderId + 1000 /\ peerMap = {}
  /\ join = [j \in Joiner |-> NoJoin]
  /\ server = [j \in Joiner |-> Nil] /\ state = [j \in Joiner |-> Nil]
  /\ made = {} /\ unsaved = {} /\ admitted = {} /\ panicked = FALSE

Next ==
  \/ Crash \/ Restart
  \/ \E k \in Key : HandleInviteKeyGenerate(k) \/ HandleInviteKeyRevoke(k) \/ Expire(k)
  \/ \E j \in Joiner :
       \/ \E k \in Key : HandleJoinRequest(j, k)
       \/ TakeLock(j) \/ JoinValidate(j) \/ AssignId(j) \/ ProposeMembershipChange(j)
       \/ AddPeer(j) \/ BuildWelcome(j) \/ InitJoin(j) \/ PersistJoin(j)
       \/ JoinerCrash(j) \/ InitRejoin(j)

TypeOK ==
  /\ keys \in [Key -> Record \cup {Nil}]
  /\ lock \in Joiner \cup {Nil}
  /\ Active \subseteq Key
  /\ \A j \in Joiner : server[j] # Nil => server[j].id \in Nat

\* A single-use key admits one server, also when the leader crashes right after
\* and starts again from its files; the exception is a key whose use could not
\* be written (auto_persist only logs that).
KeyAdmitsOnce ==
  \A k \in Key : keys[k] # Nil /\ keys[k].single_use /\ k \notin unsaved /\ Valid(k)
                   => \A j \in Joiner : <<k, j>> \notin admitted

\* Of two servers that joined while the leader ran, at least one was told of the
\* other: the new peer is in the map before the map is read.
WelcomesMeet ==
  \A i, j \in Joiner :
    /\ i # j /\ crashes[Nil] = 0
    /\ server[i] # Nil /\ server[j] # Nil
    => <<server[i].id, i>> \in server[j].peers \/ <<server[j].id, j>> \in server[i].peers
=============================================================================
