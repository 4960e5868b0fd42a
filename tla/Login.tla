------------------------------- MODULE Login -------------------------------
(***************************************************************************)
(* Signing in: the login arms of App (main.rs), the server configuration   *)
(* and the LLM provisioning of app/login.rs, the keychain of               *)
(* octos-app-store, and the identity the transport is connected with.      *)
(*                                                                         *)
(* A sign-in runs in a thread: it asks the server, stores the token,       *)
(* writes server.json, and posts a reply the UI thread handles.  Several   *)
(* may run at once, and the process may be killed between any two of their *)
(* steps; the disk and the keychain stay.  A disk or keychain write may    *)
(* fail.                                                                   *)
(*                                                                         *)
(* One server is modelled.  A bearer is a number, fresh for each sign-in.  *)
(* MaxTokens bounds the bearers issued, MaxFaults the failing writes,      *)
(* MaxBoots the restarts, MaxWorkers the threads that run at once.         *)
(***************************************************************************)
EXTENDS Naturals, Sequences, FiniteSets

CONSTANTS Profiles, DefaultProfile, Families, NoProfile,
          MaxTokens, MaxFaults, MaxBoots, MaxWorkers

ASSUME LoginAssumption ==
    DefaultProfile \in Profiles /\ NoProfile \notin Profiles /\ MaxTokens \in Nat

VARIABLES
    config,     \* server.json: the profile it names, or NoProfile
    keychain,   \* profile -> its bearer, 0 for no entry
    profile,    \* login_profile_id
    workers,    \* the sign-in threads: [pid, at, owner, token, nr]
    replies,    \* the LoginAsyncActions posted and not yet handled
    agent,      \* [pid, bearer] the transport was connected with
    signedOut,  \* history: the bearers the user signed out of
    solo,       \* the server: the solo owner, NoProfile before one exists
    issued, faults, boots,
    kernel      \* _main.json: absent, torn or whole, and what it configures

loginVars == <<config, keychain, profile, workers, replies, agent,
               signedOut, solo, issued, faults, boots, kernel>>
disk == <<config, keychain>>
bounds == <<issued, faults, boots>>

\* key_env_for: two names of one plan share a key, a plan and the plain
\* endpoint of its provider never do.
KeyOf(family) == IF family = "kimi-coding" THEN "moonshot-coding" ELSE family

\* _main.json of the embedded kernel: the parts of the envelope octos
\* requires, the provider in use, the providers whose key it holds, and
\* whether the settings of the user that are none of these are there.
Kernels == [at : {"absent", "torn", "whole"}, envelope : BOOLEAN, primary : Families \cup {"none"},
            keys : SUBSET {KeyOf(f) : f \in Families}, own : BOOLEAN]
Blank(at, own) == [at |-> at, envelope |-> FALSE, primary |-> "none", keys |-> {}, own |-> own]

FailWrite(write) == faults < MaxFaults /\ faults' = faults + 1 /\ UNCHANGED write

\* resolve_bearer: an unreadable or missing entry is the empty bearer.
Bearer(pid) == IF pid = NoProfile THEN 0 ELSE keychain[pid]

\* placeholder_transport_config, connect_transport: without a server.json the
\* environment's profile and bearer.
Connected == agent' = [pid |-> config, bearer |-> Bearer(config)]

LoginInit ==
    /\ config \in Profiles \cup {NoProfile} /\ keychain = [p \in Profiles |-> 0]
    /\ profile = NoProfile
    /\ workers = {} /\ replies = <<>> /\ agent = [pid |-> NoProfile, bearer |-> 0]
    /\ signedOut = {} /\ solo \in Profiles \cup {NoProfile}
    /\ issued = 0 /\ faults = 0 /\ boots = 0
    /\ kernel \in {Blank("absent", FALSE), Blank("whole", TRUE)}

Asking(pid, nr) == [pid |-> pid, at |-> "ask", owner |-> pid, token |-> 0, nr |-> nr]
Spawn(pid) == workers' = workers \cup {Asking(pid, Cardinality(workers))}

\* auto_solo_login, and the thread it starts, with the configuration it
\* found or wrote.
SoloFrom(saved) ==
    IF saved = NoProfile THEN UNCHANGED <<profile, workers>>
    ELSE profile' = saved /\ Spawn(saved)

AutoSolo ==
    IF config # NoProfile THEN SoloFrom(config) /\ UNCHANGED <<config, faults>>
    ELSE \/ config' = DefaultProfile /\ SoloFrom(DefaultProfile) /\ UNCHANGED faults
         \/ FailWrite(config) /\ SoloFrom(NoProfile)

-----------------------------------------------------------------------------
(* The UI thread.                                                          *)

\* handle_startup: connect_transport, then boot_is_authed.  The login screen
\* is never shown; without a bearer a sign-in starts in the background.
BootApp ==
    /\ boots < MaxBoots /\ boots' = boots + 1
    /\ replies' = <<>>
    /\ Connected
    /\ IF Bearer(config) # 0
       THEN profile' = config /\ workers' = {} /\ UNCHANGED <<config, faults>>
       ELSE /\ \/ config' = config /\ config # NoProfile /\ UNCHANGED faults
               \/ config' = DefaultProfile /\ config = NoProfile /\ UNCHANGED faults
               \/ config = NoProfile /\ FailWrite(config)
            /\ profile' = config'
            /\ workers' = IF config' = NoProfile THEN {} ELSE {Asking(config', 0)}
    /\ UNCHANGED <<keychain, signedOut, solo, issued, kernel>>

\* apply_provision_string at start-up: the configuration is saved before the
\* token, and stays when the token cannot be stored.
Provision(pid) ==
    /\ boots < MaxBoots /\ workers = {} /\ replies = <<>>
    /\ issued < MaxTokens /\ issued' = issued + 1
    /\ \/ /\ config' = pid
          /\ \/ keychain' = [keychain EXCEPT ![pid] = issued'] /\ UNCHANGED faults
             \/ FailWrite(keychain)
       \/ FailWrite(config) /\ UNCHANGED keychain
    /\ UNCHANGED <<profile, workers, replies, agent, signedOut, solo, boots, kernel>>

\* The token of the profile is deleted; a keychain that fails is ignored.
Forgotten(pid) == keychain' = IF pid = NoProfile THEN keychain ELSE [keychain EXCEPT ![pid] = 0]

\* login_sign_out
SignOut ==
    /\ boots > 0 /\ Cardinality(workers) + Len(replies) < MaxWorkers
    /\ signedOut' = signedOut \cup ({Bearer(profile)} \ {0})
    /\ \/ Forgotten(profile) /\ AutoSolo
       \/ faults < MaxFaults /\ faults' = faults + 1 /\ UNCHANGED <<keychain, config>> /\ SoloFrom(config)
    /\ UNCHANGED <<replies, agent, solo, issued, boots, kernel>>

Taken(ok) == replies # <<>> /\ Head(replies) = ok /\ replies' = Tail(replies)

\* The identity is read again from server.json before connecting.
SoloDone ==
    /\ Taken(TRUE) /\ profile' = config /\ Connected
    /\ UNCHANGED <<disk, workers, signedOut, solo, bounds, kernel>>

\* An error is shown, and the old transport stays.
SignInFailed ==
    /\ Taken(FALSE)
    /\ UNCHANGED <<disk, profile, workers, agent, signedOut, solo, bounds, kernel>>

-----------------------------------------------------------------------------
(* The threads.                                                            *)

Reply(w, ok) ==
    /\ workers' = workers \ {w}
    /\ replies' = Append(replies, ok)

Refused(w) ==
    /\ w.at = "ask" /\ Reply(w, FALSE)
    /\ UNCHANGED <<disk, profile, agent, signedOut, solo, bounds, kernel>>

Granted(w, owner) ==
    /\ issued < MaxTokens /\ issued' = issued + 1
    /\ workers' = (workers \ {w}) \cup {[w EXCEPT !.at = "store", !.owner = owner, !.token = issued']}

\* run_blocking_solo_login: the existing owner signs in again, whoever was
\* asked for; on a 404 the owner is created.
SoloGranted(w) ==
    /\ w.at = "ask"
    /\ solo' = IF solo = NoProfile THEN w.pid ELSE solo
    /\ Granted(w, solo')
    /\ UNCHANGED <<disk, profile, replies, agent, signedOut, faults, boots, kernel>>

\* Mutant: under the profile that was asked for.
AskedFor(w) == w.pid

\* The server's owner, adopted.
StoredUnder(w) == w.owner

StoreToken(w) ==
    /\ w.at = "store"
    /\ \/ /\ keychain' = [keychain EXCEPT ![StoredUnder(w)] = w.token]
          /\ workers' = (workers \ {w}) \cup {[w EXCEPT !.at = "save"]}
          /\ UNCHANGED <<replies, faults>>
       \/ FailWrite(keychain) /\ Reply(w, FALSE)
    /\ UNCHANGED <<config, profile, agent, signedOut, solo, issued, boots, kernel>>

\* A server.json that cannot be written is ignored.
SaveOwner(w) ==
    /\ w.at = "save" /\ Reply(w, TRUE)
    /\ \/ config' = w.owner /\ UNCHANGED faults
       \/ FailWrite(config)
    /\ UNCHANGED <<keychain, profile, agent, signedOut, solo, issued, boots, kernel>>

-----------------------------------------------------------------------------
(* LLM provisioning: apply_provision_config_json, from a QR code or an     *)
(* intent.  A payload that does not parse changes nothing.                 *)

\* Mutant: the file is written from what was provisioned alone.
Rewritten(root, family) ==
    [Blank("whole", FALSE) EXCEPT !.envelope = TRUE, !.primary = family, !.keys = {KeyOf(family)}]

\* Read, merged, and written back, the envelope healed.
Merged(root, family) ==
    [root EXCEPT !.at = "whole", !.envelope = TRUE, !.primary = family, !.keys = @ \cup {KeyOf(family)}]

\* A file that does not parse is refused, and stays.
ApplyLlmConfig(family) ==
    /\ kernel.at # "torn"
    /\ \/ kernel' = Merged(kernel, family) /\ UNCHANGED faults
       \/ faults < MaxFaults /\ faults' = faults + 1 /\ kernel' = Blank("torn", FALSE) \* killed in fs::write
    /\ UNCHANGED <<disk, profile, workers, replies, agent, signedOut, solo, issued, boots>>

-----------------------------------------------------------------------------

Threads == \E w \in workers :
    Refused(w) \/ SoloGranted(w) \/ StoreToken(w) \/ SaveOwner(w)
Boots == BootApp \/ \E p \in Profiles : Provision(p)
ProvisionsLlm == \E f \in Families : ApplyLlmConfig(f)
Handlers == SoloDone \/ SignInFailed

LoginNext ==
    \/ Boots \/ SignOut \/ Threads \/ Handlers \/ ProvisionsLlm

-----------------------------------------------------------------------------

LoginTypeOK ==
    /\ config \in Profiles \cup {NoProfile} /\ keychain \in [Profiles -> 0..MaxTokens]
    /\ profile \in Profiles \cup {NoProfile}
    /\ \A w \in workers : w.at \in {"ask", "store", "save"} /\ w.pid \in Profiles /\ w.token \in 0..issued
    /\ agent.pid \in Profiles \cup {NoProfile} /\ agent.bearer \in 0..issued
    /\ signedOut \subseteq 1..issued /\ kernel \in Kernels

\* "Keep the on-disk config in lockstep so `resolve_bearer` finds the token":
\* while no write has failed and nobody signed out, the transport a
\* successful sign-in connects has a bearer, however many sign-ins cross
\* (main.rs, SoloReply).
SignInBringsBearer ==
    [][SoloDone /\ faults = 0 /\ signedOut = {} => agent'.bearer # 0]_loginVars

\* Provisioning an LLM leaves the user's own settings and the keys of the
\* other providers alone, and a profile octos can load (login.rs, "Merge ...
\* without disturbing the rest of the config").
ProvisioningKeeps ==
    [][LET after == kernel' IN
       after.at = "whole" => after.own = kernel.own /\ kernel.keys \subseteq after.keys /\ after.envelope]_kernel

=============================================================================
