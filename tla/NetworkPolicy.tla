---------------------------- MODULE NetworkPolicy ----------------------------
(***************************************************************************)
(* Consent to a plugin's network calls: the egress proxy of a session      *)
(* (internal/plugin/oci/policy/proxy/proxy.go) asks the engine, the engine  *)
(* the consent store (internal/plugin/oci/policy/policy.go), and            *)
(* `samuel policy preauth' and `reset' (internal/commands/policy.go) change *)
(* the same file from processes of their own.                              *)
(*                                                                         *)
(* The store is a copy in memory, loaded once when a process starts and     *)
(* written whole, through network.toml.tmp, whenever it changes.            *)
(***************************************************************************)
EXTENDS Naturals

CONSTANTS
    Conns,      \* requests that reach the proxy
    Keys,       \* (plugin, host) pairs
    KeyOf,      \* KeyOf[c]: the pair request c is about
    Manifests,  \* the sets of keys the plugins' manifests may allow (hostMatches)
    Modes,      \* values of SAMUEL_POLICY a session may be started with
    Commands,   \* processes: policy preauth, policy reset
    Scopes,     \* sets of keys a reset clears: all, or one plugin's
    Overlap,    \* whether commands may run beside a session or each other
    MaxFaults   \* bound: failed writes and kills

ASSUME KeyAssumption   == KeyOf \in [Conns -> Keys] /\ Manifests \subseteq SUBSET Keys
ASSUME ModeAssumption  == Modes \subseteq {"interactive", "deny-all",
                                           "allow-once", "allow-all"}
ASSUME ScopeAssumption == Scopes \subseteq SUBSET Keys
ASSUME OverlapAssumption == Overlap \in BOOLEAN

Persistent == {"allow-always", "deny-forever"}
Decisions  == Persistent \cup {"allow-once", "deny"}
Allowed(d) == d \in {"allow-once", "allow-always"}
Entries    == [Keys -> Persistent \cup {"none"}]
Nobody     == "nobody"
NoEntries  == [k \in Keys |-> "none"]

ASSUME NobodyAssumption == Nobody \notin Conns

VARIABLES
    disk,       \* network.toml
    tmp,        \* network.toml.tmp: its content, or {} when there is none
    faults,     \* writes that failed and kills so far
    mode,       \* SAMUEL_POLICY of the running session, "down" without one
    listed,     \* Engine.AllowedHosts: the keys the session's manifests allow
    mem,        \* Store.entries of the session
    mu,         \* who holds Store.mu
    at,         \* per request
    decided,    \* per request: the decision the engine returned
    cpc, buf, ckey, cdecision,  \* per command: its step, its copy and change
    latest,     \* history: the latest persistent decision on a key
    acked       \* history: ... that was written without an error

session == <<mode, listed, mem, mu>>
request == <<at, decided>>
command == <<cpc, buf, ckey, cdecision>>
history == <<latest, acked>>
policyVars == <<disk, tmp, faults, session, request, command, history>>

PolicyInit ==
    /\ disk \in {NoEntries, [k \in Keys |-> "allow-always"]}
    /\ tmp = {}
    /\ faults = 0
    /\ mode = "down" /\ listed = {} /\ mem = NoEntries /\ mu = Nobody
    /\ at = [c \in Conns |-> "idle"]
    /\ decided = [c \in Conns |-> "deny"]
    /\ cpc = [p \in Commands |-> "idle"]
    /\ buf = [p \in Commands |-> NoEntries]
    /\ ckey = [p \in Commands |-> {}]
    /\ cdecision = [p \in Commands |-> "none"]
    /\ latest = disk /\ acked = disk

Running == {p \in Commands : cpc[p] \notin {"idle", "done"}}

-----------------------------------------------------------------------------
\* Mutant: the session forgets to load the store.
StartUnloaded ==
    /\ mode = "down"
    /\ Overlap \/ Running = {}
    /\ mode' \in Modes
    /\ listed' \in Manifests
    /\ UNCHANGED <<disk, tmp, faults, mem, mu, request, command, history>>

(* The session starts: Store.Load, ModeFromEnv. *)
Start ==
    /\ mode = "down"
    /\ Overlap \/ Running = {}
    /\ mode' \in Modes
    /\ listed' \in Manifests
    /\ mem' = disk
    /\ UNCHANGED <<disk, tmp, faults, mu, request, command, history>>

(* The session ends when no request is in flight ... *)
End ==
    /\ mode # "down"
    /\ \A c \in Conns : at[c] \in {"idle", "over"}
    /\ mode' = "down" /\ listed' = {} /\ mem' = NoEntries
    /\ UNCHANGED <<disk, tmp, faults, mu, request, command, history>>

(* ... or is killed wherever it is: its memory is gone, its requests are cut,
   the file and the temporary file stay as they are. *)
Kill ==
    /\ mode # "down"
    /\ faults < MaxFaults
    /\ faults' = faults + 1
    /\ mode' = "down" /\ listed' = {} /\ mem' = NoEntries /\ mu' = Nobody
    /\ at' = [c \in Conns |-> IF at[c] = "idle" THEN "idle" ELSE "over"]
    /\ UNCHANGED <<disk, tmp, decided, command, history>>

Go(c, step) == at' = [at EXCEPT ![c] = step]

(* handle, handleConnect and handleHTTP: the request is read, the engine asked. *)
Request(c) ==
    /\ mode # "down"
    /\ at[c] = "idle"
    /\ Go(c, "lookup")
    /\ UNCHANGED <<disk, tmp, faults, session, decided, command, history>>

(* hostMatches, for the manifest of the plugin that asks. *)
Listed(k) == k \in listed

(* PromptForMode *)
ModeDecision == CASE mode = "deny-all"   -> "deny"
                  [] mode = "allow-once" -> "allow-once"
                  [] mode = "allow-all"  -> "allow-always"

\* Mutant: the store's lock is kept while the user is asked.
LookupKeepsLock(c) ==
    /\ at[c] = "lookup" /\ mu = Nobody
    /\ \/ /\ mem[KeyOf[c]] # "none"
          /\ decided' = [decided EXCEPT ![c] = mem[KeyOf[c]]]
          /\ Go(c, "act") /\ UNCHANGED mu
       \/ /\ mem[KeyOf[c]] = "none" /\ Listed(KeyOf[c])
          /\ decided' = [decided EXCEPT ![c] = "allow-once"]
          /\ Go(c, "act") /\ UNCHANGED mu
       \/ /\ mem[KeyOf[c]] = "none" /\ ~Listed(KeyOf[c])
          /\ mode # "interactive"
          /\ decided' = [decided EXCEPT ![c] = ModeDecision]
          /\ Go(c, "record") /\ UNCHANGED mu
       \/ /\ mem[KeyOf[c]] = "none" /\ ~Listed(KeyOf[c])
          /\ mode = "interactive"
          /\ mu' = c
          /\ Go(c, "asking") /\ UNCHANGED decided
    /\ UNCHANGED <<disk, tmp, faults, mode, listed, mem, command, history>>

(* Engine.Decide: the stored decision, the manifest, the mode, the user. *)
Lookup(c) ==
    /\ at[c] = "lookup" /\ mu = Nobody
    /\ \/ /\ mem[KeyOf[c]] # "none"
          /\ decided' = [decided EXCEPT ![c] = mem[KeyOf[c]]]
          /\ Go(c, "act")
       \/ /\ mem[KeyOf[c]] = "none" /\ Listed(KeyOf[c])
          /\ decided' = [decided EXCEPT ![c] = "allow-once"]
          /\ Go(c, "act")
       \/ /\ mem[KeyOf[c]] = "none" /\ ~Listed(KeyOf[c])
          /\ mode # "interactive"
          /\ decided' = [decided EXCEPT ![c] = ModeDecision]
          /\ Go(c, "record")
       \/ /\ mem[KeyOf[c]] = "none" /\ ~Listed(KeyOf[c])
          /\ mode = "interactive"
          /\ Go(c, "asking") /\ UNCHANGED decided
    /\ UNCHANGED <<disk, tmp, faults, session, command, history>>

(* The user answers the prompt of one request; nothing is locked meanwhile. *)
Answer(c) ==
    /\ at[c] = "asking"
    /\ \E d \in Decisions : decided' = [decided EXCEPT ![c] = d]
    /\ Go(c, "record")
    /\ UNCHANGED <<disk, tmp, faults, session, command, history>>

(* Store.Record takes the lock.  A one-time answer only refreshes the time
   stamp of an entry there may be by now, and saves it. *)
Record(c) ==
    LET k == KeyOf[c] IN
    /\ at[c] = "record" /\ mu = Nobody
    /\ \/ /\ decided[c] \in Persistent
          /\ mem' = [mem EXCEPT ![k] = decided[c]]
          /\ latest' = [latest EXCEPT ![k] = decided[c]]
          /\ mu' = c /\ Go(c, "write")
       \/ /\ decided[c] \notin Persistent /\ mem[k] # "none"
          /\ mu' = c /\ Go(c, "write")
          /\ UNCHANGED <<mem, latest>>
       \/ /\ decided[c] \notin Persistent /\ mem[k] = "none"
          /\ Go(c, "act")
          /\ UNCHANGED <<mu, mem, latest>>
    /\ UNCHANGED <<disk, tmp, faults, mode, listed, decided, command, acked>>

(* Store.save: the whole map into the temporary file, then the rename. *)
Write(c) ==
    /\ at[c] = "write"
    /\ tmp' = {mem}
    /\ Go(c, "rename")
    /\ UNCHANGED <<disk, faults, session, decided, command, history>>

Rename(c) ==
    /\ at[c] = "rename"
    /\ \E written \in tmp : disk' = written
    /\ acked' = [k \in Keys |-> IF mem[k] = latest[k] THEN latest[k] ELSE acked[k]]
    /\ mu' = Nobody
    /\ tmp' = {}
    /\ Go(c, "act")
    /\ UNCHANGED <<faults, mode, listed, mem, decided, command, latest>>

(* The engine drops the error of a save that failed. *)
SaveFails(c) ==
    /\ \/ /\ at[c] \in {"write", "rename"}
          /\ faults < MaxFaults
          /\ faults' = faults + 1
       \/ /\ at[c] = "rename" /\ tmp = {}  \* another process has renamed it
          /\ UNCHANGED faults
    /\ mu' = Nobody
    /\ Go(c, "act")
    /\ UNCHANGED <<disk, tmp, mode, listed, mem, decided, command, history>>

(* The audit row is appended (the log is only ever written: it is left out),
   and the proxy answers 403, or dials and pipes, or answers 502. *)
Reply(c) ==
    /\ at[c] = "act"
    /\ Go(c, IF Allowed(decided[c]) THEN "piping" ELSE "over")
    /\ UNCHANGED <<disk, tmp, faults, session, decided, command, history>>

HangUp(c) ==
    /\ at[c] = "piping"
    /\ Go(c, "over")
    /\ UNCHANGED <<disk, tmp, faults, session, decided, command, history>>

-----------------------------------------------------------------------------
(* samuel policy preauth | reset: policyStore loads the file ... *)
Load(p) ==
    /\ cpc[p] = "idle"
    /\ Overlap \/ (mode = "down" /\ Running = {})
    /\ buf' = [buf EXCEPT ![p] = disk]
    /\ cpc' = [cpc EXCEPT ![p] = "loaded"]
    /\ UNCHANGED <<disk, tmp, faults, session, request, ckey, cdecision, history>>

(* ... the change is made in memory (Preauth, ResetPlugin; Reset of everything
   removes the file at once) ... *)
Change(p) ==
    /\ cpc[p] = "loaded"
    /\ \/ \E k \in Keys, d \in Persistent :
             /\ ckey' = [ckey EXCEPT ![p] = {k}]
             /\ cdecision' = [cdecision EXCEPT ![p] = d]
       \/ \E s \in Scopes :
             /\ ckey' = [ckey EXCEPT ![p] = s]
             /\ cdecision' = [cdecision EXCEPT ![p] = "none"]
    /\ cpc' = [cpc EXCEPT ![p] = IF ckey'[p] = Keys /\ cdecision'[p] = "none"
                                 THEN "remove" ELSE "write"]
    /\ buf' = [buf EXCEPT ![p] =
                 [k \in Keys |-> IF k \in ckey'[p] THEN cdecision'[p] ELSE buf[p][k]]]
    /\ UNCHANGED <<disk, tmp, faults, session, request, history>>

Leave(p) ==
    /\ cpc' = [cpc EXCEPT ![p] = "done"]
    /\ buf' = [buf EXCEPT ![p] = NoEntries]
    /\ ckey' = [ckey EXCEPT ![p] = {}]
    /\ cdecision' = [cdecision EXCEPT ![p] = "none"]

Changed(p, f) == [k \in Keys |-> IF k \in ckey[p] THEN cdecision[p] ELSE f[k]]

CommandWrites(p) ==
    /\ cpc[p] = "write"
    /\ tmp' = {buf[p]}
    /\ cpc' = [cpc EXCEPT ![p] = "rename"]
    /\ UNCHANGED <<disk, faults, session, request, buf, ckey, cdecision, history>>

(* ... and written whole over the file; the command reports success. *)
CommandRenames(p) ==
    /\ cpc[p] \in {"rename", "remove"}
    /\ \/ cpc[p] = "remove" /\ disk' = NoEntries /\ UNCHANGED tmp
       \/ cpc[p] = "rename" /\ tmp' = {} /\ \E written \in tmp : disk' = written
    /\ latest' = Changed(p, latest)
    /\ acked' = Changed(p, acked)
    /\ Leave(p)
    /\ UNCHANGED <<faults, session, request>>

(* A write that fails, or a kill: the command ends without a report. *)
CommandFails(p) ==
    /\ p \in Running
    /\ \/ /\ faults < MaxFaults
          /\ faults' = faults + 1
       \/ /\ cpc[p] = "rename" /\ tmp = {}
          /\ UNCHANGED faults
    /\ Leave(p)
    /\ UNCHANGED <<disk, tmp, session, request, history>>

-----------------------------------------------------------------------------
Proceed(c) == Lookup(c) \/ Record(c) \/ Write(c) \/ Rename(c) \/ SaveFails(c)
              \/ Reply(c) \/ HangUp(c)

PolicyNext ==
    \/ Start \/ End \/ Kill
    \/ \E c \in Conns : Request(c) \/ Answer(c) \/ Proceed(c)
    \/ \E p \in Commands : \/ Load(p) \/ Change(p) \/ CommandWrites(p)
                           \/ CommandRenames(p) \/ CommandFails(p)

(* The proxy's goroutines run; users need not answer and nobody has to start. *)
PolicySpec ==
    /\ PolicyInit /\ [][PolicyNext]_policyVars
    /\ \A c \in Conns : WF_policyVars(Proceed(c))

-----------------------------------------------------------------------------
(* The file never moves back: what it holds of a key is the last decision on
   it whose write succeeded, or the last decision made, whatever else was
   written or failed or was killed in between.  (Only without Overlap: the
   session writes its own copy back over what a command has done meanwhile.) *)
PolicyKept == \A k \in Keys : disk[k] \in {acked[k], latest[k]}

(* A prompt that nobody answers holds up its own request only: every other
   request comes to its end, or to a prompt of its own. *)
OnlyTheAskedWait ==
    \A c \in Conns : at[c] = "lookup" ~> at[c] \in {"asking", "over"}
=============================================================================
