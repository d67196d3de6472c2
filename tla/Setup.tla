------------------------------- MODULE Setup -------------------------------
(***************************************************************************)
(* How a node gets its configuration and its key, and what a daemon then   *)
(* runs with.  The wizard (`onboard`, cmd/lightnode-sx/onboard.go) writes  *)
(* config.toml and then imports a key; the `keys` commands add keys; the   *)
(* operator may edit config.toml; `start` checks for config.toml, loads    *)
(* it, and looks up the key it names, in daemon.New for the delegation     *)
(* manager and in heartbeatLoop for the heartbeats.                        *)
(*                                                                         *)
(* All of them are processes that interleave: one wizard, any number of    *)
(* keys commands and one daemon.  The keyring is keys.enc, the file of the *)
(* default backend.  A process that adds a key loads it, makes its change  *)
(* to its own copy and saves that whole; the mutex of the backend is of a  *)
(* process, so nothing keeps two of them apart: they may lose each other's *)
(* keys, or both add the same name.  os.WriteFile truncates before it      *)
(* writes, and a process killed between leaves a file that does not load.  *)
(*                                                                         *)
(* No backend ever sets KeyInfo.Address.  The daemon learns of its key no  *)
(* more than that it is there.                                             *)
(***************************************************************************)
EXTENDS Naturals, FiniteSets

CONSTANTS
    Endpoints,   \* RPC addresses, DefaultRPC among them
    DefaultRPC,  \* http://localhost:26657
    Keys,        \* private keys
    NoKey,
    Suffixed,    \* the names "validator-" with four random bytes
    Commands     \* the keys commands that may run at once

ASSUME NamesAssumption == Suffixed \cap {"operator", "validator"} = {}
ASSUME CommandsAssumption == "wizard" \notin Commands
ASSUME KeysAssumption == NoKey \notin Keys
ASSUME EndpointsAssumption == DefaultRPC \in Endpoints /\ "" \notin Endpoints

VARIABLES
    exists,   \* disk: is there a config.toml?
    conf,     \* disk: what loading it yields
    ring,     \* disk: the keys of keys.enc
    torn,     \* disk: is keys.enc cut short, so that it does not decode?
    wiz,      \* the wizard and its local variables
    adding,   \* the processes that add a key: where they are in that, and
              \* their copy of the keys, with their own
    node,     \* the daemon and its fields; told is history: the endpoint of
              \* the setup its configuration is from, if a wizard made it
    setup,    \* history: what the wizard that wrote conf was told and did,
              \* once it is done and unless conf was edited since
    overlap   \* history: since the wizard loaded the keys, did two processes
              \* change them at once, or was a save of them cut short?

config == <<exists, conf>>
keyring == <<ring, torn, adding, overlap>>
vars == <<config, keyring, wiz, node, setup>>

Processes == Commands \cup {"wizard"}
Names == {"operator", "validator"} \cup Suffixed
Answers == Endpoints \cup {""}    \* "": local-only
Configs == [rpc : Answers, keyName : Names]
Rings == [Names -> Keys \cup {NoKey}]
Setups == [rpc : Answers, key : Keys, name : Names]
NotSetUp == [rpc |-> ""]

(* config.DefaultConfig, which is also what an absent file, an empty file  *)
(* and a file that does not parse come to.                                 *)
Default == [rpc |-> DefaultRPC, keyName |-> "operator"]

NoKeys == [n \in Names |-> NoKey]
Size(r) == Cardinality({n \in Names : r[n] # NoKey})

TypeOK ==
    /\ exists \in BOOLEAN /\ conf \in Configs
    /\ ring \in Rings /\ torn \in BOOLEAN
    /\ wiz \in [pc : {"idle", "endpoint", "key", "save", "write", "import"},
                rpc : Answers, key : Keys \cup {NoKey}, name : Names]
    /\ wiz.pc \in {"save", "write", "import"} => wiz.key # NoKey
    /\ adding \in [Processes -> [pc : {"idle", "loaded", "truncated"},
                                 copy : Rings]]
    /\ node \in [pc : {"down", "load", "resolve", "launch", "up"},
                 conf : Configs, keyed : BOOLEAN, told : SUBSET Answers]
    /\ setup \in Setups \cup {NotSetUp}
    /\ overlap \in BOOLEAN

NoWizard == [pc |-> "idle", rpc |-> "", key |-> NoKey, name |-> "validator"]
NotAdding == [pc |-> "idle", copy |-> NoKeys]
NoDaemon == [pc |-> "down", conf |-> Default, keyed |-> FALSE, told |-> {}]

Init ==
    /\ exists = FALSE /\ conf = Default
    /\ ring = NoKeys /\ torn = FALSE
    /\ wiz = NoWizard /\ node = NoDaemon
    /\ adding = [p \in Processes |-> NotAdding]
    /\ setup = NotSetUp /\ overlap = FALSE

-----------------------------------------------------------------------------
(* A key is added: Create and Import of the file backend, by a keys command*)
(* or the wizard.                                                          *)

Changing(p) == adding[p].pc \in {"loaded", "truncated"}
Overlaps(p) == \E q \in Processes \ {p} : Changing(q)

(* The keys are loaded, the name is not among them, and the key joins them.*)
LoadKeys(p, n, key) ==
    /\ adding[p].pc = "idle"
    /\ ~torn /\ ring[n] = NoKey
    /\ adding' = [adding EXCEPT ![p] = [pc |-> "loaded",
                                       copy |-> [ring EXCEPT ![n] = key]]]
    /\ overlap' = ((p # "wizard" /\ overlap) \/ Overlaps(p))
    /\ UNCHANGED <<ring, torn>>

(* os.WriteFile opens the file with O_TRUNC. *)
Truncate(p) ==
    /\ adding[p].pc = "loaded"
    /\ adding' = [adding EXCEPT ![p].pc = "truncated"]
    /\ ring' = NoKeys /\ torn' = TRUE
    /\ UNCHANGED <<config, wiz, node, setup, overlap>>

(* The write starts at offset 0 of what is there: nothing, or what another *)
(* process wrote since the truncation.  A longer old content leaves its    *)
(* tail behind; with as many keys either may be the longer one.            *)
WriteKeys(p) ==
    /\ adding[p].pc = "truncated"
    /\ adding' = [adding EXCEPT ![p] = NotAdding]
    /\ \/ /\ Size(ring) <= Size(adding[p].copy)
          /\ ring' = adding[p].copy /\ torn' = FALSE
       \/ /\ ~torn /\ Size(ring) >= Size(adding[p].copy)
          /\ ring' = NoKeys /\ torn' = TRUE
    /\ UNCHANGED overlap

(* The process is killed, or the disk is full, before the write is done.   *)
CutShort(p) ==
    /\ adding[p].pc = "truncated"
    /\ adding' = [adding EXCEPT ![p] = NotAdding]
    /\ torn' \in {torn, TRUE}
    /\ ring' = IF torn' THEN NoKeys ELSE ring
    /\ overlap' = TRUE

(* The process is killed, or the call fails, before it has opened the file.*)
GiveUp(p) ==
    /\ adding[p].pc # "truncated"
    /\ adding' = [adding EXCEPT ![p] = NotAdding]
    /\ UNCHANGED <<ring, torn, overlap>>

(* keys create and keys import; no command deletes a key. *)
AddKey(c) ==
    /\ \/ \E n \in Names, key \in Keys : LoadKeys(c, n, key)
       \/ WriteKeys(c) \/ CutShort(c) \/ GiveUp(c)
    /\ UNCHANGED <<config, wiz, node, setup>>

-----------------------------------------------------------------------------
(* The wizard. *)

(* The self-test of the PQC stack passes; if it does not, onboard returns. *)
Onboard ==
    /\ wiz.pc = "idle"
    /\ wiz' = [wiz EXCEPT !.pc = "endpoint"]
    /\ UNCHANGED <<config, keyring, node, setup>>

(* A blank answer is local-only; an endpoint that cannot be reached is     *)
(* kept with a warning.                                                    *)
AskEndpoint(rpc) ==
    /\ wiz.pc = "endpoint"
    /\ wiz' = [wiz EXCEPT !.pc = "key", !.rpc = rpc]
    /\ UNCHANGED <<config, keyring, node, setup>>

(* A generated key, or a pasted one; one that does not decode, or has the  *)
(* wrong size, ends the wizard.                                            *)
AskKey(key) ==
    /\ wiz.pc = "key"
    /\ wiz' = [wiz EXCEPT !.pc = "save", !.key = key]
    /\ UNCHANGED <<config, keyring, node, setup>>

(* config.Save: os.Create leaves an empty file. *)
CreateConfig ==
    /\ wiz.pc = "save"
    /\ wiz' = [wiz EXCEPT !.pc = "write"]
    /\ exists' = TRUE /\ conf' = Default
    /\ setup' = NotSetUp
    /\ UNCHANGED <<keyring, node>>

Written == [Default EXCEPT !.rpc = wiz.rpc]

(* config.Save: the defaults, with the endpoint, in one write. *)
WriteConfig ==
    /\ wiz.pc = "write"
    /\ wiz' = [wiz EXCEPT !.pc = "import"]
    /\ conf' = Written
    /\ UNCHANGED <<exists, keyring, node, setup>>

(* The write is cut short: what is there may reach up to the endpoint.     *)
WriteConfigFails ==
    /\ wiz.pc = "write"
    /\ wiz' = NoWizard
    /\ conf' \in {Default, Written}
    /\ UNCHANGED <<exists, keyring, node, setup>>

(* Import under wiz.name: it loads the keys. *)
ImportLoads ==
    /\ wiz.pc = "import"
    /\ LoadKeys("wizard", wiz.name, wiz.key)
    /\ UNCHANGED <<config, wiz, node, setup>>

Finished == [rpc |-> wiz.rpc, key |-> wiz.key, name |-> wiz.name]

(* Import has saved them: the end of the wizard. *)
Imported ==
    /\ wiz.pc = "import"
    /\ WriteKeys("wizard")
    /\ setup' = Finished
    /\ wiz' = NoWizard
    /\ UNCHANGED <<config, node>>

(* The name is "validator" first, then, at whatever error, "validator-"    *)
(* with four random bytes.  A second error ends the wizard with an error,  *)
(* and with config.toml written.                                           *)
NextName ==
    IF wiz.name \in Suffixed THEN wiz' = NoWizard
    ELSE \E n \in Suffixed : wiz' = [wiz EXCEPT !.name = n]

(* Mutant: the error of the second Import is not looked at. *)
ImportFailsIgnored ==
    /\ wiz.pc = "import"
    /\ GiveUp("wizard") \/ CutShort("wizard")
    /\ NextName
    /\ setup' = IF wiz.name \in Suffixed THEN Finished ELSE setup
    /\ UNCHANGED <<config, node>>

(* The name exists, or the keys cannot be loaded or saved. *)
ImportFails ==
    /\ wiz.pc = "import"
    /\ GiveUp("wizard") \/ CutShort("wizard")
    /\ NextName
    /\ UNCHANGED <<config, node, setup>>

(* The wizard ends: at an error of any other step, or killed. *)
Abandon ==
    /\ wiz.pc # "idle"
    /\ GiveUp("wizard") \/ CutShort("wizard")
    /\ wiz' = NoWizard
    /\ UNCHANGED <<config, node, setup>>

-----------------------------------------------------------------------------
(* The operator writes config.toml by hand, but not in the moment in which *)
(* the wizard saves.                                                       *)
Edit(c) ==
    /\ wiz.pc \notin {"write", "import"}
    /\ exists' = TRUE /\ conf' = c
    /\ setup' = NotSetUp
    /\ UNCHANGED <<keyring, wiz, node>>

-----------------------------------------------------------------------------
(* The daemon. *)

(* start without a config.toml is refused, unless --skip-onboarding-check  *)
(* is given; lightnode-ux does not check.                                  *)
Start(skip) ==
    /\ node.pc = "down"
    /\ exists \/ skip
    /\ node' = [node EXCEPT !.pc = "load"]
    /\ UNCHANGED <<config, keyring, wiz, setup>>

Told == IF setup = NotSetUp THEN {} ELSE {setup.rpc}

(* Mutant: config.toml is looked for elsewhere. *)
LoadElsewhere ==
    /\ node.pc = "load"
    /\ node' = [node EXCEPT !.pc = "resolve", !.conf = Default, !.told = Told]
    /\ UNCHANGED <<config, keyring, wiz, setup>>

Load ==
    /\ node.pc = "load"
    /\ node' = [node EXCEPT !.pc = "resolve", !.conf = conf, !.told = Told]
    /\ UNCHANGED <<config, keyring, wiz, setup>>

(* keys.Get(cfg.KeyName) finds the key, if it gets to read the file. *)
Found == ~torn /\ ring[node.conf.keyName] # NoKey

(* New looks up the key for the operator's address, which the delegation   *)
(* manager asks for; but the address is blank, found or not.               *)
Resolve ==
    /\ node.pc = "resolve"
    /\ node' = [node EXCEPT !.pc = "launch"]
    /\ UNCHANGED <<config, keyring, wiz, setup>>

(* heartbeatLoop looks the key up, for the (blank) address it will report, *)
(* and returns if that fails.                                              *)
Launch(keyed) ==
    /\ node.pc = "launch"
    /\ keyed => Found
    /\ node' = [node EXCEPT !.pc = "up", !.keyed = keyed]
    /\ UNCHANGED <<config, keyring, wiz, setup>>

(* New fails, a signal ends the daemon, or it is killed. *)
Stop ==
    /\ node.pc # "down"
    /\ node' = NoDaemon
    /\ UNCHANGED <<config, keyring, wiz, setup>>

-----------------------------------------------------------------------------
Wizard ==
    \/ Onboard \/ CreateConfig \/ WriteConfig \/ WriteConfigFails
    \/ ImportLoads \/ Imported \/ ImportFails \/ Abandon
    \/ \E rpc \in Answers : AskEndpoint(rpc)
    \/ \E key \in Keys : AskKey(key)

Daemon ==
    \/ Load \/ Resolve \/ Stop
    \/ \E skip \in BOOLEAN : Start(skip)
    \/ \E keyed \in BOOLEAN : Launch(keyed)

Next ==
    \/ Wizard \/ Daemon
    \/ \E c \in Commands : AddKey(c)
    \/ \E p \in Processes : Truncate(p)
    \/ \E c \in Configs : Edit(c)

Spec == Init /\ [][Next]_vars

-----------------------------------------------------------------------------
(* The keys on disk, or those a process is writing there. *)
Saved(n, key) ==
    IF ~torn THEN ring[n] = key
    ELSE \E p \in Processes :
           adding[p].pc = "truncated" /\ adding[p].copy[n] = key

(* A wizard that ran to its end has left config.toml with the endpoint it  *)
(* was given, until the file is edited or a wizard writes it again.  It    *)
(* has left its key under the name it printed, unless a keys command was   *)
(* adding a key between its own load and save; and the key stays, as long  *)
(* as no two commands overlap and no save is cut short.                    *)
SetupIsStored ==
    setup # NotSetUp =>
        /\ exists /\ conf.rpc = setup.rpc
        /\ ~overlap => Saved(setup.name, setup.key)

(* A daemon started on a finished setup runs with its endpoint; with none, *)
(* if the answer was left blank.                                           *)
SetupIsUsed ==
    node.pc \in {"resolve", "launch", "up"} => node.told \subseteq {node.conf.rpc}

(* main.go:88-89: onboard sets the node up, with endpoint and private key: *)
(* a daemon started on a finished setup finds a key, if the keyring was    *)
(* not harmed and is not being saved.                                      *)
SetUpNodeHasKey ==
    node.pc \in {"resolve", "launch", "up"} /\ node.told # {}
        /\ ~torn /\ ~overlap => ring[node.conf.keyName] # NoKey

=============================================================================
