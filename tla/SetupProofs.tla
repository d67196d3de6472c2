----------------------------- MODULE SetupProofs -----------------------------
(***************************************************************************)
(* Theorems about Setup, for any endpoints, keys, names and keys commands: *)
(* that what a finished wizard was told is on disk, its key as long as no  *)
(* change of the keyring overlapped another or was cut short, and is what  *)
(* the next daemon runs with.                                              *)
(***************************************************************************)
EXTENDS Setup, TLAPS

(* Every action, without quantifiers nested in disjunctions. *)
LEMMA NextActions ==
    ASSUME Next
    PROVE  \/ Onboard
           \/ CreateConfig
           \/ WriteConfig
           \/ WriteConfigFails
           \/ ImportLoads
           \/ Imported
           \/ ImportFails
           \/ Abandon
           \/ Load
           \/ Resolve
           \/ Stop
           \/ \E rpc \in Answers : AskEndpoint(rpc)
           \/ \E key \in Keys : AskKey(key)
           \/ \E skip \in BOOLEAN : Start(skip)
           \/ \E keyed \in BOOLEAN : Launch(keyed)
           \/ \E c \in Commands : AddKey(c)
           \/ \E p \in Processes : Truncate(p)
           \/ \E c \in Configs : Edit(c)
BY DEF Next, Wizard, Daemon

-----------------------------------------------------------------------------
ConfigType == exists \in BOOLEAN /\ conf \in Configs

KeyringType ==
    /\ ring \in Rings /\ torn \in BOOLEAN /\ overlap \in BOOLEAN
    /\ adding \in [Processes -> [pc : {"idle", "loaded", "truncated"},
                                 copy : Rings]]

WizardType ==
    /\ wiz \in [pc : {"idle", "endpoint", "key", "save", "write", "import"},
                rpc : Answers, key : Keys \cup {NoKey}, name : Names]
    /\ wiz.pc \in {"save", "write", "import"} => wiz.key # NoKey

NodeType ==
    node \in [pc : {"down", "load", "resolve", "launch", "up"},
              conf : Configs, keyed : BOOLEAN, told : SUBSET Answers]

SetupType == setup \in Setups \cup {NotSetUp}

LEMMA TypeParts ==
    TypeOK <=> /\ ConfigType /\ KeyringType /\ WizardType /\ NodeType
               /\ SetupType
BY DEF TypeOK, ConfigType, KeyringType, WizardType, NodeType, SetupType

LEMMA Defaults ==
    /\ Default \in Configs /\ NoKeys \in Rings
    /\ "validator" \in Names /\ "" \in Answers
    /\ "wizard" \in Processes
BY EndpointsAssumption
   DEF Default, Configs, Answers, Names, NoKeys, Rings, Processes

LEMMA NoWizardType == wiz' = NoWizard => WizardType'
<1> NoWizard \in [pc : {"idle", "endpoint", "key", "save", "write", "import"},
                  rpc : Answers, key : Keys \cup {NoKey}, name : Names]
    /\ NoWizard.pc = "idle"
  BY Defaults DEF NoWizard
<1> QED
  BY DEF WizardType

LEMMA NotAddingType ==
    NotAdding \in [pc : {"idle", "loaded", "truncated"}, copy : Rings]
BY Defaults DEF NotAdding

LEMMA TypeInit == Init => TypeOK
<1> SUFFICES ASSUME Init
             PROVE  /\ ConfigType /\ KeyringType /\ WizardType /\ NodeType
                    /\ SetupType
  BY TypeParts
<1>1. ConfigType
  BY Defaults DEF Init, ConfigType
<1>2. KeyringType
  BY Defaults, NotAddingType DEF Init, KeyringType
<1>3. WizardType
  BY Defaults DEF Init, WizardType, NoWizard
<1>4. NodeType
  BY Defaults DEF Init, NodeType, NoDaemon
<1> QED
  BY <1>1, <1>2, <1>3, <1>4 DEF Init, SetupType

(* The steps of adding a key keep the types of the keyring. *)
LEMMA LoadKeysType ==
    ASSUME KeyringType, NEW p \in Processes, NEW n \in Names, NEW key \in Keys,
           LoadKeys(p, n, key)
    PROVE  KeyringType'
<1>1. [ring EXCEPT ![n] = key] \in Rings
  BY DEF KeyringType, Rings
<1>2. overlap' \in BOOLEAN /\ ring' = ring /\ torn' = torn
  BY DEF LoadKeys
<1>3. adding' \in [Processes -> [pc : {"idle", "loaded", "truncated"},
                                copy : Rings]]
  BY <1>1 DEF LoadKeys, KeyringType
<1> QED
  BY <1>2, <1>3 DEF KeyringType

LEMMA SaveTypes ==
    ASSUME KeyringType, NEW p \in Processes
    PROVE  Truncate(p) \/ WriteKeys(p) \/ CutShort(p) \/ GiveUp(p)
               => KeyringType'
<1> USE Defaults, NotAddingType
<1>1. Truncate(p) => KeyringType'
  <2>1. Truncate(p) => overlap' = overlap /\ ring' = NoKeys /\ torn' = TRUE
    BY DEF Truncate
  <2>2. Truncate(p) => adding' \in [Processes ->
                  [pc : {"idle", "loaded", "truncated"}, copy : Rings]]
    BY DEF Truncate, KeyringType
  <2> QED
    BY <2>1, <2>2 DEF KeyringType
<1>2. WriteKeys(p) => KeyringType'
  BY DEF WriteKeys, KeyringType
<1>3. CutShort(p) => KeyringType'
  BY DEF CutShort, KeyringType
<1>4. GiveUp(p) => KeyringType'
  BY DEF GiveUp, KeyringType
<1> QED
  BY <1>1, <1>2, <1>3, <1>4

LEMMA TypeStep == TypeOK /\ [Next]_vars => TypeOK'
<1> SUFFICES ASSUME ConfigType, KeyringType, WizardType, NodeType, SetupType,
                    [Next]_vars
             PROVE  /\ ConfigType' /\ KeyringType' /\ WizardType' /\ NodeType'
                    /\ SetupType'
  BY DEF TypeOK, ConfigType, KeyringType, WizardType, NodeType, SetupType
<1>c. UNCHANGED config => ConfigType'
  BY DEF config, ConfigType
<1>k. UNCHANGED keyring => KeyringType'
  BY DEF keyring, KeyringType
<1>w. UNCHANGED wiz => WizardType'
  BY DEF WizardType
<1>n. UNCHANGED node => NodeType'
  BY DEF NodeType
<1>s. UNCHANGED setup => SetupType'
  BY DEF SetupType
<1> USE Defaults
<1>1. CASE Onboard
  <2>1. ConfigType'
    BY <1>1, <1>c DEF Onboard
  <2>2. KeyringType'
    BY <1>1, <1>k DEF Onboard
  <2>3. WizardType'
    BY <1>1 DEF Onboard, WizardType
  <2>4. NodeType'
    BY <1>1, <1>n DEF Onboard
  <2>5. SetupType'
    BY <1>1, <1>s DEF Onboard
  <2> QED
    BY <2>1, <2>2, <2>3, <2>4, <2>5
<1>2. CASE CreateConfig
  <2>1. ConfigType'
    BY <1>2 DEF CreateConfig, ConfigType
  <2>2. KeyringType'
    BY <1>2, <1>k DEF CreateConfig
  <2>3. WizardType'
    BY <1>2 DEF CreateConfig, WizardType
  <2>4. NodeType'
    BY <1>2, <1>n DEF CreateConfig
  <2>5. SetupType'
    BY <1>2 DEF CreateConfig, SetupType
  <2> QED
    BY <2>1, <2>2, <2>3, <2>4, <2>5
<1>3. CASE WriteConfig
  <2>1. ConfigType'
    BY <1>3 DEF WriteConfig, Written, Configs, ConfigType, WizardType
  <2>2. KeyringType'
    BY <1>3, <1>k DEF WriteConfig
  <2>3. WizardType'
    BY <1>3 DEF WriteConfig, WizardType
  <2>4. NodeType'
    BY <1>3, <1>n DEF WriteConfig
  <2>5. SetupType'
    BY <1>3, <1>s DEF WriteConfig
  <2> QED
    BY <2>1, <2>2, <2>3, <2>4, <2>5
<1>4. CASE WriteConfigFails
  <2>1. ConfigType'
    BY <1>4 DEF WriteConfigFails, Written, Configs, ConfigType, WizardType
  <2>2. KeyringType'
    BY <1>4, <1>k DEF WriteConfigFails
  <2>3. WizardType'
    BY <1>4, NoWizardType DEF WriteConfigFails
  <2>4. NodeType'
    BY <1>4, <1>n DEF WriteConfigFails
  <2>5. SetupType'
    BY <1>4, <1>s DEF WriteConfigFails
  <2> QED
    BY <2>1, <2>2, <2>3, <2>4, <2>5
<1>5. CASE ImportLoads
  <2>1. ConfigType'
    BY <1>5, <1>c DEF ImportLoads
  <2>2. KeyringType'
    BY <1>5, LoadKeysType, KeysAssumption DEF ImportLoads, WizardType
  <2>3. WizardType'
    BY <1>5, <1>w DEF ImportLoads
  <2>4. NodeType'
    BY <1>5, <1>n DEF ImportLoads
  <2>5. SetupType'
    BY <1>5, <1>s DEF ImportLoads
  <2> QED
    BY <2>1, <2>2, <2>3, <2>4, <2>5
<1>6. CASE Imported
  <2>1. ConfigType'
    BY <1>6, <1>c DEF Imported
  <2>2. KeyringType'
    BY <1>6, SaveTypes DEF Imported
  <2>3. WizardType'
    BY <1>6, NoWizardType DEF Imported
  <2>4. NodeType'
    BY <1>6, <1>n DEF Imported
  <2>5. SetupType'
    <3>1. Finished \in Setups
      BY <1>6 DEF Imported, Finished, Setups, WizardType
    <3> QED
      BY <1>6, <3>1 DEF Imported, SetupType
  <2> QED
    BY <2>1, <2>2, <2>3, <2>4, <2>5
<1>7. CASE ImportFails
  <2>1. ConfigType'
    BY <1>7, <1>c DEF ImportFails
  <2>2. KeyringType'
    BY <1>7, SaveTypes DEF ImportFails
  <2>3. WizardType'
    BY <1>7, NoWizardType DEF ImportFails, NextName, WizardType, Names
  <2>4. NodeType'
    BY <1>7, <1>n DEF ImportFails
  <2>5. SetupType'
    BY <1>7, <1>s DEF ImportFails
  <2> QED
    BY <2>1, <2>2, <2>3, <2>4, <2>5
<1>8. CASE Abandon
  <2>1. ConfigType'
    BY <1>8, <1>c DEF Abandon
  <2>2. KeyringType'
    BY <1>8, SaveTypes DEF Abandon
  <2>3. WizardType'
    BY <1>8, NoWizardType DEF Abandon
  <2>4. NodeType'
    BY <1>8, <1>n DEF Abandon
  <2>5. SetupType'
    BY <1>8, <1>s DEF Abandon
  <2> QED
    BY <2>1, <2>2, <2>3, <2>4, <2>5
<1>9. CASE Load
  <2>1. ConfigType'
    BY <1>9, <1>c DEF Load
  <2>2. KeyringType'
    BY <1>9, <1>k DEF Load
  <2>3. WizardType'
    BY <1>9, <1>w DEF Load
  <2>4. NodeType'
    BY <1>9 DEF Load, Told, NodeType, ConfigType, SetupType, Setups
  <2>5. SetupType'
    BY <1>9, <1>s DEF Load
  <2> QED
    BY <2>1, <2>2, <2>3, <2>4, <2>5
<1>10. CASE Resolve
  <2>1. ConfigType'
    BY <1>10, <1>c DEF Resolve
  <2>2. KeyringType'
    BY <1>10, <1>k DEF Resolve
  <2>3. WizardType'
    BY <1>10, <1>w DEF Resolve
  <2>4. NodeType'
    BY <1>10 DEF Resolve, NodeType
  <2>5. SetupType'
    BY <1>10, <1>s DEF Resolve
  <2> QED
    BY <2>1, <2>2, <2>3, <2>4, <2>5
<1>11. CASE Stop
  <2>1. ConfigType'
    BY <1>11, <1>c DEF Stop
  <2>2. KeyringType'
    BY <1>11, <1>k DEF Stop
  <2>3. WizardType'
    BY <1>11, <1>w DEF Stop
  <2>4. NodeType'
    BY <1>11 DEF Stop, NodeType, NoDaemon
  <2>5. SetupType'
    BY <1>11, <1>s DEF Stop
  <2> QED
    BY <2>1, <2>2, <2>3, <2>4, <2>5
<1>12. CASE \E rpc \in Answers : AskEndpoint(rpc)
  <2>1. ConfigType'
    BY <1>12, <1>c DEF AskEndpoint
  <2>2. KeyringType'
    BY <1>12, <1>k DEF AskEndpoint
  <2>3. WizardType'
    BY <1>12 DEF AskEndpoint, WizardType
  <2>4. NodeType'
    BY <1>12, <1>n DEF AskEndpoint
  <2>5. SetupType'
    BY <1>12, <1>s DEF AskEndpoint
  <2> QED
    BY <2>1, <2>2, <2>3, <2>4, <2>5
<1>13. CASE \E key \in Keys : AskKey(key)
  <2>1. ConfigType'
    BY <1>13, <1>c DEF AskKey
  <2>2. KeyringType'
    BY <1>13, <1>k DEF AskKey
  <2>3. WizardType'
    BY <1>13, KeysAssumption DEF AskKey, WizardType
  <2>4. NodeType'
    BY <1>13, <1>n DEF AskKey
  <2>5. SetupType'
    BY <1>13, <1>s DEF AskKey
  <2> QED
    BY <2>1, <2>2, <2>3, <2>4, <2>5
<1>14. CASE \E skip \in BOOLEAN : Start(skip)
  <2>1. ConfigType'
    BY <1>14, <1>c DEF Start
  <2>2. KeyringType'
    BY <1>14, <1>k DEF Start
  <2>3. WizardType'
    BY <1>14, <1>w DEF Start
  <2>4. NodeType'
    BY <1>14 DEF Start, NodeType
  <2>5. SetupType'
    BY <1>14, <1>s DEF Start
  <2> QED
    BY <2>1, <2>2, <2>3, <2>4, <2>5
<1>15. CASE \E keyed \in BOOLEAN : Launch(keyed)
  <2>1. ConfigType'
    BY <1>15, <1>c DEF Launch
  <2>2. KeyringType'
    BY <1>15, <1>k DEF Launch
  <2>3. WizardType'
    BY <1>15, <1>w DEF Launch
  <2>4. NodeType'
    BY <1>15 DEF Launch, NodeType
  <2>5. SetupType'
    BY <1>15, <1>s DEF Launch
  <2> QED
    BY <2>1, <2>2, <2>3, <2>4, <2>5
<1>16. CASE \E c \in Commands : AddKey(c)
  <2>1. ConfigType'
    BY <1>16, <1>c DEF AddKey
  <2>2. KeyringType'
    BY <1>16, LoadKeysType, SaveTypes DEF AddKey, Processes
  <2>3. WizardType'
    BY <1>16, <1>w DEF AddKey
  <2>4. NodeType'
    BY <1>16, <1>n DEF AddKey
  <2>5. SetupType'
    BY <1>16, <1>s DEF AddKey
  <2> QED
    BY <2>1, <2>2, <2>3, <2>4, <2>5
<1>17. CASE \E p \in Processes : Truncate(p)
  <2>1. ConfigType'
    BY <1>17, <1>c DEF Truncate
  <2>2. KeyringType'
    BY <1>17, SaveTypes
  <2>3. WizardType'
    BY <1>17, <1>w DEF Truncate
  <2>4. NodeType'
    BY <1>17, <1>n DEF Truncate
  <2>5. SetupType'
    BY <1>17, <1>s DEF Truncate
  <2> QED
    BY <2>1, <2>2, <2>3, <2>4, <2>5
<1>18. CASE \E c \in Configs : Edit(c)
  <2>1. ConfigType'
    BY <1>18 DEF Edit, ConfigType
  <2>2. KeyringType'
    BY <1>18, <1>k DEF Edit
  <2>3. WizardType'
    BY <1>18, <1>w DEF Edit
  <2>4. NodeType'
    BY <1>18, <1>n DEF Edit
  <2>5. SetupType'
    BY <1>18 DEF Edit, SetupType
  <2> QED
    BY <2>1, <2>2, <2>3, <2>4, <2>5
<1>19. CASE UNCHANGED vars
  BY <1>19, <1>c, <1>k, <1>w, <1>n, <1>s DEF vars
<1> QED
  BY <1>1, <1>2, <1>3, <1>4, <1>5, <1>6, <1>7, <1>8, <1>9, <1>10, <1>11,
     <1>12, <1>13, <1>14, <1>15, <1>16, <1>17, <1>18, <1>19, NextActions

(* The types are kept; in particular a wizard past its key has one. *)
THEOREM TypeCorrect == Spec => []TypeOK
BY TypeInit, TypeStep, PTL DEF Spec

-----------------------------------------------------------------------------
(* A wizard that is saving has withdrawn the setup before it, and nobody   *)
(* else writes config.toml until it is done.                               *)
Saving ==
    /\ wiz.pc \in {"write", "import"} => setup = NotSetUp /\ exists
    /\ wiz.pc = "import" => conf.rpc = wiz.rpc
    /\ Changing("wizard") => wiz.pc = "import"

(* What a ring has to hold. *)
HasKey(r) == setup # NotSetUp => r[setup.name] = setup.key

(* Until two changes overlap or one is cut short, one process at most has  *)
(* keys.enc in hand; what it is about to write, and what is there while it *)
(* has not truncated the file, holds the key of the finished setup.        *)
KeyringSafe ==
    ~overlap =>
        /\ \A p, q \in Processes : Changing(p) /\ Changing(q) => p = q
        /\ torn <=> \E p \in Processes : adding[p].pc = "truncated"
        /\ torn \/ HasKey(ring)
        /\ \A p \in Processes : Changing(p) => HasKey(adding[p].copy)
        /\ Changing("wizard") => adding["wizard"].copy[wiz.name] = wiz.key

ConfigStored == setup # NotSetUp => exists /\ conf.rpc = setup.rpc

SetupInv == TypeOK /\ Saving /\ KeyringSafe /\ ConfigStored /\ SetupIsUsed

LEMMA StoredFollows == SetupInv => SetupIsStored
<1>1. SUFFICES ASSUME SetupInv, setup # NotSetUp, ~overlap
               PROVE  Saved(setup.name, setup.key)
  BY DEF SetupIsStored, SetupInv, ConfigStored
<1> QED
  BY <1>1 DEF SetupInv, KeyringSafe, HasKey, Saved, Changing

LEMMA SetupInit == Init => SetupInv
<1> SUFFICES ASSUME Init PROVE SetupInv
  OBVIOUS
<1>1. \A p \in Processes : adding[p].pc = "idle"
  BY DEF Init, NotAdding
<1>2. Saving
  BY <1>1, Defaults DEF Init, Saving, Changing, NoWizard
<1>3. KeyringSafe
  BY <1>1, Defaults DEF Init, KeyringSafe, Changing, HasKey
<1> QED
  BY <1>2, <1>3, TypeInit
     DEF Init, SetupInv, ConfigStored, SetupIsUsed, NoDaemon

(* What an action leaves of KeyringSafe that touches no key, and forgets   *)
(* the setup if it touches it at all.                                      *)
LEMMA QuietKeyring ==
    ASSUME KeyringSafe, UNCHANGED keyring,
           setup' = setup \/ setup' = NotSetUp,
           Changing("wizard") => wiz'.name = wiz.name /\ wiz'.key = wiz.key
    PROVE  KeyringSafe'
BY DEF KeyringSafe, keyring, Changing, HasKey

LEMMA LoadKeepsKeys ==
    ASSUME TypeOK, KeyringSafe,
           NEW p \in Processes, NEW n \in Names, NEW key \in Keys,
           LoadKeys(p, n, key), UNCHANGED <<wiz, setup>>,
           p = "wizard" => n = wiz.name /\ key = wiz.key /\ setup = NotSetUp
    PROVE  KeyringSafe'
<1> SUFFICES ASSUME ~overlap' PROVE KeyringSafe'
  BY DEF KeyringSafe
<1> DEFINE copy == [ring EXCEPT ![n] = key]
<1>1. /\ ~torn /\ ring[n] = NoKey /\ ring' = ring /\ torn' = torn
      /\ \A q \in Processes \ {p} : ~Changing(q)
      /\ adding[p].pc = "idle"
      /\ p # "wizard" => ~overlap
  BY DEF LoadKeys, Overlaps
<1>2. /\ adding'[p].pc = "loaded" /\ adding'[p].copy = copy
      /\ \A q \in Processes \ {p} : adding'[q] = adding[q]
  BY DEF LoadKeys, TypeOK
<1>3. \A q \in Processes : Changing(q)' => q = p
  BY <1>1, <1>2 DEF Changing
<1>4. \A q \in Processes : adding'[q].pc # "truncated"
  BY <1>1, <1>2 DEF Changing
<1>5. HasKey(ring) /\ HasKey(copy)
  <2>1. CASE setup = NotSetUp
    BY <2>1 DEF HasKey
  <2>2. CASE setup # NotSetUp
    <3>1. HasKey(ring)
      BY <1>1, <2>2 DEF KeyringSafe
    <3>2. setup.name \in Names /\ setup.key \in Keys
      BY <2>2 DEF TypeOK, Setups
    <3>3. setup.name # n
      BY <1>1, <3>1, <3>2, <2>2, KeysAssumption DEF HasKey
    <3>4. copy[setup.name] = ring[setup.name]
      BY <3>2, <3>3 DEF TypeOK, Rings
    <3> QED
      BY <3>1, <3>4 DEF HasKey
  <2> QED
    BY <2>1, <2>2
<1>6. HasKey(ring)' /\ HasKey(adding[p].copy)'
  BY <1>1, <1>2, <1>5 DEF HasKey
<1>7. Changing("wizard")' => (adding["wizard"].copy[wiz.name] = wiz.key)'
  <2>1. SUFFICES ASSUME p = "wizard"
                 PROVE  adding'["wizard"].copy[wiz.name] = wiz.key
    BY <1>3, Defaults
  <2>2. copy[n] = key
    BY DEF TypeOK, Rings
  <2> QED
    BY <1>2, <2>1, <2>2
<1> QED
  BY <1>1, <1>3, <1>4, <1>6, <1>7 DEF KeyringSafe

LEMMA TruncateKeepsKeys ==
    ASSUME TypeOK, KeyringSafe, NEW p \in Processes, Truncate(p)
    PROVE  KeyringSafe'
<1> SUFFICES ASSUME ~overlap' PROVE KeyringSafe'
  BY DEF KeyringSafe
<1>1. ~overlap /\ torn' /\ wiz' = wiz /\ setup' = setup /\ Changing(p)
  BY DEF Truncate, Changing
<1>2. /\ adding'[p].pc = "truncated" /\ adding'[p].copy = adding[p].copy
      /\ \A q \in Processes \ {p} : adding'[q] = adding[q]
  BY DEF Truncate, TypeOK
<1>3. \A q \in Processes : Changing(q)' <=> Changing(q)
  BY <1>1, <1>2 DEF Changing
<1>4. \A q \in Processes : adding'[q].copy = adding[q].copy
  BY <1>2
<1> QED
  BY <1>1, <1>2, <1>3, <1>4, Defaults DEF KeyringSafe, HasKey

LEMMA WriteKeepsKeys ==
    ASSUME TypeOK, KeyringSafe, NEW p \in Processes, WriteKeys(p),
           setup' # NotSetUp => adding[p].copy[setup'.name] = setup'.key
    PROVE  KeyringSafe'
<1> SUFFICES ASSUME ~overlap' PROVE KeyringSafe'
  BY DEF KeyringSafe
<1>1. ~overlap /\ Changing(p) /\ torn
  BY DEF WriteKeys, Changing, KeyringSafe
<1>2. /\ adding'[p] = NotAdding
      /\ \A q \in Processes \ {p} : adding'[q] = adding[q]
  BY DEF WriteKeys, TypeOK
<1>3. \A q \in Processes : ~Changing(q)'
  BY <1>1, <1>2 DEF Changing, KeyringSafe, NotAdding
<1>4. ring' = adding[p].copy /\ ~torn'
  BY <1>1 DEF WriteKeys
<1> QED
  BY <1>3, <1>4, Defaults DEF KeyringSafe, HasKey, Changing

LEMMA GiveUpKeepsKeys ==
    ASSUME TypeOK, KeyringSafe, NEW p \in Processes, GiveUp(p), setup' = setup,
           p = "wizard" \/ wiz' = wiz
    PROVE  KeyringSafe'
<1> SUFFICES ASSUME ~overlap' PROVE KeyringSafe'
  BY DEF KeyringSafe
<1>1. /\ ~overlap /\ adding[p].pc # "truncated"
      /\ ring' = ring /\ torn' = torn
  BY DEF GiveUp
<1>2. /\ adding'[p] = NotAdding
      /\ \A q \in Processes \ {p} : adding'[q] = adding[q]
  BY DEF GiveUp, TypeOK
<1>3. ~Changing(p)'
  BY <1>2 DEF Changing, NotAdding
<1>4. \A q \in Processes \ {p} : Changing(q)' <=> Changing(q)
  BY <1>2 DEF Changing
<1>5. \A q \in Processes :
          adding'[q].pc = "truncated" <=> adding[q].pc = "truncated"
  BY <1>1, <1>2 DEF NotAdding
<1>6. \A q \in Processes : Changing(q)' =>
          /\ q # p /\ Changing(q) /\ adding'[q].copy = adding[q].copy
  BY <1>2, <1>3, <1>4
<1>7. Changing("wizard")' => wiz' = wiz
  BY <1>3
<1> QED
  BY <1>1, <1>5, <1>6, <1>7, Defaults DEF KeyringSafe, HasKey

LEMMA CutShortKeepsKeys ==
    ASSUME NEW p \in Processes, CutShort(p)
    PROVE  KeyringSafe'
BY DEF CutShort, KeyringSafe

LEMMA KeyringStep == SetupInv /\ [Next]_vars => KeyringSafe'
<1> SUFFICES ASSUME SetupInv, [Next]_vars PROVE KeyringSafe'
  OBVIOUS
<1>t. TypeOK /\ KeyringSafe /\ Saving
  BY DEF SetupInv
<1>w. wiz.pc # "import" => ~Changing("wizard")
  BY <1>t DEF Saving
<1>1. CASE Onboard
  BY <1>1, <1>t, <1>w, QuietKeyring DEF Onboard
<1>2. CASE CreateConfig
  BY <1>2, <1>t, <1>w, QuietKeyring DEF CreateConfig
<1>3. CASE WriteConfig
  BY <1>3, <1>t, <1>w, QuietKeyring DEF WriteConfig
<1>4. CASE WriteConfigFails
  BY <1>4, <1>t, <1>w, QuietKeyring DEF WriteConfigFails
<1>5. CASE ImportLoads
  <2>1. /\ wiz.name \in Names /\ wiz.key \in Keys /\ setup = NotSetUp
        /\ LoadKeys("wizard", wiz.name, wiz.key) /\ UNCHANGED <<wiz, setup>>
    BY <1>5, <1>t DEF ImportLoads, TypeOK, Saving
  <2> QED
    BY <2>1, <1>t, LoadKeepsKeys, Defaults
<1>6. CASE Imported
  <2>1. WriteKeys("wizard") /\ setup' = Finished /\ Changing("wizard")
    BY <1>6 DEF Imported, WriteKeys, Changing
  <2>2. CASE overlap
    BY <2>1, <2>2 DEF WriteKeys, KeyringSafe
  <2>3. CASE ~overlap
    <3>1. adding["wizard"].copy[wiz.name] = wiz.key
      BY <2>1, <2>3, <1>t DEF KeyringSafe
    <3>2. setup'.name = wiz.name /\ setup'.key = wiz.key
      BY <2>1 DEF Finished
    <3> QED
      BY <2>1, <3>1, <3>2, <1>t, WriteKeepsKeys, Defaults
  <2> QED
    BY <2>2, <2>3
<1>7. CASE ImportFails
  BY <1>7, <1>t, GiveUpKeepsKeys, CutShortKeepsKeys, Defaults DEF ImportFails
<1>8. CASE Abandon
  BY <1>8, <1>t, GiveUpKeepsKeys, CutShortKeepsKeys, Defaults DEF Abandon
<1>9. CASE Load
  BY <1>9, <1>t, QuietKeyring DEF Load
<1>10. CASE Resolve
  BY <1>10, <1>t, QuietKeyring DEF Resolve
<1>11. CASE Stop
  BY <1>11, <1>t, QuietKeyring DEF Stop
<1>12. CASE \E rpc \in Answers : AskEndpoint(rpc)
  BY <1>12, <1>t, <1>w, QuietKeyring DEF AskEndpoint
<1>13. CASE \E key \in Keys : AskKey(key)
  BY <1>13, <1>t, <1>w, QuietKeyring DEF AskKey
<1>14. CASE \E skip \in BOOLEAN : Start(skip)
  BY <1>14, <1>t, QuietKeyring DEF Start
<1>15. CASE \E keyed \in BOOLEAN : Launch(keyed)
  BY <1>15, <1>t, QuietKeyring DEF Launch
<1>16. CASE \E c \in Commands : AddKey(c)
  <2>1. PICK c \in Commands : AddKey(c)
    BY <1>16
  <2>2. /\ c \in Processes /\ c # "wizard"
        /\ UNCHANGED wiz /\ UNCHANGED setup
    BY <2>1, CommandsAssumption DEF Processes, AddKey
  <2>3. ASSUME NEW n \in Names, NEW key \in Keys, LoadKeys(c, n, key)
        PROVE  KeyringSafe'
    BY <2>2, <2>3, <1>t, LoadKeepsKeys
  <2>4. CASE WriteKeys(c)
    <3>1. CASE overlap
      BY <3>1, <2>4 DEF WriteKeys, KeyringSafe
    <3>2. CASE ~overlap
      <4>1. HasKey(adding[c].copy)
        BY <2>2, <2>4, <3>2, <1>t DEF WriteKeys, Changing, KeyringSafe
      <4> QED
        BY <2>2, <2>4, <4>1, <1>t, WriteKeepsKeys DEF HasKey
    <3> QED
      BY <3>1, <3>2
  <2>5. CASE CutShort(c)
    BY <2>2, <2>5, CutShortKeepsKeys
  <2>6. CASE GiveUp(c)
    BY <2>2, <2>6, <1>t, GiveUpKeepsKeys
  <2> QED
    BY <2>1, <2>3, <2>4, <2>5, <2>6 DEF AddKey
<1>17. CASE \E p \in Processes : Truncate(p)
  BY <1>17, <1>t, TruncateKeepsKeys
<1>18. CASE \E c \in Configs : Edit(c)
  BY <1>18, <1>t, QuietKeyring DEF Edit
<1>19. CASE UNCHANGED vars
  BY <1>19, <1>t, QuietKeyring DEF vars
<1> QED
  BY <1>1, <1>2, <1>3, <1>4, <1>5, <1>6, <1>7, <1>8, <1>9, <1>10, <1>11,
     <1>12, <1>13, <1>14, <1>15, <1>16, <1>17, <1>18, <1>19, NextActions

(* What the steps of adding a key do to the place of the wizard in it.     *)
LEMMA WizardAdds ==
    ASSUME TypeOK, NEW p \in Processes
    PROVE  /\ Truncate(p) => (Changing("wizard")' <=> Changing("wizard"))
           /\ WriteKeys(p) \/ CutShort(p) \/ GiveUp(p) =>
                 /\ Changing("wizard")' => Changing("wizard")
                 /\ p = "wizard" => ~Changing("wizard")'
<1>0. adding \in [Processes -> [pc : {"idle", "loaded", "truncated"},
                               copy : Rings]]
  BY DEF TypeOK
<1>1. /\ Truncate(p) => /\ adding[p].pc = "loaded"
                        /\ adding'[p].pc = "truncated"
      /\ WriteKeys(p) \/ CutShort(p) \/ GiveUp(p) => adding'[p].pc = "idle"
  <2>1. Truncate(p) =>
            adding[p].pc = "loaded" /\ adding'[p].pc = "truncated"
    BY <1>0 DEF Truncate
  <2>2. WriteKeys(p) \/ CutShort(p) \/ GiveUp(p) => adding'[p] = NotAdding
    BY <1>0 DEF WriteKeys, CutShort, GiveUp
  <2> QED
    BY <2>1, <2>2 DEF NotAdding
<1>2. Truncate(p) \/ WriteKeys(p) \/ CutShort(p) \/ GiveUp(p) =>
          (p # "wizard" => adding'["wizard"] = adding["wizard"])
  BY <1>0, Defaults DEF Truncate, WriteKeys, CutShort, GiveUp
<1> QED
  BY <1>1, <1>2 DEF Changing

LEMMA CommandsAdd ==
    ASSUME TypeOK, NEW c \in Commands, AddKey(c)
    PROVE  Changing("wizard")' => Changing("wizard")
<1>1. c \in Processes /\ c # "wizard"
  BY CommandsAssumption DEF Processes
<1>2. ASSUME NEW n \in Names, NEW key \in Keys, LoadKeys(c, n, key)
      PROVE  adding'["wizard"] = adding["wizard"]
  BY <1>1, <1>2, Defaults DEF LoadKeys, TypeOK
<1> QED
  BY <1>1, <1>2, WizardAdds DEF AddKey, Changing

LEMMA ConfigStep ==
    SetupInv /\ [Next]_vars => ConfigStored' /\ Saving' /\ SetupIsUsed'
<1> SUFFICES ASSUME TypeOK, Saving, ConfigStored, SetupIsUsed, [Next]_vars
             PROVE  ConfigStored' /\ Saving' /\ SetupIsUsed'
  BY DEF SetupInv
<1>w. UNCHANGED keyring => (Changing("wizard")' <=> Changing("wizard"))
  BY DEF keyring, Changing
<1>t. /\ wiz \in [pc : {"idle", "endpoint", "key", "save", "write", "import"},
                  rpc : Answers, key : Keys \cup {NoKey}, name : Names]
      /\ node \in [pc : {"down", "load", "resolve", "launch", "up"},
                   conf : Configs, keyed : BOOLEAN, told : SUBSET Answers]
      /\ setup # NotSetUp => setup \in Setups
  BY DEF TypeOK
<1> HIDE DEF Changing
<1> USE <1>w, <1>t DEF Saving, ConfigStored, SetupIsUsed, config, NoWizard
<1>1. CASE Onboard
  BY <1>1 DEF Onboard
<1>2. CASE CreateConfig
  BY <1>2 DEF CreateConfig
<1>3. CASE WriteConfig
  BY <1>3 DEF WriteConfig, Written, Default
<1>4. CASE WriteConfigFails
  BY <1>4 DEF WriteConfigFails, Written, Default
<1>5. CASE ImportLoads
  BY <1>5 DEF ImportLoads
<1>6. CASE Imported
  <2>1. ~Changing("wizard")'
    BY <1>6, WizardAdds, Defaults DEF Imported
  <2>2. setup'.rpc = wiz.rpc /\ wiz'.pc = "idle"
    BY <1>6 DEF Imported, Finished
  <2>3. exists' = exists /\ conf' = conf /\ node' = node
    BY <1>6 DEF Imported
  <2>4. wiz.pc = "import"
    BY <1>6 DEF Imported
  <2> QED
    BY <2>1, <2>2, <2>4, <2>3
<1>7. CASE ImportFails
  <2>1. ~Changing("wizard")'
    BY <1>7, WizardAdds, Defaults DEF ImportFails
  <2>2. wiz'.pc = "import" => wiz'.rpc = wiz.rpc
    <3>1. NextName
      BY <1>7 DEF ImportFails
    <3>2. CASE wiz' = NoWizard
      BY <3>2
    <3>3. CASE \E n \in Suffixed : wiz' = [wiz EXCEPT !.name = n]
      BY <3>3
    <3> QED
      BY <3>1, <3>2, <3>3 DEF NextName
  <2>3. setup' = setup /\ conf' = conf /\ node' = node
    BY <1>7 DEF ImportFails
  <2>4. exists' = exists
    BY <1>7 DEF ImportFails
  <2>5. wiz.pc = "import"
    BY <1>7 DEF ImportFails
  <2>6. /\ setup' = NotSetUp /\ exists'
        /\ wiz'.pc = "import" => conf'.rpc = wiz'.rpc
    <3>1. exists'
      BY <2>5, <2>4
    <3>2. setup = NotSetUp /\ conf.rpc = wiz.rpc
      BY <2>5
    <3>3. setup' = NotSetUp /\ (wiz'.pc = "import" => conf'.rpc = wiz'.rpc)
      BY <2>2, <2>3, <3>2
    <3> QED
      BY <3>1, <3>3
  <2>7. SetupIsUsed'
    BY <2>3
  <2> QED
    BY <2>1, <2>2, <2>6, <2>7
<1>8. CASE Abandon
  <2>1. ~Changing("wizard")'
    BY <1>8, WizardAdds, Defaults DEF Abandon
  <2> QED
    BY <1>8, <2>1 DEF Abandon
<1>9. CASE Load
  BY <1>9 DEF Load, Told
<1>10. CASE Resolve
  BY <1>10 DEF Resolve
<1>11. CASE Stop
  BY <1>11 DEF Stop, NoDaemon
<1>12. CASE \E rpc \in Answers : AskEndpoint(rpc)
  BY <1>12 DEF AskEndpoint
<1>13. CASE \E key \in Keys : AskKey(key)
  BY <1>13 DEF AskKey
<1>14. CASE \E skip \in BOOLEAN : Start(skip)
  BY <1>14 DEF Start
<1>15. CASE \E keyed \in BOOLEAN : Launch(keyed)
  BY <1>15 DEF Launch
<1>16. CASE \E c \in Commands : AddKey(c)
  <2>1. Changing("wizard")' => Changing("wizard")
    BY <1>16, CommandsAdd
  <2>2. UNCHANGED <<config, wiz, node, setup>>
    BY <1>16 DEF AddKey
  <2> QED
    BY <2>1, <2>2
<1>17. CASE \E p \in Processes : Truncate(p)
  <2>1. Changing("wizard")' <=> Changing("wizard")
    BY <1>17, WizardAdds
  <2>2. UNCHANGED <<config, wiz, node, setup>>
    BY <1>17 DEF Truncate
  <2> QED
    BY <2>1, <2>2
<1>18. CASE \E c \in Configs : Edit(c)
  BY <1>18 DEF Edit
<1>19. CASE UNCHANGED vars
  BY <1>19 DEF vars
<1> QED
  BY <1>1, <1>2, <1>3, <1>4, <1>5, <1>6, <1>7, <1>8, <1>9, <1>10, <1>11,
     <1>12, <1>13, <1>14, <1>15, <1>16, <1>17, <1>18, <1>19, NextActions

LEMMA SetupAlways == Spec => []SetupInv
<1>1. SetupInv /\ [Next]_vars => SetupInv'
  BY TypeStep, KeyringStep, ConfigStep DEF SetupInv
<1> QED
  BY <1>1, SetupInit, PTL DEF Spec

(* What a finished wizard was told is in config.toml until the file is     *)
(* edited or written by another wizard, and its key is in the keyring      *)
(* until two processes that change the keys overlap, the wizard's own      *)
(* change included, or the save of one is cut short.                       *)
THEOREM StoredUntilReplaced == Spec => []SetupIsStored
BY StoredFollows, SetupAlways, PTL

(* A daemon started on a finished setup runs with its endpoint. *)
THEOREM UsedAsStored == Spec => []SetupIsUsed
<1>1. SetupInv => SetupIsUsed
  BY DEF SetupInv
<1> QED
  BY <1>1, SetupAlways, PTL

=============================================================================
