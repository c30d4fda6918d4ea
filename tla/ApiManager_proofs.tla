------------------------- MODULE ApiManager_proofs -------------------------
(***************************************************************************)
(* Theorems about ApiManager, for any providers, keys and rate limits, any *)
(* depth of nested queries and any number of switches of the encryption.   *)
(***************************************************************************)
EXTENDS ApiManager, FiniteSetTheorems, SequenceTheorems, TLAPS

\* The steps, one case each, for every proof that goes through them.
LEMMA Steps ==
  ASSUME [Next]_vars
  PROVE  \/ instance \/ destroyInstance \/ exit
         \/ \E p \in Providers, k \in Keys \union {NoKey}, limit \in Limits :
              setApiConfig(p, k, limit)
         \/ \E p \in Providers : removeApiConfig(p)
         \/ \E enable \in BOOLEAN : enableApiKeyEncryption(enable)
         \/ \E p \in Providers : testConnection(p)
         \/ tick
         \/ onConnectionTestTimeout
         \/ \E p \in Providers : queryModel(p)
         \/ queryReturns
         \/ \E p \in Providers : onRateLimitReset(p)
         \/ UNCHANGED vars
BY Zenon DEF Next, Life, Configure, Test, TestTimer, Query

-----------------------------------------------------------------------------
(***************************************************************************)
(* Types, group by group.                                                  *)
(***************************************************************************)
ConfigTypes ==
  /\ configurations \in [Providers -> Config]
  /\ encryptionEnabled \in BOOLEAN
  /\ settings \in [encryption : BOOLEAN, groups : [Named -> Config]]
  /\ toggles \in 0 .. MaxToggles
  /\ given \in [Providers -> Keys \union {NoKey, Absent}]
  /\ garbled \subseteq Providers

TestTypes ==
  /\ status \in [Providers -> {"NotConfigured", "Connected", "Failed"}]
  /\ activeRequests \subseteq Providers
  /\ testTimer \in TestTimers

QueryTypes ==
  /\ queries \in Seq(Providers) /\ Len(queries) <= MaxNested
  /\ requestCounts \in [Providers -> Nat]
  /\ rateTimers \subseteq Timed
  /\ nested \subseteq Providers
  /\ highest \in [Providers -> Nat]

LEMMA TypesTogether ==
  TypeOK <=> ConfigTypes /\ TestTypes /\ QueryTypes /\ phase \in Phases
BY Zenon DEF TypeOK, ConfigTypes, TestTypes, QueryTypes

LEMMA LayersType ==
  ASSUME NEW e, NEW k PROVE Layers(e, k) \in Nat
BY SMT DEF Layers

LEMMA StoredType ==
  ASSUME NEW k \in Keys \union {NoKey, Blank, Absent}, NEW n \in Nat, NEW limit \in Nat
  PROVE  Stored(k, n, limit) \in Config
BY SMT DEF Stored, Config

\* What a save writes is typed if what it writes from is.
LEMMA SaveType ==
  ASSUME ConfigTypes, Save,
         configurations' \in [Providers -> Config],
         encryptionEnabled' \in BOOLEAN
  PROVE  settings' \in [encryption : BOOLEAN, groups : [Named -> Config]]
<1> DEFINE row(p) == IF configurations'[p].key # Absent THEN configurations'[p]
                                                       ELSE settings.groups[p]
<1>1. ASSUME NEW p \in Named PROVE row(p) \in Config
  <2>1. p \in Providers
    BY ConstantsAssumption
  <2>2. configurations'[p] \in Config
    BY <2>1
  <2>3. settings.groups[p] \in Config
    BY SMT DEF ConfigTypes
  <2> QED
    BY <2>2, <2>3, Zenon
<1>2. settings' = [encryption |-> encryptionEnabled',
                   groups |-> [p \in Named |-> row(p)]]
  BY Zenon DEF Save
<1> HIDE DEF row
<1>3. [p \in Named |-> row(p)] \in [Named -> Config]
  BY <1>1, Zenon
<1> QED
  BY <1>2, <1>3, SMT

LEMMA ConfigTypesStep ==
  ASSUME ConfigTypes, [Next]_vars, TestTypes
  PROVE  ConfigTypes'
<1> USE ConstantsAssumption
<1>0. /\ configurations \in [Providers -> Config]
      /\ encryptionEnabled \in BOOLEAN
      /\ settings \in [encryption : BOOLEAN, groups : [Named -> Config]]
      /\ toggles \in 0 .. MaxToggles
      /\ given \in [Providers -> Keys \union {NoKey, Absent}]
      /\ garbled \subseteq Providers
  BY DEF ConfigTypes
<1>n. Nothing \in Config
  BY StoredType DEF Nothing
<1>u. ASSUME UNCHANGED configVars PROVE ConfigTypes'
  BY <1>0, <1>u, Zenon DEF configVars, ConfigTypes
<1>1. CASE instance
  <2> DEFINE row(p) == IF p \in Named THEN settings.groups[p] ELSE Nothing
  <2>1. ASSUME NEW p \in Providers PROVE row(p) \in Config
    BY <1>0, <1>n, SMT
  <2>2. configurations' = [p \in Providers |-> row(p)]
    BY <1>1, Zenon DEF instance
  <2> HIDE DEF row
  <2>3. configurations' \in [Providers -> Config]
    BY <2>1, <2>2, Zenon
  <2>4. encryptionEnabled' \in BOOLEAN
    BY <1>0, <1>1, SMT DEF instance
  <2>5. garbled' \subseteq Providers
    BY <1>0, <1>1, SMT DEF instance, Returning
  <2> QED
    BY <1>0, <1>1, <2>3, <2>4, <2>5, Zenon DEF instance, ConfigTypes
<1>2. CASE destroyInstance
  <2>1. /\ configurations' \in [Providers -> Config]
        /\ encryptionEnabled' \in BOOLEAN
    BY <1>0, <1>2, Zenon DEF destroyInstance
  <2>2. settings' \in [encryption : BOOLEAN, groups : [Named -> Config]]
    BY <1>2, <2>1, SaveType DEF destroyInstance
  <2> QED
    BY <1>0, <1>2, <2>1, <2>2, Zenon DEF destroyInstance, ConfigTypes
<1>3. CASE exit
  BY <1>3, <1>u DEF exit
<1>4. ASSUME NEW p \in Providers, NEW k \in Keys \union {NoKey},
             NEW limit \in Limits, setApiConfig(p, k, limit)
      PROVE  ConfigTypes'
  <2>1. Stored(k, Layers(encryptionEnabled, k), limit) \in Config
    BY StoredType, LayersType
  <2>2. /\ configurations' \in [Providers -> Config]
        /\ encryptionEnabled' \in BOOLEAN
    BY <1>0, <1>4, <2>1, Zenon DEF setApiConfig
  <2>3. settings' \in [encryption : BOOLEAN, groups : [Named -> Config]]
    BY <1>4, <2>2, SaveType DEF setApiConfig
  <2>4. given' \in [Providers -> Keys \union {NoKey, Absent}]
    BY <1>0, <1>4, SMT DEF setApiConfig
  <2>5. garbled' \subseteq Providers /\ toggles' \in 0 .. MaxToggles
    BY <1>0, <1>4 DEF setApiConfig
  <2> QED
    BY <2>2, <2>3, <2>4, <2>5, Zenon DEF ConfigTypes
<1>5. ASSUME NEW p \in Providers, removeApiConfig(p) PROVE ConfigTypes'
  <2>2. /\ configurations' \in [Providers -> Config]
        /\ encryptionEnabled' \in BOOLEAN
    BY <1>0, <1>5, <1>n, Zenon DEF removeApiConfig
  <2>3. settings' \in [encryption : BOOLEAN, groups : [Named -> Config]]
    BY <1>5, <2>2, SaveType DEF removeApiConfig
  <2>4. given' \in [Providers -> Keys \union {NoKey, Absent}]
    BY <1>0, <1>5, SMT DEF removeApiConfig
  <2>5. garbled' \subseteq Providers /\ toggles' \in 0 .. MaxToggles
    BY <1>0, <1>5 DEF removeApiConfig
  <2> QED
    BY <2>2, <2>3, <2>4, <2>5, Zenon DEF ConfigTypes
<1>6. ASSUME NEW enable \in BOOLEAN, enableApiKeyEncryption(enable)
      PROVE  ConfigTypes'
  <2> DEFINE row(p) == IF enable /\ HasKey(configurations[p])
                         THEN [configurations[p] EXCEPT !.layers = @ + 1]
                         ELSE configurations[p]
  <2>1. ASSUME NEW p \in Providers PROVE row(p) \in Config
    BY <1>0, SMT DEF Config
  <2>2. configurations' = [p \in Providers |-> row(p)]
    BY <1>6, Zenon DEF enableApiKeyEncryption
  <2> HIDE DEF row
  <2>3. /\ configurations' \in [Providers -> Config]
        /\ encryptionEnabled' \in BOOLEAN
    BY <1>6, <2>1, <2>2, Zenon DEF enableApiKeyEncryption
  <2>4. settings' \in [encryption : BOOLEAN, groups : [Named -> Config]]
    BY <1>6, <2>3, SaveType DEF enableApiKeyEncryption
  <2>5. garbled' \subseteq Providers
    BY <1>0, <1>6, SMT DEF enableApiKeyEncryption
  <2>6. toggles' \in 0 .. MaxToggles
    BY <1>0, <1>6, SMT DEF enableApiKeyEncryption
  <2>7. given' \in [Providers -> Keys \union {NoKey, Absent}]
    BY <1>0, <1>6, Zenon DEF enableApiKeyEncryption
  <2> QED
    BY <2>3, <2>4, <2>5, <2>6, <2>7, Zenon DEF ConfigTypes
<1>7. CASE onConnectionTestTimeout
  <2> DEFINE row(p) == IF p \in activeRequests /\ ~Configured(p)
                         THEN Stored(Blank, 0, 0) ELSE configurations[p]
  <2>1. ASSUME NEW p \in Providers PROVE row(p) \in Config
    <3>1. Stored(Blank, 0, 0) \in Config
      BY StoredType
    <3> QED
      BY <1>0, <3>1, Zenon
  <2>2. configurations' = [p \in Providers |-> row(p)]
    BY <1>7, Zenon DEF onConnectionTestTimeout
  <2> HIDE DEF row
  <2>3. configurations' \in [Providers -> Config]
    BY <2>1, <2>2, Zenon
  <2>4. garbled' \subseteq Providers
    BY <1>0, <1>7, SMT DEF onConnectionTestTimeout, TestTypes
  <2> QED
    BY <1>0, <1>7, <2>3, <2>4, Zenon DEF onConnectionTestTimeout, ConfigTypes
<1>8. ASSUME NEW p \in Providers,
             testConnection(p) \/ queryModel(p) \/ onRateLimitReset(p)
      PROVE  ConfigTypes'
  BY <1>8, <1>u DEF testConnection, queryModel, onRateLimitReset
<1>9. CASE queryReturns \/ tick \/ UNCHANGED vars
  BY <1>9, <1>u DEF queryReturns, tick, vars
<1> QED
  BY <1>1, <1>2, <1>3, <1>4, <1>5, <1>6, <1>7, <1>8, <1>9, Steps, Zenon


LEMMA TestTypesStep ==
  ASSUME TestTypes, ConfigTypes, [Next]_vars
  PROVE  TestTypes'
<1> DEFINE States == {"NotConfigured", "Connected", "Failed"}
<1>0. /\ status \in [Providers -> States]
      /\ activeRequests \subseteq Providers
      /\ testTimer \in TestTimers
  BY DEF TestTypes
<1>u. ASSUME UNCHANGED testVars PROVE TestTypes'
  BY <1>0, <1>u, Zenon DEF testVars, TestTypes
<1>1. CASE instance
  BY <1>0, <1>1, Zenon DEF instance, TestTypes
<1>2. CASE destroyInstance \/ exit
  <2>1. status' = status /\ activeRequests' = {} /\ testTimer' = "off"
    BY <1>2 DEF destroyInstance, exit, Gone
  <2>2. activeRequests' \subseteq Providers /\ testTimer' \in TestTimers
    BY <2>1 DEF TestTimers
  <2> QED
    BY <1>0, <2>1, <2>2, Zenon DEF TestTypes
<1>3. ASSUME NEW p \in Providers, NEW k, NEW limit,
             setApiConfig(p, k, limit) \/ removeApiConfig(p)
      PROVE  TestTypes'
  BY <1>0, <1>3, SMT DEF setApiConfig, removeApiConfig, TestTypes
<1>4. ASSUME NEW enable, enableApiKeyEncryption(enable) PROVE TestTypes'
  BY <1>4, <1>u DEF enableApiKeyEncryption
<1>5. ASSUME NEW p \in Providers, testConnection(p) PROVE TestTypes'
  <2>1. activeRequests' \subseteq Providers
    BY <1>0, <1>5 DEF testConnection
  <2>2. testTimer' \in TestTimers /\ status' = status
    BY <1>5, Zenon DEF testConnection, TestTimers
  <2> QED
    BY <1>0, <2>1, <2>2, Zenon DEF TestTypes
<1>6. CASE onConnectionTestTimeout
  <2>1. status' \in [Providers -> States]
    <3>1. PICK told : status' = [p \in Providers |-> IF p \in told THEN "Failed"
                                                            ELSE status[p]]
      BY <1>6, Zenon DEF onConnectionTestTimeout
    <3> QED
      BY <1>0, <3>1, SMT
  <2>2. testTimer' \in TestTimers /\ activeRequests' = {}
    BY <1>6, Zenon DEF onConnectionTestTimeout, TestTimers
  <2>3. activeRequests' \subseteq Providers
    BY <2>2
  <2> QED
    BY <2>1, <2>2, <2>3, Zenon DEF TestTypes
<1>7. ASSUME NEW p \in Providers, queryModel(p) \/ onRateLimitReset(p)
      PROVE  TestTypes'
  BY <1>7, <1>u DEF queryModel, onRateLimitReset
<1>8. CASE queryReturns \/ UNCHANGED vars
  BY <1>8, <1>u DEF queryReturns, vars
<1>9. CASE tick
  BY <1>0, <1>9, Zenon DEF tick, TestTimers, TestTypes
<1> QED
  BY <1>1, <1>2, <1>3, <1>4, <1>5, <1>6, <1>7, <1>8, <1>9, Steps, Zenon

\* What taking off the innermost query leaves.
LEMMA FrontProperties ==
  ASSUME NEW q \in Seq(Providers), q # <<>>
  PROVE  /\ Front(q) \in Seq(Providers)
         /\ Len(Front(q)) = Len(q) - 1
         /\ \A i \in 1 .. Len(q) - 1 : Front(q)[i] = q[i]
         /\ Len(q) \in 1 .. Len(q)
         /\ Last(q) \in Providers
<1>1. Len(q) \in Nat \ {0}
  BY EmptySeq, LenProperties
<1>2. \A i \in 1 .. Len(q) : q[i] \in Providers
  BY ElementOfSeq
<1>3. /\ SubSeq(q, 1, Len(q) - 1) \in Seq(Providers)
      /\ Len(SubSeq(q, 1, Len(q) - 1)) =
           IF 1 <= Len(q) - 1 THEN (Len(q) - 1) - 1 + 1 ELSE 0
      /\ \A i \in 1 .. (Len(q) - 1) - 1 + 1 :
           SubSeq(q, 1, Len(q) - 1)[i] = q[1 + i - 1]
  <2>1. \A i \in 1 .. Len(q) - 1 : q[i] \in Providers
    BY <1>1, <1>2
  <2>2. 1 \in Int /\ Len(q) - 1 \in Int
    BY <1>1
  <2> QED
    BY <2>1, <2>2, SubSeqProperties
<1>4. Front(q) = SubSeq(q, 1, Len(q) - 1) /\ Last(q) = q[Len(q)]
  BY Zenon DEF Front, Last
<1>5. Len(q) \in 1 .. Len(q)
  BY <1>1
<1>6. Len(SubSeq(q, 1, Len(q) - 1)) = Len(q) - 1
  <2>1. ASSUME NEW n \in Nat \ {0}, NEW m,
               m = IF 1 <= n - 1 THEN (n - 1) - 1 + 1 ELSE 0
        PROVE  m = n - 1
    BY <2>1
  <2> QED
    BY <1>1, <1>3, <2>1, Zenon
<1>7. \A i \in 1 .. Len(q) - 1 : SubSeq(q, 1, Len(q) - 1)[i] = q[i]
  <2>1. ASSUME NEW i \in 1 .. Len(q) - 1
        PROVE  i \in 1 .. (Len(q) - 1) - 1 + 1 /\ 1 + i - 1 = i
    BY <1>1
  <2> QED
    BY <1>3, <2>1, Zenon
<1> QED
  BY <1>2, <1>3, <1>4, <1>5, <1>6, <1>7, Zenon

LEMMA QueryTypesStep ==
  ASSUME QueryTypes, ConfigTypes', [Next]_vars
  PROVE  QueryTypes'
<1> USE ConstantsAssumption
<1>0. /\ queries \in Seq(Providers)
      /\ Len(queries) <= MaxNested
      /\ requestCounts \in [Providers -> Nat]
      /\ rateTimers \subseteq Timed
      /\ nested \subseteq Providers
      /\ highest \in [Providers -> Nat]
  BY DEF QueryTypes
<1>u. ASSUME UNCHANGED queryVars PROVE QueryTypes'
  BY <1>0, <1>u, Zenon DEF queryVars, QueryTypes
<1>e. <<>> \in Seq(Providers) /\ Len(<<>>) <= MaxNested
  BY EmptySeq
<1>1. CASE instance
  <2>1. requestCounts' \in [Providers -> Nat] /\ nested' \subseteq Providers
    BY <1>1 DEF instance
  <2>2. highest' \in [Providers -> Nat]
    <3>1. \A p \in Providers : configurations'[p].limit \in Nat
      BY DEF ConfigTypes, Config
    <3> QED
      BY <1>1, <3>1 DEF instance
  <2> QED
    BY <1>0, <1>1, <2>1, <2>2, Zenon DEF instance, QueryTypes
<1>2. CASE destroyInstance \/ exit
  <2>1. /\ queries' = <<>>
        /\ rateTimers' = {}
        /\ requestCounts' = requestCounts
        /\ nested' = nested /\ highest' = highest
    BY <1>2 DEF destroyInstance, exit, Gone
  <2> QED
    BY <1>0, <1>e, <2>1, Zenon DEF QueryTypes
<1>3. ASSUME NEW p \in Providers, removeApiConfig(p) \/ testConnection(p)
      PROVE  QueryTypes'
  BY <1>3, <1>u DEF removeApiConfig, testConnection
<1>9. ASSUME NEW p \in Providers, NEW k \in Keys \union {NoKey},
             NEW limit \in Limits, setApiConfig(p, k, limit)
      PROVE  QueryTypes'
  <2>1. highest' \in [Providers -> Nat]
    BY <1>0, <1>9 DEF setApiConfig
  <2> QED
    BY <1>0, <1>9, <2>1, Zenon DEF setApiConfig, QueryTypes
<1>4. ASSUME NEW enable, enableApiKeyEncryption(enable) PROVE QueryTypes'
  BY <1>4, <1>u DEF enableApiKeyEncryption
<1>5. CASE onConnectionTestTimeout \/ tick \/ UNCHANGED vars
  BY <1>5, <1>u DEF onConnectionTestTimeout, tick, vars
<1>6. ASSUME NEW p \in Providers, queryModel(p) PROVE QueryTypes'
  <2>1. queries' \in Seq(Providers) /\ Len(queries') = Len(queries) + 1
    BY <1>0, <1>6, AppendProperties DEF queryModel
  <2>2. Len(queries') <= MaxNested
    <3>1. Len(queries) < MaxNested /\ Len(queries) \in Nat
      BY <1>0, <1>6, LenProperties DEF queryModel
    <3> QED
      BY <2>1, <3>1
  <2>3. nested' \subseteq Providers
    BY <1>0, <1>6, Zenon DEF queryModel
  <2>4. /\ requestCounts' = requestCounts /\ rateTimers' = rateTimers
        /\ highest' = highest
    BY <1>6 DEF queryModel
  <2> QED
    BY <1>0, <2>1, <2>2, <2>3, <2>4, Zenon DEF QueryTypes
<1>7. CASE queryReturns
  <2>1. queries # <<>> /\ queries' = Front(queries)
    BY <1>7 DEF queryReturns
  <2>2. /\ queries' \in Seq(Providers)
        /\ Len(queries') = Len(queries) - 1
        /\ Last(queries) \in Providers
    BY <1>0, <2>1, FrontProperties
  <2>3. Len(queries') <= MaxNested
    <3>1. Len(queries) \in Nat
      BY <1>0, LenProperties
    <3> QED
      BY <1>0, <2>2, <3>1
  <2>4. requestCounts' \in [Providers -> Nat]
    BY <1>0, <1>7, <2>2 DEF queryReturns
  <2>5. /\ rateTimers' \subseteq Timed /\ nested' \subseteq Providers
        /\ highest' \in [Providers -> Nat]
    BY <1>0, <1>7 DEF queryReturns
  <2> QED
    BY <2>2, <2>3, <2>4, <2>5, Zenon DEF QueryTypes
<1>8. ASSUME NEW p \in Providers, onRateLimitReset(p) PROVE QueryTypes'
  BY <1>0, <1>8, Zenon DEF onRateLimitReset, QueryTypes
<1> QED
  BY <1>1, <1>2, <1>3, <1>4, <1>5, <1>6, <1>7, <1>8, <1>9, Steps, Zenon

LEMMA PhaseStep ==
  ASSUME phase \in Phases, [Next]_vars
  PROVE  phase' \in Phases
<1>1. ASSUME UNCHANGED phase PROVE phase' \in Phases
  BY <1>1
<1>2. ASSUME NEW p \in Providers,
             \/ \E k \in Keys \union {NoKey}, limit \in Limits : setApiConfig(p, k, limit)
             \/ removeApiConfig(p) \/ testConnection(p)
             \/ queryModel(p) \/ onRateLimitReset(p)
      PROVE  phase' \in Phases
  BY <1>1, <1>2 DEF setApiConfig, removeApiConfig, testConnection, queryModel,
                    onRateLimitReset
<1>3. ASSUME NEW enable, enableApiKeyEncryption(enable) PROVE phase' \in Phases
  BY <1>1, <1>3 DEF enableApiKeyEncryption
<1>4. CASE onConnectionTestTimeout \/ tick \/ queryReturns \/ UNCHANGED vars
  BY <1>1, <1>4 DEF onConnectionTestTimeout, tick, queryReturns, vars
<1>5. CASE instance \/ destroyInstance \/ exit
  BY <1>5 DEF instance, destroyInstance, exit, Phases
<1> QED
  BY <1>2, <1>3, <1>4, <1>5, Steps, Zenon

LEMMA TypeInit == Init => TypeOK
<1> SUFFICES ASSUME Init PROVE TypeOK
  OBVIOUS
<1> USE ConstantsAssumption
<1>1. Nothing \in Config
  BY StoredType DEF Nothing
<1>2. ConfigTypes
  <2>1. configurations \in [Providers -> Config] /\ encryptionEnabled \in BOOLEAN
    BY <1>1, Zenon DEF Init
  <2>2. settings \in [encryption : BOOLEAN, groups : [Named -> Config]]
    BY <1>1, SMT DEF Init
  <2>3. given \in [Providers -> Keys \union {NoKey, Absent}]
    BY SMT DEF Init
  <2>4. toggles \in 0 .. MaxToggles /\ garbled \subseteq Providers
    BY SMT DEF Init
  <2> QED
    BY <2>1, <2>2, <2>3, <2>4, Zenon DEF ConfigTypes
<1>3. TestTypes
  <2>1. status \in [Providers -> {"NotConfigured", "Connected", "Failed"}]
    BY SMT DEF Init
  <2>2. activeRequests \subseteq Providers /\ testTimer \in TestTimers
    BY DEF Init, TestTimers
  <2> QED
    BY <2>1, <2>2, Zenon DEF TestTypes
<1>4. QueryTypes
  <2>1. queries \in Seq(Providers) /\ Len(queries) <= MaxNested
    BY EmptySeq DEF Init
  <2>2. requestCounts \in [Providers -> Nat] /\ highest \in [Providers -> Nat]
    BY DEF Init
  <2> QED
    BY <2>1, <2>2 DEF Init, QueryTypes
<1> QED
  BY <1>2, <1>3, <1>4, TypesTogether DEF Init, Phases

\* Every variable keeps its type: the QSettings rows are complete
\* configurations and the nesting of queries stays within its bound.
THEOREM TypeCorrect == Spec => []TypeOK
<1>1. TypeOK /\ [Next]_vars => TypeOK'
  BY ConfigTypesStep, TestTypesStep, QueryTypesStep, PhaseStep, TypesTogether,
     Zenon DEF TypeOK, ConfigTypes, TestTypes, QueryTypes
<1> QED
  BY <1>1, TypeInit, PTL DEF Spec

-----------------------------------------------------------------------------
(***************************************************************************)
(* The keys.  A provider with a name has in QSettings the configuration    *)
(* that is in memory, so that a restart changes nothing, unless it was     *)
(* removed.                                                                *)
(***************************************************************************)
FlagIsSaved == phase = "open" => settings.encryption = encryptionEnabled

\* The group of a provider the user configured is its configuration.
GroupIsConfig(p) ==
  given[p] # Absent =>
    /\ settings.groups[p].key = given[p]
    /\ phase = "open" => configurations[p] = settings.groups[p]

\* A key that is not garbled has the layers that will be taken off it.
Intact(p) ==
  p \notin garbled =>
    /\ given[p] # Absent =>
         settings.groups[p].layers = Layers(settings.encryption, given[p])
    /\ given[p] = Absent /\ phase = "open" => configurations[p].key = Absent

EncryptedOnDisk(p) ==
  settings.encryption /\ HasKey(settings.groups[p]) /\ given[p] # Absent =>
    settings.groups[p].layers > 0

EncryptedInMemory(p) ==
  phase = "open" /\ encryptionEnabled /\ HasKey(configurations[p])
  /\ given[p] # Absent => configurations[p].layers > 0

Row(p) == GroupIsConfig(p) /\ Intact(p) /\ EncryptedOnDisk(p)

KeyInv ==
  /\ ConfigTypes
  /\ FlagIsSaved
  /\ \A p \in Named : Row(p)
  /\ \A p \in Providers : EncryptedInMemory(p)

LEMMA KeyInvSuffices == KeyInv => KeysReadBack /\ StoredEncrypted
<1> SUFFICES ASSUME KeyInv PROVE KeysReadBack /\ StoredEncrypted
  OBVIOUS
<1>1. KeysReadBack
  <2> SUFFICES ASSUME phase = "open", NEW p \in Named \ garbled
               PROVE  configurations[p].key = given[p] /\ ReadsBack(p)
    BY DEF KeysReadBack
  <2>0. GroupIsConfig(p) /\ Intact(p) /\ FlagIsSaved
    BY DEF KeyInv, Row
  <2>1. CASE given[p] = Absent
    <3>1. configurations[p].key = Absent
      BY <2>0, <2>1, Zenon DEF Intact
    <3> QED
      BY <2>1, <3>1, ConstantsAssumption DEF ReadsBack, HasKey
  <2>2. CASE given[p] # Absent
    BY <2>0, <2>2, Zenon DEF GroupIsConfig, Intact, FlagIsSaved, ReadsBack
  <2> QED
    BY <2>1, <2>2
<1>2. StoredEncrypted
  BY Zenon DEF StoredEncrypted, KeyInv, Row, EncryptedOnDisk, EncryptedInMemory
<1> QED
  BY <1>1, <1>2

LEMMA KeyInit == Init => KeyInv
<1> SUFFICES ASSUME Init PROVE KeyInv
  OBVIOUS
<1>1. ConfigTypes
  BY TypeInit, TypesTogether
<1>2. phase = "closed" /\ \A p \in Providers : given[p] = Absent
  BY SMT DEF Init
<1>3. ASSUME NEW p \in Named PROVE Row(p)
  <2>1. given[p] = Absent /\ phase # "open"
    BY <1>2, ConstantsAssumption
  <2> QED
    BY <2>1, Zenon DEF Row, GroupIsConfig, Intact, EncryptedOnDisk
<1>4. ASSUME NEW p \in Providers PROVE EncryptedInMemory(p)
  BY <1>2 DEF EncryptedInMemory
<1> QED
  BY <1>1, <1>2, <1>3, <1>4 DEF KeyInv, FlagIsSaved

\* What a save leaves in a group.
LEMMA SavedGroup ==
  ASSUME Save, NEW p \in Named
  PROVE  /\ settings'.encryption = encryptionEnabled'
         /\ configurations'[p].key # Absent =>
              settings'.groups[p] = configurations'[p]
         /\ configurations'[p].key = Absent =>
              settings'.groups[p] = settings.groups[p]
<1> DEFINE row(q) == IF configurations'[q].key # Absent THEN configurations'[q]
                                                       ELSE settings.groups[q]
<1>1. settings' = [encryption |-> encryptionEnabled',
                   groups |-> [q \in Named |-> row(q)]]
  BY Zenon DEF Save
<1>2. /\ settings'.encryption = encryptionEnabled'
      /\ settings'.groups[p] = row(p)
  <2> HIDE DEF row
  <2> QED
    BY <1>1, SMT
<1> QED
  BY <1>2, Zenon

\* A save after which nothing about p has changed changes nothing about p.
LEMMA Bystander ==
  ASSUME KeyInv, phase = "open", Save, NEW p \in Named,
         UNCHANGED <<configurations[p], encryptionEnabled, given[p]>>,
         p \in garbled <=> p \in garbled'
  PROVE  Row(p)'
<1>0. /\ GroupIsConfig(p) /\ Intact(p) /\ EncryptedOnDisk(p) /\ FlagIsSaved
      /\ given[p]' = given[p] /\ configurations[p]' = configurations[p]
  BY DEF KeyInv, Row
<1>1. settings'.encryption = settings.encryption
  BY <1>0, SavedGroup DEF FlagIsSaved
<1>2. given[p] # Absent =>
        settings'.groups[p] = configurations[p]
        /\ settings'.groups[p] = settings.groups[p]
  BY <1>0, SavedGroup, Zenon DEF GroupIsConfig
<1>3. GroupIsConfig(p)'
  BY <1>0, <1>2, Zenon DEF GroupIsConfig
<1>4. Intact(p)'
  BY <1>0, <1>1, <1>2, Zenon DEF Intact, Layers
<1>5. EncryptedOnDisk(p)'
  BY <1>0, <1>1, <1>2, Zenon DEF EncryptedOnDisk, HasKey
<1> QED
  BY <1>3, <1>4, <1>5 DEF Row

LEMMA KeysUnchanged ==
  ASSUME KeyInv, UNCHANGED configVars, phase' = phase \/ phase' # "open"
  PROVE  KeyInv'
<1>0. UNCHANGED <<configurations, encryptionEnabled, settings, toggles, given,
                  garbled>>
  BY DEF configVars
<1>1. ConfigTypes'
  BY <1>0, Zenon DEF KeyInv, ConfigTypes
<1>2. FlagIsSaved'
  BY <1>0, Zenon DEF KeyInv, FlagIsSaved
<1>3. ASSUME NEW p \in Named PROVE Row(p)'
  BY <1>0, Zenon
     DEF KeyInv, Row, GroupIsConfig, Intact, EncryptedOnDisk, HasKey, Layers
<1>4. ASSUME NEW p \in Providers PROVE EncryptedInMemory(p)'
  BY <1>0, Zenon DEF KeyInv, EncryptedInMemory, HasKey
<1> QED
  BY <1>1, <1>2, <1>3, <1>4, Zenon DEF KeyInv

LEMMA KeysLoaded ==
  ASSUME KeyInv, ConfigTypes', instance
  PROVE  KeyInv'
<1>0. /\ ConfigTypes
      /\ phase = "closed" /\ phase' = "open"
      /\ encryptionEnabled' = settings.encryption
      /\ settings' = settings /\ given' = given
      /\ garbled' = garbled \union Returning
  BY DEF instance, KeyInv
<1>1. ASSUME NEW p \in Providers
      PROVE  configurations'[p] =
               IF p \in Named THEN settings.groups[p] ELSE Nothing
  BY DEF instance
<1>2. ASSUME NEW p \in Named PROVE Row(p)'
  <2>0. p \in Providers /\ configurations'[p] = settings.groups[p]
    BY <1>1, ConstantsAssumption
  <2>1. GroupIsConfig(p) /\ Intact(p) /\ EncryptedOnDisk(p)
    BY DEF KeyInv, Row
  <2>2. GroupIsConfig(p)'
    BY <1>0, <2>0, <2>1, Zenon DEF GroupIsConfig
  <2>3. Intact(p)'
    <3>1. given[p] = Absent /\ p \notin garbled' =>
            settings.groups[p].key = Absent
      BY <1>0, Zenon DEF Returning
    <3> QED
      BY <1>0, <2>0, <2>1, <3>1, Zenon DEF Intact, Layers
  <2>4. EncryptedOnDisk(p)'
    BY <1>0, <2>1, Zenon DEF EncryptedOnDisk, HasKey
  <2> QED
    BY <2>2, <2>3, <2>4 DEF Row
<1>3. ASSUME NEW p \in Providers PROVE EncryptedInMemory(p)'
  <2>1. CASE p \in Named
    <3>1. EncryptedOnDisk(p) /\ configurations'[p] = settings.groups[p]
      BY <1>1, <2>1 DEF KeyInv, Row
    <3> QED
      BY <1>0, <3>1, Zenon DEF EncryptedOnDisk, EncryptedInMemory, HasKey
  <2>2. CASE p \notin Named
    <3>1. configurations'[p].key = Absent
      BY <1>1, <2>2 DEF Nothing, Stored
    <3>2. ~ HasKey(configurations[p])'
      BY <3>1, ConstantsAssumption DEF HasKey
    <3> QED
      BY <3>2, Zenon DEF EncryptedInMemory
  <2> QED
    BY <2>1, <2>2
<1> QED
  BY <1>0, <1>2, <1>3, Zenon DEF KeyInv, FlagIsSaved

LEMMA KeysSaved ==
  ASSUME KeyInv, ConfigTypes', destroyInstance
  PROVE  KeyInv'
<1>0. /\ phase = "open" /\ phase' # "open" /\ Save
      /\ UNCHANGED <<configurations, encryptionEnabled, given, garbled>>
  BY DEF destroyInstance
<1>1. ASSUME NEW p \in Named PROVE Row(p)'
  BY <1>0, Bystander
<1>2. ASSUME NEW p \in Providers PROVE EncryptedInMemory(p)'
  BY <1>0 DEF EncryptedInMemory
<1> QED
  BY <1>0, <1>1, <1>2, Zenon DEF KeyInv, FlagIsSaved

LEMMA KeySet ==
  ASSUME KeyInv, ConfigTypes', NEW q \in Providers,
         NEW k \in Keys \union {NoKey}, NEW limit \in Limits, setApiConfig(q, k, limit)
  PROVE  KeyInv'
<1>0. /\ phase = "open" /\ phase' = "open" /\ Save
      /\ encryptionEnabled' = encryptionEnabled
      /\ garbled' = garbled \ {q}
      /\ configurations \in [Providers -> Config]
      /\ given \in [Providers -> Keys \union {NoKey, Absent}]
  BY DEF setApiConfig, KeyInv, ConfigTypes
<1>1. /\ given'[q] = k
      /\ configurations'[q].key = k
      /\ configurations'[q].layers = Layers(encryptionEnabled, k)
      /\ k # Absent
  <2>1. configurations'[q] = Stored(k, Layers(encryptionEnabled, k), limit)
    BY <1>0, Zenon DEF setApiConfig
  <2>2. given'[q] = k
    BY <1>0, Zenon DEF setApiConfig
  <2>3. k # Absent
    BY ConstantsAssumption DEF Absent, NoKey
  <2> QED
    BY <2>1, <2>2, <2>3, SMT DEF Stored
<1>2. ASSUME NEW p \in Providers, p # q
      PROVE  /\ configurations'[p] = configurations[p]
             /\ given'[p] = given[p]
             /\ p \in garbled <=> p \in garbled'
  BY <1>0, <1>2, SMT DEF setApiConfig
<1>3. ASSUME NEW p \in Named PROVE Row(p)'
  <2>1. CASE p = q
    <3>1. /\ settings'.groups[q] = configurations'[q]
          /\ settings'.encryption = encryptionEnabled
      BY <1>0, <1>1, <2>1, SavedGroup
    <3>2. GroupIsConfig(p)' /\ Intact(p)'
      BY <1>1, <2>1, <3>1, Zenon DEF GroupIsConfig, Intact, Layers
    <3>3. EncryptedOnDisk(p)'
      BY <1>1, <2>1, <3>1, SMT DEF EncryptedOnDisk, HasKey, Layers
    <3> QED
      BY <3>2, <3>3 DEF Row
  <2>2. CASE p # q
    <3>1. p \in Providers
      BY ConstantsAssumption
    <3> QED
      BY <1>0, <1>2, <2>2, <3>1, Bystander
  <2> QED
    BY <2>1, <2>2
<1>4. ASSUME NEW p \in Providers PROVE EncryptedInMemory(p)'
  <2>1. CASE p = q
    BY <1>0, <1>1, <2>1, SMT DEF EncryptedInMemory, HasKey, Layers
  <2>2. CASE p # q
    BY <1>0, <1>2, <2>2, Zenon DEF KeyInv, EncryptedInMemory, HasKey
  <2> QED
    BY <2>1, <2>2
<1>5. FlagIsSaved'
  <2>1. settings'.encryption = encryptionEnabled'
    BY <1>0, SMT DEF Save
  <2> QED
    BY <2>1 DEF FlagIsSaved
<1> QED
  BY <1>3, <1>4, <1>5, Zenon DEF KeyInv

LEMMA KeyRemoved ==
  ASSUME KeyInv, ConfigTypes', NEW q \in Providers, removeApiConfig(q)
  PROVE  KeyInv'
<1>0. /\ phase = "open" /\ phase' = "open" /\ Save
      /\ encryptionEnabled' = encryptionEnabled
      /\ garbled' = garbled \ {q}
      /\ configurations \in [Providers -> Config]
      /\ given \in [Providers -> Keys \union {NoKey, Absent}]
  BY DEF removeApiConfig, KeyInv, ConfigTypes
<1>1. given'[q] = Absent /\ configurations'[q].key = Absent
  BY <1>0, SMT DEF removeApiConfig, Nothing, Stored
<1>2. ASSUME NEW p \in Providers, p # q
      PROVE  /\ configurations'[p] = configurations[p]
             /\ given'[p] = given[p]
             /\ p \in garbled <=> p \in garbled'
  BY <1>0, <1>2, SMT DEF removeApiConfig
<1>3. ASSUME NEW p \in Named PROVE Row(p)'
  <2>1. CASE p = q
    BY <1>1, <2>1, Zenon DEF Row, GroupIsConfig, Intact, EncryptedOnDisk
  <2>2. CASE p # q
    <3>1. p \in Providers
      BY ConstantsAssumption
    <3> QED
      BY <1>0, <1>2, <2>2, <3>1, Bystander
  <2> QED
    BY <2>1, <2>2
<1>4. ASSUME NEW p \in Providers PROVE EncryptedInMemory(p)'
  BY <1>0, <1>1, <1>2, Zenon DEF KeyInv, EncryptedInMemory, HasKey
<1>5. FlagIsSaved'
  <2>1. settings'.encryption = encryptionEnabled'
    BY <1>0, SMT DEF Save
  <2> QED
    BY <2>1 DEF FlagIsSaved
<1> QED
  BY <1>3, <1>4, <1>5, Zenon DEF KeyInv

\* Switched on, every key gets one layer more, those that kept one included;
\* switched off, every key is garbled.
LEMMA KeysSwitched ==
  ASSUME KeyInv, ConfigTypes', NEW enable \in BOOLEAN,
         enableApiKeyEncryption(enable)
  PROVE  KeyInv'
<1>0. /\ phase = "open" /\ phase' = "open" /\ Save
      /\ encryptionEnabled # enable /\ encryptionEnabled' = enable
      /\ given' = given
      /\ configurations \in [Providers -> Config]
      /\ encryptionEnabled \in BOOLEAN
  BY DEF enableApiKeyEncryption, KeyInv, ConfigTypes
<1>1. ASSUME NEW p \in Providers
      PROVE  /\ configurations'[p].key = configurations[p].key
             /\ configurations'[p].layers =
                  IF enable /\ HasKey(configurations[p])
                    THEN configurations[p].layers + 1
                    ELSE configurations[p].layers
             /\ configurations[p].layers \in Nat
  <2> DEFINE row(q) == IF enable /\ HasKey(configurations[q])
                         THEN [configurations[q] EXCEPT !.layers = @ + 1]
                         ELSE configurations[q]
  <2>1. configurations'[p] = row(p)
    BY DEF enableApiKeyEncryption
  <2>2. configurations[p] \in Config
    BY <1>0
  <2> QED
    BY <2>1, <2>2, SMT DEF Config
<1>2. ASSUME NEW p \in Providers
      PROVE  /\ p \notin garbled' => p \notin garbled
             /\ p \notin garbled' /\ ~enable => ~HasKey(configurations[p])
  BY SMT DEF enableApiKeyEncryption
<1>3. ASSUME NEW p \in Providers PROVE EncryptedInMemory(p)'
  BY <1>0, <1>1, SMT DEF EncryptedInMemory, HasKey
<1>4. ASSUME NEW p \in Named PROVE Row(p)'
  <2>0. /\ p \in Providers
        /\ GroupIsConfig(p) /\ Intact(p) /\ FlagIsSaved
        /\ settings'.encryption = enable
        /\ Absent \notin Keys
    BY <1>0, SavedGroup, ConstantsAssumption DEF KeyInv, Row
  <2>1. CASE given[p] = Absent
    <3>1. p \notin garbled' => configurations'[p].key = Absent
      BY <1>0, <1>1, <1>2, <2>0, <2>1, Zenon DEF Intact
    <3> QED
      BY <1>0, <2>1, <3>1, Zenon DEF Row, GroupIsConfig, Intact, EncryptedOnDisk
  <2>2. CASE given[p] # Absent
    <3>1. /\ configurations[p] = settings.groups[p]
          /\ configurations[p].key = given[p]
      BY <1>0, <2>0, <2>2, Zenon DEF GroupIsConfig
    <3>2. settings'.groups[p] = configurations'[p]
      BY <1>0, <1>1, <2>0, <2>2, <3>1, SavedGroup
    <3>3. GroupIsConfig(p)'
      BY <1>0, <1>1, <2>0, <3>1, <3>2, Zenon DEF GroupIsConfig
    <3>4. EncryptedOnDisk(p)'
      BY <1>0, <1>3, <2>0, <3>2, Zenon
         DEF EncryptedOnDisk, EncryptedInMemory, HasKey
    <3>5. ASSUME p \notin garbled'
          PROVE  configurations'[p].layers = Layers(enable, given[p])
      <4>1. configurations[p].layers = Layers(encryptionEnabled, given[p])
        BY <1>0, <1>2, <2>0, <2>2, <3>1, <3>5, Zenon DEF Intact, FlagIsSaved
      <4>2. CASE enable
        <5>1. ~encryptionEnabled
          BY <1>0, <4>2
        <5>2. configurations[p].layers = 0
          BY <4>1, <5>1 DEF Layers
        <5>3. HasKey(configurations[p]) <=> given[p] \in Keys
          BY <3>1, Zenon DEF HasKey
        <5> QED
          BY <1>1, <2>0, <4>2, <5>2, <5>3 DEF Layers
      <4>3. CASE ~enable
        <5>1. given[p] \notin Keys
          BY <1>2, <2>0, <3>1, <3>5, <4>3, Zenon DEF HasKey
        <5>2. configurations'[p].layers = configurations[p].layers
          BY <1>1, <2>0, <4>3
        <5> QED
          BY <4>1, <5>1, <5>2, Zenon DEF Layers
      <4> QED
        BY <4>2, <4>3
    <3>6. Intact(p)'
      BY <1>0, <2>0, <2>2, <3>2, <3>5, Zenon DEF Intact
    <3> QED
      BY <3>3, <3>4, <3>6 DEF Row
  <2> QED
    BY <2>1, <2>2
<1>5. FlagIsSaved'
  <2>1. settings'.encryption = encryptionEnabled'
    BY <1>0, SMT DEF Save
  <2> QED
    BY <2>1 DEF FlagIsSaved
<1> QED
  BY <1>3, <1>4, <1>5, Zenon DEF KeyInv

\* A timed-out test disturbs no provider that is configured.
LEMMA KeysAfterTimeout ==
  ASSUME KeyInv, ConfigTypes', onConnectionTestTimeout
  PROVE  KeyInv'
<1>0. /\ UNCHANGED <<phase, encryptionEnabled, settings, given>>
      /\ garbled' = garbled \union {p \in activeRequests : ~Configured(p)}
  BY DEF onConnectionTestTimeout
<1>1. ASSUME NEW p \in Providers
      PROVE  configurations'[p] = IF p \in activeRequests /\ ~Configured(p)
                                    THEN Stored(Blank, 0, 0) ELSE configurations[p]
  BY Zenon DEF onConnectionTestTimeout
<1>2. ASSUME NEW p \in Named PROVE Row(p)'
  <2>0. /\ p \in Providers
        /\ GroupIsConfig(p) /\ Intact(p) /\ EncryptedOnDisk(p)
    BY ConstantsAssumption DEF KeyInv, Row
  <2>1. phase = "open" /\ given[p] # Absent =>
          configurations'[p] = configurations[p]
    BY <1>1, <2>0, Zenon DEF GroupIsConfig, Configured
  <2>2. GroupIsConfig(p)'
    BY <1>0, <2>0, <2>1, Zenon DEF GroupIsConfig
  <2>3. p \notin garbled' =>
          p \notin garbled /\ configurations'[p] = configurations[p]
    BY <1>0, <1>1, <2>0, Zenon
  <2>4. Intact(p)'
    BY <1>0, <2>0, <2>3, Zenon DEF Intact, Layers
  <2>5. EncryptedOnDisk(p)'
    BY <1>0, <2>0, Zenon DEF EncryptedOnDisk, HasKey
  <2> QED
    BY <2>2, <2>4, <2>5 DEF Row
<1>3. ASSUME NEW p \in Providers PROVE EncryptedInMemory(p)'
  <2>1. CASE p \in activeRequests /\ ~Configured(p)
    <3>1. configurations'[p].key = Blank
      BY <1>1, <2>1, SMT DEF Stored
    <3>2. ~ HasKey(configurations[p])'
      BY <3>1, ConstantsAssumption DEF HasKey
    <3> QED
      BY <3>2, Zenon DEF EncryptedInMemory
  <2>2. CASE ~(p \in activeRequests /\ ~Configured(p))
    <3>1. configurations'[p] = configurations[p]
      BY <1>1, <2>2, Zenon
    <3> QED
      BY <1>0, <3>1, Zenon DEF KeyInv, EncryptedInMemory, HasKey
  <2> QED
    BY <2>1, <2>2
<1> QED
  BY <1>0, <1>2, <1>3, Zenon DEF KeyInv, FlagIsSaved

LEMMA KeyNext ==
  ASSUME TypeOK, KeyInv, [Next]_vars
  PROVE  KeyInv'
<1>0. ConfigTypes'
  BY ConfigTypesStep, TypesTogether
<1>1. CASE instance
  BY <1>0, <1>1, KeysLoaded
<1>2. CASE destroyInstance
  BY <1>0, <1>2, KeysSaved
<1>3. CASE exit
  BY <1>3, KeysUnchanged DEF exit
<1>4. ASSUME NEW p \in Providers, NEW k \in Keys \union {NoKey},
             NEW limit \in Limits, setApiConfig(p, k, limit)
      PROVE  KeyInv'
  BY <1>0, <1>4, KeySet
<1>5. ASSUME NEW p \in Providers, removeApiConfig(p) PROVE KeyInv'
  BY <1>0, <1>5, KeyRemoved
<1>6. ASSUME NEW enable \in BOOLEAN, enableApiKeyEncryption(enable)
      PROVE  KeyInv'
  BY <1>0, <1>6, KeysSwitched
<1>7. CASE onConnectionTestTimeout
  BY <1>0, <1>7, KeysAfterTimeout
<1>8. ASSUME NEW p \in Providers,
             testConnection(p) \/ queryModel(p) \/ onRateLimitReset(p)
      PROVE  KeyInv'
  BY <1>8, KeysUnchanged DEF testConnection, queryModel, onRateLimitReset
<1>9. CASE queryReturns \/ tick \/ UNCHANGED vars
  BY <1>9, KeysUnchanged DEF queryReturns, tick, vars
<1> QED
  BY <1>1, <1>2, <1>3, <1>4, <1>5, <1>6, <1>7, <1>8, <1>9, Steps, Zenon

LEMMA KeyInvariance == Spec => []KeyInv
BY KeyInit, KeyNext, TypeCorrect, PTL DEF Spec

\* However a provider was set, removed, switched and restarted, its key reads
\* back as entered, the two ways of garbling it aside.
THEOREM KeysAreKept == Spec => []KeysReadBack
BY KeyInvariance, KeyInvSuffices, PTL

\* With encryption on no key is held or written in the clear.
THEOREM KeysAreEncrypted == Spec => []StoredEncrypted
BY KeyInvariance, KeyInvSuffices, PTL

\* Both together: a key is neither lost nor laid open.
THEOREM KeysStaySafe == Spec => []KeysAreSafe
BY KeysAreKept, KeysAreEncrypted, PTL DEF KeysAreSafe

-----------------------------------------------------------------------------
(***************************************************************************)
(* The rate limit.  A query is counted when it returns; until then it is   *)
(* pending, and a provider whose queries do not nest has one at most.      *)
(***************************************************************************)
Places(q, p) == {i \in DOMAIN q : q[i] = p}

LimitInv ==
  /\ phase = "closed" => queries = <<>>
  /\ \A p \in Providers \ nested : Pending(p) <= 1
  /\ LimitIsKept

LEMMA PlacesFinite ==
  ASSUME NEW q \in Seq(Providers), NEW p
  PROVE  /\ IsFiniteSet(Places(q, p))
         /\ Cardinality(Places(q, p)) \in Nat
         /\ Len(q) \in Nat
         /\ DOMAIN q = 1 .. Len(q)
<1>1. Len(q) \in Nat /\ DOMAIN q = 1 .. Len(q)
  BY LenProperties
<1>2. IsFiniteSet(1 .. Len(q))
  BY <1>1, FS_Interval
<1>3. Places(q, p) \in SUBSET (1 .. Len(q))
  BY <1>1 DEF Places
<1> QED
  BY <1>1, <1>2, <1>3, FS_Subset, FS_CardinalityType

LEMMA PendingIsPlaces ==
  ASSUME NEW p PROVE Pending(p) = Cardinality(Places(queries, p))
BY DEF Pending, Places

LEMMA PendingNone ==
  ASSUME NEW p PROVE Cardinality(Places(<<>>, p)) = 0
<1>1. Places(<<>>, p) = {}
  BY EmptySeq DEF Places
<1> QED
  BY <1>1, FS_EmptySet

\* A query made is one more for its provider and none more for the others.
LEMMA PendingAppend ==
  ASSUME NEW q \in Seq(Providers), NEW p \in Providers, NEW r \in Providers
  PROVE  Cardinality(Places(Append(q, p), r)) =
           Cardinality(Places(q, r)) + (IF r = p THEN 1 ELSE 0)
<1> DEFINE n == Len(q) + 1
<1>1. /\ Append(q, p) \in Seq(Providers)
      /\ Len(Append(q, p)) = n
      /\ \A i \in 1 .. Len(q) : Append(q, p)[i] = q[i]
      /\ Append(q, p)[n] = p
  BY AppendProperties
<1>2. /\ Len(q) \in Nat /\ DOMAIN q = 1 .. Len(q)
      /\ DOMAIN Append(q, p) = 1 .. n
  BY <1>1, LenProperties
<1>3. 1 .. n = (1 .. Len(q)) \union {n} /\ n \notin 1 .. Len(q)
  BY <1>2
<1> HIDE DEF n
<1>4. Places(Append(q, p), r) =
        IF r = p THEN Places(q, r) \union {n} ELSE Places(q, r)
  BY <1>1, <1>2, <1>3, SMT DEF Places
<1>5. n \notin Places(q, r)
  BY <1>2, <1>3 DEF Places
<1>6. CASE r = p
  <2>1. Cardinality(Places(q, r) \union {n}) = Cardinality(Places(q, r)) + 1
    BY <1>5, PlacesFinite, FS_AddElement
  <2> QED
    BY <1>4, <1>6, <2>1
<1>7. CASE r # p
  BY <1>4, <1>7, PlacesFinite
<1> QED
  BY <1>6, <1>7

\* The innermost query's return is one less for its provider.
LEMMA PendingFront ==
  ASSUME NEW q \in Seq(Providers), q # <<>>, NEW r \in Providers
  PROVE  Cardinality(Places(Front(q), r)) =
           Cardinality(Places(q, r)) - (IF r = Last(q) THEN 1 ELSE 0)
<1> DEFINE n == Len(q)
<1>1. /\ Front(q) \in Seq(Providers)
      /\ Len(Front(q)) = n - 1
      /\ \A i \in 1 .. n - 1 : Front(q)[i] = q[i]
      /\ n \in 1 .. n
      /\ Last(q) = q[n]
  BY FrontProperties, Zenon DEF Last
<1>2. /\ n \in Nat /\ DOMAIN q = 1 .. n
      /\ DOMAIN Front(q) = 1 .. n - 1
  BY <1>1, LenProperties
<1>3. 1 .. n - 1 = (1 .. n) \ {n}
  BY <1>1, <1>2
<1> HIDE DEF n
<1>4. Places(Front(q), r) = Places(q, r) \ {n}
  BY <1>1, <1>2, <1>3, SMT DEF Places
<1>5. n \in Places(q, r) <=> r = Last(q)
  BY <1>1, <1>2 DEF Places
<1>6. Cardinality(Places(q, r) \ {n}) =
        IF n \in Places(q, r) THEN Cardinality(Places(q, r)) - 1
                              ELSE Cardinality(Places(q, r))
  BY PlacesFinite, FS_RemoveElement
<1> QED
  BY <1>4, <1>5, <1>6, PlacesFinite

\* What a query goes by is never above the highest limit.
LimitsKnown ==
  phase = "open" => \A p \in Providers : configurations[p].limit <= highest[p]

LEMMA LimitsKnownNext ==
  ASSUME ConfigTypes, QueryTypes, ConfigTypes', LimitsKnown, [Next]_vars
  PROVE  LimitsKnown'
<1>0. /\ \A p \in Providers : configurations[p].limit \in Nat /\ configurations'[p].limit \in Nat
      /\ highest \in [Providers -> Nat]
      /\ configurations \in [Providers -> Config]
  BY DEF ConfigTypes, QueryTypes, Config
<1>s. ASSUME phase' = "open" => phase = "open", highest' = highest,
             \A p \in Providers : configurations'[p].limit \in {configurations[p].limit, 0}
      PROVE  LimitsKnown'
  BY <1>0, <1>s DEF LimitsKnown
<1>u. ASSUME UNCHANGED <<phase, configurations, highest>> PROVE LimitsKnown'
  BY <1>u DEF LimitsKnown
<1>1. CASE instance
  BY <1>0, <1>1 DEF instance, LimitsKnown
<1>2. CASE destroyInstance \/ exit
  BY <1>2 DEF destroyInstance, exit, LimitsKnown
<1>3. ASSUME NEW q \in Providers, NEW k \in Keys \union {NoKey}, NEW limit \in Limits,
             setApiConfig(q, k, limit)
      PROVE  LimitsKnown'
  <2>0. /\ phase = "open" /\ limit \in Nat
        /\ configurations' =
             [configurations EXCEPT ![q] = Stored(k, Layers(encryptionEnabled, k), limit)]
        /\ highest' = [highest EXCEPT ![q] = IF highest[q] < limit THEN limit ELSE highest[q]]
    BY <1>3, ConstantsAssumption DEF setApiConfig
  <2>1. Stored(k, Layers(encryptionEnabled, k), limit).limit = limit
    BY DEF Stored
  <2>2. ASSUME NEW p \in Providers PROVE configurations'[p].limit <= highest'[p]
    <3>1. CASE p = q
      <4>1. configurations'[p].limit = limit
        BY <1>0, <2>0, <2>1, <3>1
      <4>2. highest'[p] = IF highest[q] < limit THEN limit ELSE highest[q]
        BY <1>0, <2>0, <3>1
      <4> QED
        BY <1>0, <2>0, <4>1, <4>2
    <3>2. CASE p # q
      <4>1. configurations'[p] = configurations[p] /\ highest'[p] = highest[p]
        BY <1>0, <2>0, <3>2
      <4> QED
        BY <2>0, <4>1 DEF LimitsKnown
    <3> QED
      BY <3>1, <3>2
  <2> QED
    BY <2>2 DEF LimitsKnown
<1>4. ASSUME NEW q \in Providers, removeApiConfig(q) PROVE LimitsKnown'
  <2>1. \A p \in Providers : configurations'[p] = IF p = q THEN Nothing ELSE configurations[p]
    BY <1>0, <1>4 DEF removeApiConfig
  <2>2. Nothing.limit = 0
    BY DEF Nothing, Stored
  <2> QED
    BY <1>4, <1>s, <2>1, <2>2 DEF removeApiConfig, queryVars
<1>5. ASSUME NEW enable, enableApiKeyEncryption(enable) PROVE LimitsKnown'
  <2>1. ASSUME NEW p \in Providers PROVE configurations'[p].limit = configurations[p].limit
    <3>1. \/ configurations'[p] = configurations[p]
          \/ configurations'[p] = [configurations[p] EXCEPT !.layers = @ + 1]
      BY <1>5 DEF enableApiKeyEncryption
    <3>2. configurations[p] \in Config
      BY <1>0
    <3> QED
      BY <3>1, <3>2 DEF Config
  <2> QED
    BY <1>5, <1>s, <2>1 DEF enableApiKeyEncryption, queryVars
<1>6. CASE onConnectionTestTimeout
  <2>1. \A p \in Providers : \/ configurations'[p] = configurations[p]
                            \/ configurations'[p] = Stored(Blank, 0, 0)
    BY <1>6, Zenon DEF onConnectionTestTimeout
  <2>2. Stored(Blank, 0, 0).limit = 0
    BY DEF Stored
  <2> QED
    BY <1>6, <1>s, <2>1, <2>2 DEF onConnectionTestTimeout, queryVars
<1>7. ASSUME NEW p \in Providers,
             testConnection(p) \/ queryModel(p) \/ onRateLimitReset(p)
      PROVE  LimitsKnown'
  BY <1>7, <1>u DEF testConnection, queryModel, onRateLimitReset, queryVars, configVars
<1>8. CASE queryReturns \/ tick \/ UNCHANGED vars
  BY <1>8, <1>u DEF queryReturns, tick, vars, queryVars, configVars
<1> QED
  BY <1>1, <1>2, <1>3, <1>4, <1>5, <1>6, <1>7, <1>8, Steps, Zenon

LEMMA LimitInit == Init => LimitInv
<1> SUFFICES ASSUME Init PROVE LimitInv
  OBVIOUS
<1>1. queries = <<>> /\ phase = "closed"
  BY DEF Init
<1>2. \A p \in Providers : Pending(p) = 0
  BY <1>1, PendingIsPlaces, PendingNone
<1> QED
  BY <1>1, <1>2 DEF LimitInv, LimitIsKept

LEMMA LimitNext ==
  ASSUME TypeOK, LimitInv, LimitsKnown, [Next]_vars
  PROVE  LimitInv'
<1> USE ConstantsAssumption
<1>0. /\ QueryTypes
      /\ queries \in Seq(Providers)
      /\ requestCounts \in [Providers -> Nat]
      /\ phase = "closed" => queries = <<>>
      /\ \A p \in Providers \ nested : Pending(p) <= 1
      /\ phase = "open" => \A p \in Providers \ nested :
           requestCounts[p] + Pending(p) <= highest[p]
      /\ highest \in [Providers -> Nat]
  BY TypesTogether DEF LimitInv, LimitIsKept, QueryTypes
<1>p. ASSUME NEW p PROVE Pending(p)' = Cardinality(Places(queries', p))
  BY DEF Pending, Places
<1>n. \A p \in Providers : Pending(p) \in Nat
  BY <1>0, PendingIsPlaces, PlacesFinite
<1>u. ASSUME UNCHANGED <<queries, requestCounts, nested, phase, highest>>
      PROVE  LimitInv'
  <2>1. \A p : Pending(p)' = Pending(p)
    BY <1>u, Zenon DEF Pending
  <2> QED
    BY <1>0, <1>u, <2>1, Zenon DEF LimitInv, LimitIsKept
<1>1. ASSUME queries' = <<>>, phase' = "open" => \A p \in Providers :
                                requestCounts'[p] = 0 /\ highest'[p] \in Nat
      PROVE  LimitInv'
  <2>1. \A p \in Providers : Pending(p)' = 0
    BY <1>1, <1>p, PendingNone
  <2> QED
    BY <1>1, <2>1 DEF LimitInv, LimitIsKept
<1>2. CASE instance
  <2>1. \A p \in Providers : configurations'[p].limit \in Nat
    BY ConfigTypesStep, TypesTogether DEF ConfigTypes, Config
  <2> QED
    BY <1>0, <1>1, <1>2, <2>1 DEF instance
<1>3. CASE destroyInstance \/ exit
  <2>1. queries' = <<>> /\ phase' # "open"
    BY <1>3 DEF destroyInstance, exit, Gone
  <2> QED
    BY <1>1, <2>1
<1>4. ASSUME NEW p \in Providers,
             removeApiConfig(p) \/ testConnection(p) \/ onRateLimitReset(p)
      PROVE  LimitInv'
  BY <1>4, <1>u DEF removeApiConfig, testConnection, onRateLimitReset, queryVars
<1>9. ASSUME NEW q \in Providers, NEW k \in Keys \union {NoKey}, NEW limit \in Limits,
             setApiConfig(q, k, limit)
      PROVE  LimitInv'
  <2>1. /\ UNCHANGED <<queries, requestCounts, nested, phase>> /\ limit \in Nat
        /\ highest' = [highest EXCEPT ![q] = IF highest[q] < limit THEN limit ELSE highest[q]]
    BY <1>9 DEF setApiConfig
  <2>2. \A p \in Providers : highest[p] \in Nat /\ highest'[p] \in Nat /\ highest[p] <= highest'[p]
    BY <1>0, <2>1
  <2>3. \A p : Pending(p)' = Pending(p)
    BY <2>1, Zenon DEF Pending
  <2>4. ASSUME phase = "open", NEW p \in Providers \ nested
        PROVE  requestCounts[p] + Pending(p) <= highest'[p]
    <3>1. requestCounts[p] \in Nat /\ Pending(p) \in Nat
      BY <1>0, <1>n
    <3> QED
      BY <1>0, <2>2, <2>4, <3>1
  <2> QED
    BY <1>0, <2>1, <2>3, <2>4, Zenon DEF LimitInv, LimitIsKept
<1>5. ASSUME NEW enable, enableApiKeyEncryption(enable) PROVE LimitInv'
  BY <1>5, <1>u DEF enableApiKeyEncryption, queryVars
<1>6. CASE onConnectionTestTimeout \/ tick \/ UNCHANGED vars
  BY <1>6, <1>u DEF onConnectionTestTimeout, tick, queryVars, vars
<1>7. ASSUME NEW q \in Providers, queryModel(q) PROVE LimitInv'
  <2>1. /\ phase = "open" /\ phase' = "open"
        /\ requestCounts[q] < configurations[q].limit
        /\ queries' = Append(queries, q)
        /\ requestCounts' = requestCounts /\ highest' = highest
        /\ nested' = IF Pending(q) > 0 THEN nested \union {q} ELSE nested
    BY <1>7 DEF queryModel, isRequestAllowed
  <2>5. requestCounts[q] + 1 <= highest[q]
    <3>1. /\ configurations[q].limit \in Nat /\ highest[q] \in Nat /\ requestCounts[q] \in Nat
          /\ configurations[q].limit <= highest[q]
      BY <1>0, <2>1, TypesTogether DEF ConfigTypes, Config, LimitsKnown
    <3> QED
      BY <2>1, <3>1
  <2>2. ASSUME NEW r \in Providers
        PROVE  Pending(r)' = Pending(r) + (IF r = q THEN 1 ELSE 0)
    BY <1>0, <1>p, <2>1, PendingIsPlaces, PendingAppend
  <2>3. ASSUME NEW r \in Providers \ nested'
        PROVE  /\ Pending(r)' <= 1
               /\ requestCounts'[r] + Pending(r)' <= highest'[r]
    <3>1. r \in Providers \ nested /\ Pending(r) \in Nat
      BY <1>n, <2>1, <2>3, Zenon
    <3>2. CASE r = q
      <4>1. Pending(r) = 0
        BY <2>1, <2>3, <3>1, <3>2
      <4>2. Pending(r)' = 1
        BY <2>2, <3>2, <4>1
      <4> QED
        BY <1>0, <2>1, <2>5, <3>1, <3>2, <4>2
    <3>3. CASE r # q
      <4>1. Pending(r)' = Pending(r)
        BY <2>2, <3>1, <3>3
      <4> QED
        BY <1>0, <2>1, <3>1, <4>1
    <3> QED
      BY <3>2, <3>3
  <2> QED
    BY <2>1, <2>3 DEF LimitInv, LimitIsKept
<1>8. CASE queryReturns
  <2>1. /\ queries # <<>> /\ queries' = Front(queries)
        /\ phase' = phase /\ nested' = nested /\ highest' = highest
        /\ requestCounts' =
             [requestCounts EXCEPT ![Last(queries)] = @ + 1]
    BY <1>8 DEF queryReturns
  <2>2. Last(queries) \in Providers
    BY <1>0, <2>1, FrontProperties
  <2>3. ASSUME NEW r \in Providers
        PROVE  /\ Pending(r)' = Pending(r) - (IF r = Last(queries) THEN 1 ELSE 0)
               /\ requestCounts'[r] =
                    requestCounts[r] + (IF r = Last(queries) THEN 1 ELSE 0)
               /\ requestCounts[r] \in Nat
    <3>1. Pending(r)' = Pending(r) - (IF r = Last(queries) THEN 1 ELSE 0)
      BY <1>0, <1>p, <2>1, PendingIsPlaces, PendingFront
    <3>2. /\ requestCounts'[r] =
               requestCounts[r] + (IF r = Last(queries) THEN 1 ELSE 0)
          /\ requestCounts[r] \in Nat
      BY <1>0, <2>1, <2>2
    <3> QED
      BY <3>1, <3>2
  <2>4. ASSUME NEW r \in Providers \ nested'
        PROVE  /\ Pending(r)' <= 1
               /\ phase' = "open" =>
                    requestCounts'[r] + Pending(r)' <= highest'[r]
    <3>1. r \in Providers \ nested /\ Pending(r) \in Nat
      BY <1>n, <2>1, <2>4
    <3> QED
      BY <1>0, <2>1, <2>3, <3>1
  <2>5. phase' # "closed"
    BY <1>0, <2>1
  <2> QED
    BY <2>4, <2>5 DEF LimitInv, LimitIsKept
<1> QED
  BY <1>2, <1>3, <1>4, <1>5, <1>6, <1>7, <1>8, <1>9, Steps, Zenon

LEMMA LimitInvariance == Spec => []LimitInv
<1>1. Init => LimitsKnown
  BY DEF Init, LimitsKnown
<1>2. TypeOK /\ TypeOK' => ConfigTypes /\ QueryTypes /\ ConfigTypes'
  BY TypesTogether DEF TypeOK, ConfigTypes
<1> QED
  BY <1>1, <1>2, LimitsKnownNext, LimitInit, LimitNext, TypeCorrect, PTL DEF Spec

\* A provider whose queries do not nest is never asked beyond the highest limit
\* it was given, although a query is counted only when it returns.
THEOREM LimitHolds == Spec => []LimitIsKept
<1>1. LimitInv => LimitIsKept
  BY DEF LimitInv
<1> QED
  BY <1>1, LimitInvariance, PTL

-----------------------------------------------------------------------------
(***************************************************************************)
(* Every test is concluded.  ENABLED is opaque to the provers: that the    *)
(* timer can run and fire is the hypothesis.  Its steps are guarded by     *)
(* testTimer alone, assign every variable and change testTimer at least.   *)
(***************************************************************************)
TimerCanRun == testTimer # "off" => ENABLED <<TestTimer>>_vars

\* No test is on the list without the timer.
TestsTimed == activeRequests # {} => testTimer # "off"

LEMMA TestsAreTimed == Spec => []TestsTimed
<1>1. Init => TestsTimed
  BY DEF Init, TestsTimed
<1>2. TestsTimed /\ [Next]_vars => TestsTimed'
  <2> SUFFICES ASSUME TestsTimed, [Next]_vars PROVE TestsTimed'
    OBVIOUS
  <2>1. \/ UNCHANGED <<activeRequests, testTimer>>
        \/ activeRequests' = {}
        \/ testTimer' \in {"new", "due"}
    BY Steps DEF instance, destroyInstance, exit, Gone, setApiConfig, removeApiConfig,
       enableApiKeyEncryption, testVars, testConnection, tick, onConnectionTestTimeout,
       queryModel, queryReturns, onRateLimitReset, vars
  <2> QED
    BY <2>1 DEF TestsTimed
<1> QED
  BY <1>1, <1>2, PTL DEF Spec

Listed(p) == p \in activeRequests
Anew == testTimer = "new"

\* While a test is pending and the timer is not started anew, it fires.
LEMMA ListedEnds ==
  ASSUME NEW p \in Providers
  PROVE  FairSpec /\ []TimerCanRun => (<>[]Listed(p) => []<>Anew)
<1>1. ~Anew /\ <<TestTimer>>_vars => ~Listed(p)'
  BY DEF TestTimer, tick, onConnectionTestTimeout, Listed, Anew
<1>2. TestsTimed /\ TimerCanRun /\ Listed(p) => ENABLED <<TestTimer>>_vars
  BY DEF TestsTimed, TimerCanRun, Listed
<1> QED
  BY <1>1, <1>2, TestsAreTimed, PTL DEF FairSpec

\* Every connection test ends, for any providers: by the timer, since the
\* answers do not count, whatever is configured, removed or queried meanwhile,
\* and if the timer is not started anew for ever by other tests.
THEOREM TestsConclude == FairSpec /\ []TimerCanRun => TestsEnd
<1>1. ASSUME NEW p \in Providers
      PROVE  (<>[]Listed(p) => []<>Anew)
               <=> (<>[](p \in activeRequests) => []<>(testTimer = "new"))
  <2>1. (Listed(p) <=> p \in activeRequests) /\ (Anew <=> testTimer = "new")
    BY DEF Listed, Anew
  <2> QED
    BY <2>1, PTL
<1> QED
  BY <1>1, ListedEnds DEF TestsEnd

=============================================================================
