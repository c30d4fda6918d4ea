----------------------------- MODULE ApiManager -----------------------------
(***************************************************************************)
(* ApiManager: the configurations of the providers, their keys and the     *)
(* encryption of those, what QSettings holds of them, the connection       *)
(* tests, and the queries with their rate limit.                           *)
(*                                                                         *)
(* queryModel waits for its reply in an event loop of its own, from which  *)
(* any other call may be made, a further query included: the queries form  *)
(* a stack, and only the innermost returns.                                *)
(*                                                                         *)
(* A stored key is the key it was made of and how many times encryptApiKey *)
(* has been applied; decryptApiKey takes one layer off.                    *)
(***************************************************************************)
EXTENDS Naturals, Sequences, FiniteSets, SequencesExt

CONSTANTS
  Providers,     \* members of enum Provider
  Named,         \* those with a name of their own, hence a group in QSettings
  NeedsKey,      \* those whose ProviderInfo requires a key
  Timed,         \* those setupRateLimiting made a timer for
  Keys,          \* keys a user may enter
  Limits,        \* values of rateLimitRpm
  MaxNested,     \* bound: how deep queries nest
  MaxToggles     \* bound: how often encryption is switched

NoKey == "no key"      \* a configuration without a key
Blank == "blank"       \* one made by QMap::operator[]: disabled, no URL
Absent == "absent"     \* no configuration

ASSUME ConstantsAssumption ==
  /\ Named \subseteq Providers /\ NeedsKey \subseteq Named
  /\ Timed \subseteq Providers /\ Keys \intersect {NoKey, Blank, Absent} = {}
  /\ Limits \subseteq Nat /\ MaxNested \in Nat /\ MaxToggles \in Nat

VARIABLES
  configurations,      \* m_configurations: each provider's key, as stored, and
                       \* its limit of requests
  encryptionEnabled,   \* m_encryptionEnabled
  settings,            \* QSettings: the flag and the group of each name
  phase,               \* of m_instance, see Phases
  status,              \* the configurations' status
  activeRequests,      \* m_activeRequests: providers with a test pending
  testTimer,           \* m_connectionTestTimer, see TestTimers
  queries,             \* providers of the queries under way, innermost last
  requestCounts,       \* m_requestCounts
  rateTimers,          \* providers whose rate limit timer runs
  \* history
  toggles,             \* how often encryption was switched
  given,               \* the key the user last gave each provider
  garbled,             \* providers whose key was stored when encryption was
                       \* switched off, or that came back after a removal
  nested,              \* providers queried while a query of theirs was under
                       \* way
  highest              \* the highest limit a provider has had in this object

configVars == <<configurations, encryptionEnabled, settings, toggles, given,
                garbled>>
testVars == <<status, activeRequests, testTimer>>
queryVars == <<queries, requestCounts, rateTimers, nested, highest>>
vars == <<configVars, testVars, queryVars, phase>>

-----------------------------------------------------------------------------
\* undefined: destroyed while a query waits in its event loop
Phases == {"closed", "open", "undefined"}

\* m_connectionTestTimer rests, has been started just now, or is about to fire.
TestTimers == {"off", "new", "due"}

Config == [key : Keys \union {NoKey, Blank, Absent}, layers : Nat, limit : Nat]
Stored(k, n, limit) == [key |-> k, layers |-> n, limit |-> limit]
Nothing == Stored(Absent, 0, 0)

Configured(p) == configurations[p].key # Absent
HasKey(c) == c.key \in Keys

\* encryptApiKey, which does nothing while encryption is off.
Layers(enabled, k) == IF enabled /\ k \in Keys THEN 1 ELSE 0

\* What getApiConfig hands out is the key it was made of.
ReadsBack(p) == HasKey(configurations[p]) =>
  configurations[p].layers = Layers(encryptionEnabled, configurations[p].key)

hasValidConfig(p) ==
  configurations[p].key \in Keys \union (IF p \in NeedsKey THEN {} ELSE {NoKey})

isRequestAllowed(p) == Configured(p) /\ requestCounts[p] < configurations[p].limit

Init ==
  /\ configurations = [p \in Providers |-> Nothing]
  /\ encryptionEnabled = TRUE
  /\ settings = [encryption |-> TRUE, groups |-> [p \in Named |-> Nothing]]
  /\ phase = "closed" /\ status = [p \in Providers |-> "NotConfigured"]
  /\ activeRequests = {} /\ testTimer = "off" /\ queries = <<>>
  /\ requestCounts = [p \in Providers |-> 0] /\ rateTimers = {} /\ toggles = 0
  /\ given = [p \in Providers |-> Absent] /\ garbled = {} /\ nested = {}
  /\ highest = [p \in Providers |-> 0]

\* saveConfiguration: groups of providers no longer configured stay.
Save == settings' =
  [encryption |-> encryptionEnabled',
   groups |-> [p \in Named |-> IF configurations'[p].key # Absent
                                 THEN configurations'[p]
                                 ELSE settings.groups[p]]]

-----------------------------------------------------------------------------
(***************************************************************************)
(* The object's life.                                                      *)
(***************************************************************************)

\* Removed, and still in QSettings.
Returning == {p \in Named : given[p] = Absent /\ settings.groups[p].key # Absent}

\* Variant with a defect: the flag is not loaded.
instanceForgettingFlag ==
  /\ phase = "closed"
  /\ phase' = "open" /\ encryptionEnabled' = TRUE
  /\ configurations' =
       [p \in Providers |-> IF p \in Named THEN settings.groups[p] ELSE Nothing]
  /\ status' \in [Providers -> {"NotConfigured", "Connected", "Failed"}]
  /\ \A p \in Providers :
       configurations'[p].key = Absent => status'[p] = "NotConfigured"
  /\ requestCounts' = [p \in Providers |-> 0]
  /\ garbled' = garbled \union Returning /\ nested' = {}
  /\ highest' = [p \in Providers |-> configurations'[p].limit]
  /\ UNCHANGED <<settings, toggles, given, activeRequests, testTimer, queries,
                 rateTimers>>

\* The constructor and loadConfiguration, which leaves the status of what it
\* loads uninitialised.  A group whose name no provider has is skipped.
instance ==
  /\ phase = "closed"
  /\ phase' = "open" /\ encryptionEnabled' = settings.encryption
  /\ configurations' =
       [p \in Providers |-> IF p \in Named THEN settings.groups[p] ELSE Nothing]
  /\ status' \in [Providers -> {"NotConfigured", "Connected", "Failed"}]
  /\ \A p \in Providers :
       configurations'[p].key = Absent => status'[p] = "NotConfigured"
  /\ requestCounts' = [p \in Providers |-> 0]
  /\ garbled' = garbled \union Returning /\ nested' = {}
  /\ highest' = [p \in Providers |-> configurations'[p].limit]
  /\ UNCHANGED <<settings, toggles, given, activeRequests, testTimer, queries,
                 rateTimers>>

\* What the end of the object or of the process leaves.
Gone ==
  /\ activeRequests' = {} /\ testTimer' = "off" /\ queries' = <<>>
  /\ rateTimers' = {}

\* Under a query's event loop the query returns into a destroyed object.
destroyInstance ==
  /\ phase = "open"
  /\ phase' = IF queries = <<>> THEN "closed" ELSE "undefined"
  /\ Gone
  /\ UNCHANGED <<configurations, encryptionEnabled>>
  /\ Save
  /\ UNCHANGED <<status, requestCounts, toggles, given, garbled, nested, highest>>

\* The program exits or dies without destroying the instance, as it does.
exit ==
  /\ phase = "open"
  /\ phase' = "closed"
  /\ Gone
  /\ UNCHANGED <<configVars, status, requestCounts, nested, highest>>

-----------------------------------------------------------------------------
(***************************************************************************)
(* Configurations.                                                         *)
(***************************************************************************)

\* A configuration without a valid URL is refused.  The count stays.
setApiConfig(p, k, limit) ==
  /\ phase = "open"
  /\ configurations' =
       [configurations EXCEPT ![p] = Stored(k, Layers(encryptionEnabled, k), limit)]
  /\ highest' = [highest EXCEPT ![p] = IF @ < limit THEN limit ELSE @]
  /\ status' = [status EXCEPT ![p] = "NotConfigured"]
  /\ given' = [given EXCEPT ![p] = k] /\ garbled' = garbled \ {p}
  /\ UNCHANGED encryptionEnabled
  /\ Save
  /\ UNCHANGED <<phase, toggles, activeRequests, testTimer, queries, requestCounts,
                 rateTimers, nested>>

removeApiConfig(p) ==
  /\ phase = "open" /\ Configured(p)
  /\ configurations' = [configurations EXCEPT ![p] = Nothing]
  /\ status' = [status EXCEPT ![p] = "NotConfigured"]
  /\ given' = [given EXCEPT ![p] = Absent] /\ garbled' = garbled \ {p}
  /\ UNCHANGED encryptionEnabled
  /\ Save
  /\ UNCHANGED <<phase, toggles, activeRequests, testTimer, queryVars>>

\* The flag is changed first: switched off, decryptApiKey does nothing any
\* more and the keys stay encrypted.
enableApiKeyEncryption(enable) ==
  /\ phase = "open" /\ encryptionEnabled # enable /\ toggles < MaxToggles
  /\ toggles' = toggles + 1 /\ encryptionEnabled' = enable
  /\ configurations' =
       [p \in Providers |->
          IF enable /\ HasKey(configurations[p])
            THEN [configurations[p] EXCEPT !.layers = @ + 1]
            ELSE configurations[p]]
  /\ garbled' = IF enable THEN garbled
                ELSE garbled \union {p \in Providers : HasKey(configurations[p])}
  /\ UNCHANGED given
  /\ Save
  /\ UNCHANGED <<phase, testVars, queryVars>>

-----------------------------------------------------------------------------
(***************************************************************************)
(* Connection tests.  onNetworkReplyFinished is called by the network      *)
(* manager, takes it for the reply, fails and returns: an answer changes   *)
(* nothing, and every test ends by the timer.  There is one timer for all  *)
(* of them, and each test starts it anew.                                  *)
(***************************************************************************)

testConnection(p) ==
  /\ phase = "open" /\ hasValidConfig(p)
  /\ activeRequests' = activeRequests \union {p} /\ testTimer' = "new"
  /\ UNCHANGED <<phase, configVars, status, queryVars>>

\* Ten seconds pass.
tick ==
  /\ testTimer = "new"
  /\ testTimer' = "due"
  /\ UNCHANGED <<phase, configVars, status, activeRequests, queryVars>>

\* Variant with a defect: the timer's tests are not taken off the list.
onConnectionTestTimeoutKeeping ==
  /\ testTimer = "due"
  /\ testTimer' = "off"
  /\ status' = [p \in Providers |->
                  IF p \in activeRequests THEN "Failed" ELSE status[p]]
  /\ UNCHANGED <<phase, configVars, activeRequests, queryVars>>

\* A provider removed meanwhile gets a blank configuration.  A slot that is told
\* may test again: such a test is told in turn if its reply follows in the list,
\* and taken off the list with the others, whether told or not.
onConnectionTestTimeout ==
  /\ testTimer = "due"
  /\ \E again \in SUBSET {p \in Providers : hasValidConfig(p)} :
       /\ again # {} => activeRequests # {}
       /\ testTimer' = IF again = {} THEN "off" ELSE "new"
       /\ \E following \in SUBSET again :
            status' = [p \in Providers |->
                         IF p \in activeRequests \union following THEN "Failed"
                                                                ELSE status[p]]
  /\ configurations' = [p \in Providers |->
       IF p \in activeRequests /\ ~Configured(p) THEN Stored(Blank, 0, 0)
                                                 ELSE configurations[p]]
  /\ garbled' = garbled \union {p \in activeRequests : ~Configured(p)}
  /\ activeRequests' = {}
  /\ UNCHANGED <<phase, encryptionEnabled, settings, toggles, given, queryVars>>

-----------------------------------------------------------------------------
(***************************************************************************)
(* Queries.                                                                *)
(***************************************************************************)

Pending(p) == Cardinality({i \in DOMAIN queries : queries[i] = p})

\* Variant with a defect: the limit is not looked at.
queryModelUnlimited(p) ==
  /\ phase = "open" /\ hasValidConfig(p) /\ Len(queries) < MaxNested
  /\ queries' = Append(queries, p)
  /\ nested' = IF Pending(p) > 0 THEN nested \union {p} ELSE nested
  /\ UNCHANGED <<phase, configVars, testVars, requestCounts, rateTimers, highest>>

\* Up to the event loop.  The request is counted only after it.
queryModel(p) ==
  /\ phase = "open" /\ hasValidConfig(p) /\ isRequestAllowed(p)
  /\ Len(queries) < MaxNested
  /\ queries' = Append(queries, p)
  /\ nested' = IF Pending(p) > 0 THEN nested \union {p} ELSE nested
  /\ UNCHANGED <<phase, configVars, testVars, requestCounts, rateTimers, highest>>

\* The innermost event loop ends, with an answer or an error: updateRateLimit
\* (re)starts the timer.
queryReturns ==
  /\ queries # <<>>
  /\ LET p == Last(queries)
     IN  /\ requestCounts' = [requestCounts EXCEPT ![p] = @ + 1]
         /\ rateTimers' = rateTimers \union ({p} \intersect Timed)
  /\ queries' = Front(queries)
  /\ UNCHANGED <<phase, configVars, testVars, nested, highest>>

\* The timer's lambda calls onRateLimitReset directly: there is no sender, and
\* it returns before it resets the count.
onRateLimitReset(p) ==
  /\ p \in rateTimers
  /\ rateTimers' = rateTimers \ {p}
  /\ UNCHANGED <<phase, configVars, testVars, queries, requestCounts, nested, highest>>

-----------------------------------------------------------------------------
Life == instance \/ destroyInstance \/ exit
Configure ==
  \/ \E p \in Providers : \/ \E k \in Keys \union {NoKey}, limit \in Limits :
                               setApiConfig(p, k, limit)
                          \/ removeApiConfig(p)
  \/ \E enable \in BOOLEAN : enableApiKeyEncryption(enable)
TestTimer == tick \/ onConnectionTestTimeout
Test == (\E p \in Providers : testConnection(p)) \/ TestTimer
Query == \/ \E p \in Providers : queryModel(p) \/ onRateLimitReset(p)
         \/ queryReturns

Next == Life \/ Configure \/ Test \/ Query

Spec == Init /\ [][Next]_vars

\* The timers run, and fire if they are not started anew before.  Nothing is
\* assumed of the network or the user.
FairSpec ==
  /\ Spec
  /\ WF_vars(TestTimer)
  /\ \A p \in Providers : WF_vars(onRateLimitReset(p))

-----------------------------------------------------------------------------
(***************************************************************************)
(* Properties.                                                             *)
(***************************************************************************)

\* Every variable has its type.
TypeOK ==
  /\ configurations \in [Providers -> Config]
  /\ encryptionEnabled \in BOOLEAN
  /\ settings \in [encryption : BOOLEAN, groups : [Named -> Config]]
  /\ phase \in Phases
  /\ status \in [Providers -> {"NotConfigured", "Connected", "Failed"}]
  /\ activeRequests \subseteq Providers
  /\ testTimer \in TestTimers
  /\ queries \in Seq(Providers) /\ Len(queries) <= MaxNested
  /\ requestCounts \in [Providers -> Nat]
  /\ rateTimers \subseteq Timed
  /\ toggles \in 0 .. MaxToggles
  /\ given \in [Providers -> Keys \union {NoKey, Absent}]
  /\ garbled \subseteq Providers
  /\ nested \subseteq Providers
  /\ highest \in [Providers -> Nat]

\* Whatever was set, removed, switched or restarted, a provider with a name is
\* configured as the user last said, and its key reads back as entered, unless
\* encryption was switched off over it or it came back after a removal.
KeysReadBack ==
  phase = "open" => \A p \in Named \ garbled :
    configurations[p].key = given[p] /\ ReadsBack(p)

\* While encryption is on, a stored key is encrypted, in memory and on disk;
\* only what was removed may be there in another form.
StoredEncrypted ==
  /\ phase = "open" /\ encryptionEnabled => \A p \in Providers :
       HasKey(configurations[p]) /\ given[p] # Absent
       => configurations[p].layers > 0
  /\ settings.encryption => \A p \in Named :
       HasKey(settings.groups[p]) /\ given[p] # Absent
       => settings.groups[p].layers > 0

\* A key is neither lost nor laid open by any of this.
KeysAreSafe == KeysReadBack /\ StoredEncrypted

\* No more queries are made of a provider, those under way included, than the
\* highest limit it was given allows, if its queries do not nest: a limit that
\* is lowered does not undo the queries before, nor start the count anew
\* (api_manager.cpp:191), and a query that waits does not count yet.
LimitIsKept ==
  phase = "open" => \A p \in Providers \ nested :
    requestCounts[p] + Pending(p) <= highest[p]

\* A connection test is concluded, answered or not, ten seconds after the last
\* test that was started: one is pending for ever only if the timer is started
\* anew for ever before it fires (api_manager.cpp:274).
TestsEnd ==
  \A p \in Providers :
    <>[](p \in activeRequests) => []<>(testTimer = "new")

-----------------------------------------------------------------------------
(***************************************************************************)
(* What a comment says, and the code does not do.                          *)
(***************************************************************************)

\* "Reset counter after 1 minute" (api_manager.cpp:651): a provider at its
\* limit accepts requests again, once the timer has fired, unless the
\* configuration or the program goes.
LimitIsLifted ==
  \A p \in Timed :
    Configured(p) /\ configurations[p].limit > 0 /\ phase = "open"
    ~> isRequestAllowed(p) \/ ~Configured(p) \/ phase # "open"

=============================================================================
