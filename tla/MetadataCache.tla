---------------------------- MODULE MetadataCache -----------------------------
(***************************************************************************)
(* The start of the server and its OIDC metadata.  A provider's discovery  *)
(* document is read from the cache file of its host or fetched and saved   *)
(* there; one goroutine per provider sends its result to SetupProviders,   *)
(* which panics on an error; once it has returned, a background goroutine  *)
(* fetches the documents anew at every tick.  Files outlive the process.   *)
(*                                                                         *)
(* A document is known by the issuer it names; Garbage is file content     *)
(* that is no document: an error page, a file truncated and not written.   *)
(***************************************************************************)
EXTENDS Naturals, Sequences, FiniteSets

CONSTANTS Tenants,   \* issuers of Microsoft's tenants, "organizations" among them
          Google,    \* the issuer of Google
          Absent, Garbage, Nothing

ASSUME CacheAssumption ==
  /\ Tenants # {}
  /\ Google \notin Tenants
  /\ {Absent, Garbage, Nothing} \cap (Tenants \cup {Google}) = {}
  /\ Absent # Garbage /\ Absent # Nothing /\ Garbage # Nothing

Hosts == {"microsoft", "google"}
Goroutines == Hosts \cup {"refresher"}
Documents == Tenants \cup {Google}

VARIABLES
  files,      \* cacheDir, by host
  outside,    \* "good": providers answer with their document and files can be written
  server,     \* "down", "booting" or "up"
  tenant,     \* the issuer that cfg.Microsoft.TenantID stands for
  enabled,    \* the providers with a ClientID
  at,         \* where each provider's goroutine and the background one are
  target,     \* the host the background goroutine is at
  body,       \* the answer a goroutine has got, Nothing for an error
  results,    \* the channel ch
  received,   \* how many results were taken from it
  providers,  \* the map that SetupProviders returns: the document of a provider
  clean       \* history: every file the start needs was right when it began

collected == <<results, received, providers>>
config == <<tenant, enabled, clean>>
cacheVars == <<files, outside, server, config, at, target, body, collected>>

\* The issuer whose document is asked of a host, under tenant t.
IssuerAt(h, t) == IF h = "microsoft" THEN t ELSE Google
Issuer(h) == IssuerAt(h, tenant)

CacheInit ==
  /\ files = [h \in Hosts |-> Absent]
  /\ outside = "good"
  /\ server = "down"
  /\ tenant = (CHOOSE t \in Tenants : TRUE) /\ enabled = {} /\ clean = FALSE
  /\ at = [g \in Goroutines |-> "none"]
  /\ target = "microsoft"
  /\ body = [g \in Goroutines |-> Nothing]
  /\ results = <<>> /\ received = 0
  /\ providers = [h \in Hosts |-> Nothing]

-------------------------------------------------------------------------------
(* The world: network, disk, and whoever starts the process or kills it.      *)

Weather ==
  /\ outside' \in {"good", "bad"} \ {outside}
  /\ UNCHANGED <<files, server, config, at, target, body, collected>>

\* main up to the collection of the results.
Boot(t, E) ==
  /\ server = "down" /\ server' = "booting"
  /\ tenant' = t /\ enabled' = E
  /\ clean' = \A h \in E : files[h] = IssuerAt(h, t)
  /\ at' = [g \in Goroutines |-> IF g \in E THEN "read" ELSE "none"]
  /\ UNCHANGED <<files, outside, target, body, collected>>

\* What is in memory is gone, and what a goroutine was about to write.
Die ==
  /\ server' = "down"
  /\ at' = [g \in Goroutines |-> "none"]
  /\ target' = "microsoft"
  /\ body' = [g \in Goroutines |-> Nothing]
  /\ results' = <<>> /\ received' = 0
  /\ providers' = [h \in Hosts |-> Nothing]
  /\ UNCHANGED <<files, outside, config>>

Crash == server # "down" /\ Die

-------------------------------------------------------------------------------
(* cachingRoundTripper.                                                       *)

goto(g, l) == at' = [at EXCEPT ![g] = l]

Host(g) == IF g = "refresher" THEN target ELSE g

\* A start that asks the network first.
RoundTripUncached(h) ==
  /\ at[h] = "read"
  /\ goto(h, "fetch")
  /\ UNCHANGED <<files, outside, server, config, target, body, collected>>

\* A HIT serves whatever the file holds, with status 200.
RoundTrip(h) ==
  /\ at[h] = "read"
  /\ \/ /\ files[h] # Absent
        /\ body' = [body EXCEPT ![h] = files[h]]
        /\ goto(h, "answered")
     \/ /\ files[h] = Absent
        /\ goto(h, "fetch")
        /\ UNCHANGED body
  /\ UNCHANGED <<files, outside, server, config, target, collected>>

\* A response of any status, or an error; the 15 seconds of the start's context are one.
Answers(h) == IF outside = "good" THEN {Issuer(h)} ELSE {Garbage, Nothing}

\* fetchAndCache: the response, and os.WriteFile, which truncates the file before it
\* writes, or fails before that.
fetchAndCache(g) ==
  /\ at[g] = "fetch"
  /\ \E a \in Answers(Host(g)) :
       /\ body' = [body EXCEPT ![g] = a]
       /\ \/ /\ a = Nothing \/ outside = "bad"
             /\ goto(g, "answered") /\ UNCHANGED files
          \/ a # Nothing /\ goto(g, "write") /\ files' = [files EXCEPT ![Host(g)] = Garbage]
  /\ UNCHANGED <<outside, server, config, target, collected>>

\* A write that fails is logged.
Write(g) ==
  /\ at[g] = "write"
  /\ \/ files' = [files EXCEPT ![Host(g)] = body[g]]
     \/ outside = "bad" /\ UNCHANGED files
  /\ goto(g, "answered")
  /\ UNCHANGED <<outside, server, config, target, body, collected>>

-------------------------------------------------------------------------------
(* SetupProviders.                                                            *)

\* What oidc.NewProvider makes of an answer: the document, if its issuer is the one that
\* was asked for.
NewProvider(h) == IF body[h] = Issuer(h) THEN body[h] ELSE Nothing

\* A goroutine that returns without a word when NewProvider fails.
SendUnlessFailed(h) ==
  /\ at[h] = "answered"
  /\ results' = IF NewProvider(h) = Nothing THEN results
                ELSE Append(results, [kind |-> h, provider |-> NewProvider(h)])
  /\ goto(h, "none")
  /\ UNCHANGED <<files, outside, server, config, target, body, received, providers>>

\* A goroutine that does not return after it has sent an error.
SendTwice(h) ==
  /\ at[h] = "answered"
  /\ LET r == [kind |-> h, provider |-> NewProvider(h)]
     IN  results' = results \o (IF r.provider = Nothing THEN <<r, r>> ELSE <<r>>)
  /\ goto(h, "none")
  /\ UNCHANGED <<files, outside, server, config, target, body, received, providers>>

\* ch <- result; the channel has room for both.
Send(h) ==
  /\ at[h] = "answered"
  /\ results' = Append(results, [kind |-> h, provider |-> NewProvider(h)])
  /\ goto(h, "none")
  /\ UNCHANGED <<files, outside, server, config, target, body, received, providers>>

Receive ==
  /\ results' = Tail(results) /\ received' = received + 1
  /\ providers' = [providers EXCEPT ![Head(results).kind] = Head(results).provider]
  /\ UNCHANGED <<files, outside, server, config, at, target, body>>

\* An error that is passed over.
CollectAll == server = "booting" /\ results # <<>> /\ Receive

\* res := <-ch; an error is a panic, which takes the process down wherever its other
\* goroutines are.
Collect ==
  /\ server = "booting" /\ results # <<>>
  /\ IF Head(results).provider = Nothing THEN Die ELSE Receive

\* All results are in: the background goroutine is started and the server listens.
Listen ==
  /\ server = "booting" /\ received = Cardinality(enabled)
  /\ server' = "up"
  /\ goto("refresher", "idle")
  /\ UNCHANGED <<files, outside, config, target, body, collected>>

-------------------------------------------------------------------------------
(* The background goroutine.                                                  *)

Tick ==
  /\ at["refresher"] = "idle"
  /\ goto("refresher", "fetch")
  /\ UNCHANGED <<files, outside, server, config, target, body, collected>>

\* A loop that gives up at the first error.
RefreshStrict ==
  /\ at["refresher"] = "answered"
  /\ IF body["refresher"] = Nothing THEN goto("refresher", "none") /\ UNCHANGED target
     ELSE IF target = "microsoft" THEN target' = "google" /\ goto("refresher", "fetch")
     ELSE target' = "microsoft" /\ goto("refresher", "idle")
  /\ UNCHANGED <<files, outside, server, config, body, collected>>

\* ForceRefresh has returned, its error is logged: the next host, enabled or not, or the
\* next tick.
Refresh ==
  /\ at["refresher"] = "answered"
  /\ IF target = "microsoft" THEN target' = "google" /\ goto("refresher", "fetch")
     ELSE target' = "microsoft" /\ goto("refresher", "idle")
  /\ UNCHANGED <<files, outside, server, config, body, collected>>

-------------------------------------------------------------------------------

Work(g) ==
  IF g = "refresher" THEN Tick \/ fetchAndCache(g) \/ Write(g) \/ Refresh
  ELSE RoundTrip(g) \/ fetchAndCache(g) \/ Write(g) \/ Send(g)

Main == Collect \/ Listen

CacheNext ==
  \/ Weather
  \/ \E t \in Tenants, E \in SUBSET Hosts : Boot(t, E)
  \/ Crash
  \/ Main
  \/ \E g \in Goroutines : Work(g)

\* The scheduler runs every goroutine that can run; requests of the start end within its
\* context's 15 seconds, and of those of the refresher we assume that they end.  Nobody
\* has to start the process, and nothing has to kill it.
CacheFairness ==
  WF_cacheVars(Main) /\ \A g \in Goroutines : WF_cacheVars(Work(g))

CacheSpec == CacheInit /\ [][CacheNext]_cacheVars /\ CacheFairness

-------------------------------------------------------------------------------

Contents == Documents \cup {Absent, Garbage}

CacheTypeOK ==
  /\ files \in [Hosts -> Contents]
  /\ outside \in {"good", "bad"} /\ server \in {"down", "booting", "up"}
  /\ tenant \in Tenants /\ enabled \subseteq Hosts /\ clean \in BOOLEAN
  /\ at \in [Goroutines -> {"none", "read", "fetch", "write", "answered", "idle"}]
  /\ target \in Hosts
  /\ body \in [Goroutines -> Documents \cup {Garbage, Nothing}]
  /\ results \in Seq([kind : Hosts, provider : Documents \cup {Nothing}])
  /\ received \in 0..2 /\ received + Len(results) <= 2
  /\ providers \in [Hosts -> Documents \cup {Nothing}]

\* A server that listens has every provider that is configured and no other, each with
\* the document of the issuer it is configured for, whatever an earlier process with
\* another tenant, a crash in a write or a refresh left in the files.
ListensWithItsProviders ==
  server = "up" =>
    \A h \in Hosts : providers[h] = IF h \in enabled THEN Issuer(h) ELSE Nothing

\* A start whose files are right never panics, whatever the network does meanwhile.
OfflineStart ==
  clean /\ server = "booting" =>
    \A i \in 1..Len(results) : results[i].provider # Nothing

\* A start comes to its end, for better or worse: the collection never waits for a result
\* that is not sent.
BootDecides == server = "booting" ~> server # "booting"

\* Once a server that stays up is in good weather for good, the refresher puts the files
\* right, whatever they held before and whichever refreshes failed, and from then on a
\* file is not right only while it is being written again.
RefreshHeals ==
  <>[](server = "up" /\ outside = "good") =>
    <>[](\A h \in Hosts :
           files[h] = Issuer(h) \/ (at["refresher"] = "write" /\ target = h))
===============================================================================
