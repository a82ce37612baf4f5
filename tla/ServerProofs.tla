----------------------------- MODULE ServerProofs ------------------------------
(***************************************************************************)
(* Server for every set of tenants, users, sids, requests and secrets: the *)
(* start's providers, the start without a network, and the two properties  *)
(* of the second factor.                                                   *)
(***************************************************************************)
EXTENDS Server, FiniteSetTheorems, SequenceTheorems, TLAPS

\* The goroutines of the start that have not sent their result.
Busy == {h \in Hosts : at[h] # "none"}

CacheTypes ==
  /\ files \in [Hosts -> Contents]
  /\ outside \in {"good", "bad"} /\ server \in {"down", "booting", "up"}
  /\ tenant \in Tenants /\ enabled \subseteq Hosts /\ clean \in BOOLEAN
  /\ at \in [Goroutines -> {"none", "read", "fetch", "write", "answered", "idle"}]
  /\ target \in Hosts
  /\ body \in [Goroutines -> Documents \cup {Garbage, Nothing}]
  /\ results \in Seq([kind : Hosts, provider : Documents \cup {Nothing}])
  /\ received \in Nat
  /\ providers \in [Hosts -> Documents \cup {Nothing}]

\* A process that is down has no memory, and no refresher runs before it listens.
DownInv ==
  /\ server = "down" =>
       /\ \A g \in Goroutines : at[g] = "none"
       /\ results = <<>> /\ received = 0
       /\ \A h \in Hosts : providers[h] = Nothing
  /\ server # "up" => at["refresher"] = "none"

\* Only providers that are configured have goroutines and results, a document is the one
\* that was asked for, and nothing is not written.
DocumentInv ==
  /\ Busy \subseteq enabled
  /\ \A g \in Goroutines : at[g] = "write" => body[g] # Nothing
  /\ \A i \in 1..Len(results) :
       /\ results[i].kind \in enabled
       /\ results[i].provider \in {Issuer(results[i].kind), Nothing}
  /\ \A h \in Hosts : providers[h] = Nothing \/ (h \in enabled /\ providers[h] = Issuer(h))

\* Each goroutine sends one result.
TallyInv ==
  server # "down" => received + Len(results) + Cardinality(Busy) = Cardinality(enabled)

\* No provider gets lost between its goroutine and the map.
AccountInv ==
  server = "booting" =>
    \A h \in enabled :
      \/ at[h] # "none"
      \/ \E i \in 1..Len(results) : results[i].kind = h
      \/ providers[h] # Nothing

\* A start whose files are right reads nothing else.
CleanInv ==
  clean /\ server = "booting" =>
    /\ \A h \in enabled : files[h] = Issuer(h)
    /\ \A h \in Hosts : at[h] \in {"none", "read", "answered"}
    /\ \A h \in Hosts : at[h] = "answered" => body[h] = Issuer(h)
    /\ \A i \in 1..Len(results) : results[i].provider # Nothing

CacheIInv == /\ CacheTypes /\ DownInv /\ DocumentInv /\ TallyInv /\ AccountInv /\ CleanInv
             /\ ListensWithItsProviders

\* What MFAEnforce lets through of a session to a handler that is not excepted.
Vetted(s) == LocalRequired /\ s.provider = "local" => secret[s.user] # None

\* Where a request with locals v is on its path, and what it knows there.
OnPath(l, v) ==
  /\ l \in {"password", "factor", "code"} => v.path \in Logins
  /\ l = "credential" => v.path = "signup"
  /\ l = "org" => v.path \in Begins
  /\ l # "idle" /\ v.path \in Begins => v.user \in Users
  /\ l \in {"enrolled", "serve"} => v.sess # None

\* A session that MFAEnforce has looked at is the one that is read again, if it is still
\* there, and its user keeps the factor.
Looked(l, v) ==
  /\ l = "enrolled" => ReadSession(v.sid) \in {None, v.sess}
  /\ l \in {"auth", "handler"} /\ v.path \notin Allowed /\ ReadSession(v.sid) # None =>
       Vetted(ReadSession(v.sid))
  /\ l \in {"role", "serve"} /\ v.path \notin Allowed /\ v.sess # None => Vetted(v.sess)

\* Whoever logs in unproven has had a factor since the request came.
Proving(l, v) ==
  /\ v.by = "unproven" => v.path \in Logins /\ v.user \in Users /\ secret[v.user] # None
  /\ v.by = "signup" <=> v.path = "signup"
  /\ l = "org" => v.by # "unproven"

\* All that holds of a request, from the sid it names on.
Good(l, v) ==
  /\ v.sid # None => v.sid \in issued
  /\ OnPath(l, v) /\ Looked(l, v) /\ Proving(l, v)

RequestInv == \A r \in Requests : Good(pc[r], loc[r])

SigningUp(l, v) == l = "org" /\ v.by = "signup"

\* The credential of a user is the ticket for one session of a sign-up, and is punched by
\* the request that writes it.
SignupInv ==
  /\ \A r \in Requests : SigningUp(pc[r], loc[r]) =>
       /\ loc[r].user \in credentials
       /\ \A q \in Requests : SigningUp(pc[q], loc[q]) /\ loc[q].user = loc[r].user => q = r
       /\ \A x \in issued : begun[x].by = "signup" => begun[x].user # loc[r].user
  /\ \A x \in issued : begun[x].by = "signup" => begun[x].user \in credentials

SidInv == \A x \in Sids : sessions[x] # None => x \in issued

GateIInv == GateTypeOK /\ SidInv /\ RequestInv /\ SignupInv /\ SecondFactorAsked

IInv == CacheIInv /\ GateIInv

-------------------------------------------------------------------------------
(* The start.                                                                  *)

LEMMA HostsFinite == IsFiniteSet(Hosts) /\ Cardinality(Hosts) = 2
<1>1. IsFiniteSet({"microsoft"}) /\ Cardinality({"microsoft"}) = 1
  BY FS_Singleton
<1>2. Hosts = {"microsoft"} \cup {"google"} /\ "google" \notin {"microsoft"}
  BY DEF Hosts
<1> QED BY <1>1, <1>2, FS_AddElement

LEMMA HostSetFinite ==
  ASSUME NEW S \in SUBSET Hosts
  PROVE  IsFiniteSet(S) /\ Cardinality(S) \in Nat /\ Cardinality(S) <= 2
<1>1. IsFiniteSet(S) /\ Cardinality(S) <= 2
  BY HostsFinite, FS_Subset
<1> QED BY <1>1, FS_CardinalityType

\* Neither the background goroutine nor one that goes on changes who is Busy.
LEMMA GoneRefresher ==
  ASSUME CacheTypes, NEW l, goto("refresher", l)
  PROVE  Busy' = Busy
<1>1. \A h \in Hosts : at'[h] = at[h]
  BY DEF CacheTypes, goto, Goroutines, Hosts
<1> QED BY <1>1 DEF Busy

LEMMA GoneOn ==
  ASSUME CacheTypes, NEW g \in Goroutines, at[g] # "none",
         NEW l, l # "none", goto(g, l)
  PROVE  Busy' = Busy
<1>1. \A h \in Hosts : at'[h] = IF h = g THEN l ELSE at[h]
  BY DEF CacheTypes, goto, Goroutines
<1> QED BY <1>1 DEF Busy

\* Then the tally is kept if the channel is.
LEMMA TallyKept ==
  ASSUME TallyInv, Busy' = Busy, UNCHANGED <<results, received, enabled>>,
         server' # "down" => server # "down"
  PROVE  TallyInv'
  BY DEF TallyInv

\* One lemma for each action of the start, one step for each part of the invariant.
LEMMA WeatherStep ==
  ASSUME CacheIInv, Weather
  PROVE  CacheIInv'
<1>1. CacheTypes'
  BY DEF CacheIInv, CacheTypes, collected, config, Weather
<1>2. DownInv'
  BY DEF CacheIInv, DownInv, collected, Weather
<1>3. DocumentInv'
  BY DEF CacheIInv, DocumentInv, Busy, Issuer, collected, config, Weather
<1>4. TallyInv'
  BY DEF CacheIInv, TallyInv, Busy, collected, config, Weather
<1>5. AccountInv'
  BY DEF CacheIInv, AccountInv, collected, config, Weather
<1>6. CleanInv'
  BY DEF CacheIInv, CleanInv, Issuer, collected, config, Weather
<1>7. ListensWithItsProviders'
  BY DEF CacheIInv, ListensWithItsProviders, Issuer, collected, config, Weather
<1> QED BY <1>1, <1>2, <1>3, <1>4, <1>5, <1>6, <1>7 DEF CacheIInv

LEMMA BootStep ==
  ASSUME CacheIInv, NEW t \in Tenants, NEW E \in SUBSET Hosts, Boot(t, E)
  PROVE  CacheIInv'
<1>1. CacheTypes'
  BY DEF CacheIInv, CacheTypes, collected, Boot
<1>2. DownInv'
  BY DEF DownInv, Hosts, Goroutines, Boot
<1>3. DocumentInv'
  BY DEF CacheIInv, DownInv, DocumentInv, Busy, collected, Goroutines, Boot
<1>4. TallyInv'
  <2>1. server = "down" /\ enabled' = E /\ UNCHANGED <<results, received>>
    BY DEF Boot, collected
  <2>2. results' = <<>> /\ received' = 0
    BY <2>1 DEF CacheIInv, DownInv
  <2>3. Busy' = E
    <3>1. \A k \in Hosts : at'[k] = IF k \in E THEN "read" ELSE "none"
      BY DEF Boot, Goroutines
    <3> QED BY <3>1 DEF Busy
  <2>4. Cardinality(E) \in Nat
    BY HostSetFinite
  <2> QED BY <2>1, <2>2, <2>3, <2>4 DEF TallyInv
<1>5. AccountInv'
  BY DEF AccountInv, Goroutines, Boot
<1>6. CleanInv'
  <2>1. /\ server = "down" /\ enabled' = E /\ tenant' = t /\ UNCHANGED <<files, results>>
        /\ clean' = \A h \in E : files[h] = IssuerAt(h, t)
        /\ \A h \in Hosts : at'[h] \in {"none", "read"}
    BY DEF Boot, collected, Goroutines
  <2>2. results' = <<>>
    BY <2>1 DEF CacheIInv, DownInv
  <2>3. \A h \in Hosts : Issuer(h)' = IssuerAt(h, t)
    BY <2>1 DEF Issuer, IssuerAt
  <2>4. clean' => \A h \in E : files'[h] = Issuer(h)'
    BY <2>1, <2>3
  <2>5. \A i \in 1..Len(results') : FALSE
    BY <2>2
  <2>6. \A h \in Hosts : at'[h] \in {"none", "read", "answered"} /\ at'[h] # "answered"
    BY <2>1
  <2> QED BY <2>1, <2>4, <2>5, <2>6 DEF CleanInv
<1>7. ListensWithItsProviders'
  BY DEF ListensWithItsProviders, Boot
<1> QED BY <1>1, <1>2, <1>3, <1>4, <1>5, <1>6, <1>7 DEF CacheIInv

LEMMA DieStep ==
  ASSUME CacheIInv, Die
  PROVE  CacheIInv'
<1>1. CacheTypes'
  BY DEF CacheIInv, CacheTypes, Hosts, config, Die
<1>2. DownInv'
  BY DEF DownInv, Goroutines, Die
<1>3. DocumentInv'
  BY DEF DocumentInv, Busy, Goroutines, Die
<1>4. TallyInv'
  BY DEF TallyInv, Die
<1>5. AccountInv'
  BY DEF AccountInv, Die
<1>6. CleanInv'
  BY DEF CleanInv, Die
<1>7. ListensWithItsProviders'
  BY DEF ListensWithItsProviders, Die
<1> QED BY <1>1, <1>2, <1>3, <1>4, <1>5, <1>6, <1>7 DEF CacheIInv

LEMMA RoundTripStep ==
  ASSUME CacheIInv, NEW h \in Hosts, RoundTrip(h)
  PROVE  CacheIInv'
<1>1. CacheTypes'
  BY DEF CacheIInv, CacheTypes, Contents, collected, config, goto, RoundTrip
<1>2. DownInv'
  BY DEF CacheIInv, CacheTypes, DownInv, goto, Goroutines, RoundTrip
<1>3. DocumentInv'
  BY DEF CacheIInv, CacheTypes, DocumentInv, Busy, Issuer, collected, config, goto,
    Goroutines, RoundTrip
<1>4. TallyInv'
  <2>1. at[h] # "none" /\ (goto(h, "answered") \/ goto(h, "fetch"))
    BY DEF RoundTrip
  <2>2. Busy' = Busy
    BY <2>1, GoneOn DEF CacheIInv, Goroutines
  <2> QED BY <2>2, TallyKept DEF CacheIInv, RoundTrip, collected, config
<1>5. AccountInv'
  BY DEF CacheIInv, CacheTypes, AccountInv, collected, config, goto, Goroutines,
    RoundTrip
<1>6. CleanInv'
  BY CacheAssumption DEF CacheIInv, CacheTypes, CleanInv, DocumentInv, Busy, Issuer,
    IssuerAt, collected, config, goto, Goroutines, RoundTrip
<1>7. ListensWithItsProviders'
  BY DEF CacheIInv, ListensWithItsProviders, Issuer, collected, config, RoundTrip
<1> QED BY <1>1, <1>2, <1>3, <1>4, <1>5, <1>6, <1>7 DEF CacheIInv

LEMMA fetchAndCacheStep ==
  ASSUME CacheIInv, NEW g \in Goroutines, fetchAndCache(g)
  PROVE  CacheIInv'
<1>1. CacheTypes'
  BY DEF CacheIInv, CacheTypes, Issuer, IssuerAt, Documents, Contents, collected,
    config, goto, Answers, fetchAndCache
<1>2. DownInv'
  BY DEF CacheIInv, CacheTypes, DownInv, goto, Goroutines, fetchAndCache
<1>3. DocumentInv'
  BY DEF CacheIInv, CacheTypes, DocumentInv, Busy, Issuer, collected, config, goto,
    Goroutines, fetchAndCache
<1>4. TallyInv'
  <2>1. at[g] # "none" /\ (goto(g, "answered") \/ goto(g, "write"))
    BY DEF fetchAndCache
  <2>2. Busy' = Busy
    BY <2>1, GoneOn DEF CacheIInv
  <2> QED BY <2>2, TallyKept DEF CacheIInv, fetchAndCache, collected, config
<1>5. AccountInv'
  BY DEF CacheIInv, CacheTypes, AccountInv, collected, config, goto, Goroutines,
    fetchAndCache
<1>6. CleanInv'
  BY DEF CacheIInv, DownInv, CleanInv, config, Goroutines, fetchAndCache
<1>7. ListensWithItsProviders'
  BY DEF CacheIInv, ListensWithItsProviders, Issuer, collected, config,
    fetchAndCache
<1> QED BY <1>1, <1>2, <1>3, <1>4, <1>5, <1>6, <1>7 DEF CacheIInv

LEMMA WriteStep ==
  ASSUME CacheIInv, NEW g \in Goroutines, Write(g)
  PROVE  CacheIInv'
<1>1. CacheTypes'
  BY DEF CacheIInv, CacheTypes, DocumentInv, Contents, collected, config, goto,
    Write
<1>2. DownInv'
  BY DEF CacheIInv, DownInv, goto, Write
<1>3. DocumentInv'
  BY DEF CacheIInv, DocumentInv, Busy, Issuer, collected, config, goto, Write
<1>4. TallyInv'
  <2>1. at[g] # "none" /\ goto(g, "answered")
    BY DEF Write
  <2>2. Busy' = Busy
    BY <2>1, GoneOn DEF CacheIInv
  <2> QED BY <2>2, TallyKept DEF CacheIInv, Write, collected, config
<1>5. AccountInv'
  BY DEF CacheIInv, AccountInv, collected, config, goto, Write
<1>6. CleanInv'
  BY DEF CacheIInv, CacheTypes, DownInv, CleanInv, Issuer, collected, config, goto,
    Host, Write
<1>7. ListensWithItsProviders'
  BY DEF CacheIInv, ListensWithItsProviders, Issuer, collected, config, Write
<1> QED BY <1>1, <1>2, <1>3, <1>4, <1>5, <1>6, <1>7 DEF CacheIInv

LEMMA SendStep ==
  ASSUME CacheIInv, NEW h \in Hosts, Send(h)
  PROVE  CacheIInv'
<1>1. CacheTypes'
  BY CacheAssumption DEF CacheIInv, CacheTypes, Issuer, IssuerAt, config, goto,
    NewProvider, Goroutines, Send
<1>2. DownInv'
  BY DEF CacheIInv, DownInv, goto, Goroutines, Send
<1>3. DocumentInv'
  BY DEF CacheIInv, DownInv, DocumentInv, Busy, Issuer, config, goto, NewProvider,
    Send
<1>4. TallyInv'
  <2> DEFINE r == [kind |-> h, provider |-> NewProvider(h)]
  <2>1. /\ at[h] = "answered" /\ goto(h, "none") /\ results' = Append(results, r)
        /\ UNCHANGED <<server, enabled, received>>
    BY DEF Send, config
  <2>2. h \in Busy /\ Busy' = Busy \ {h}
    <3>1. \A k \in Hosts : at'[k] = IF k = h THEN "none" ELSE at[k]
      BY <2>1 DEF CacheIInv, CacheTypes, goto, Goroutines
    <3> QED BY <2>1, <3>1 DEF Busy
  <2>3. IsFiniteSet(Busy) /\ Cardinality(Busy) \in Nat
    BY HostSetFinite DEF Busy
  <2>4. Cardinality(Busy') = Cardinality(Busy) - 1
    BY <2>2, <2>3, FS_RemoveElement
  <2>5. Len(results') = Len(results) + 1 /\ Len(results) \in Nat
    <3>1. results \in Seq([kind : Hosts, provider : Documents \cup {Nothing}])
      BY DEF CacheIInv, CacheTypes
    <3>2. r \in [kind : Hosts, provider : Documents \cup {Nothing}]
      BY DEF CacheIInv, CacheTypes, NewProvider, Issuer, IssuerAt, Documents
    <3> HIDE DEF r
    <3> QED BY <2>1, <3>1, <3>2
  <2> QED BY <2>1, <2>3, <2>4, <2>5 DEF CacheIInv, CacheTypes, TallyInv
<1>5. AccountInv'
  BY DEF CacheIInv, AccountInv, config, goto, Send
<1>6. CleanInv'
  BY CacheAssumption DEF CacheIInv, CacheTypes, CleanInv, Issuer, IssuerAt, config,
    goto, NewProvider, Send
<1>7. ListensWithItsProviders'
  BY DEF CacheIInv, ListensWithItsProviders, Issuer, config, Send
<1> QED BY <1>1, <1>2, <1>3, <1>4, <1>5, <1>6, <1>7 DEF CacheIInv

LEMMA ReceiveStep ==
  ASSUME CacheIInv, Receive,
         server = "booting", results # <<>>, Head(results).provider # Nothing
  PROVE  CacheIInv'
<1>1. CacheTypes'
  <2>1. /\ results \in Seq([kind : Hosts, provider : Documents \cup {Nothing}])
        /\ results # <<>> /\ results' = Tail(results)
        /\ providers' = [providers EXCEPT ![Head(results).kind] = Head(results).provider]
    BY DEF CacheIInv, CacheTypes, Receive
  <2>2. /\ results' \in Seq([kind : Hosts, provider : Documents \cup {Nothing}])
        /\ Head(results) \in [kind : Hosts, provider : Documents \cup {Nothing}]
    BY <2>1, HeadTailProperties
  <2>3. providers' \in [Hosts -> Documents \cup {Nothing}]
    BY <2>1, <2>2 DEF CacheIInv, CacheTypes
  <2> QED BY <2>2, <2>3 DEF CacheIInv, CacheTypes, Receive, config
<1>2. DownInv'
  BY DEF CacheIInv, DownInv, Receive
<1>3. DocumentInv'
  BY DEF CacheIInv, DocumentInv, Busy, Issuer, config, Receive
<1>4. TallyInv'
  BY DEF CacheIInv, CacheTypes, TallyInv, Busy, config, Receive
<1>5. AccountInv'
  <2>1. /\ results \in Seq([kind : Hosts, provider : Documents \cup {Nothing}])
        /\ results # <<>> /\ results' = Tail(results)
        /\ providers' = [providers EXCEPT ![Head(results).kind] = Head(results).provider]
    BY DEF CacheIInv, CacheTypes, Receive
  <2>2. UNCHANGED <<server, enabled, at>>
    BY DEF Receive, config
  <2>3. ASSUME NEW h \in enabled, NEW i \in 1..Len(results), results[i].kind = h
        PROVE  \/ \E j \in 1..Len(results') : results'[j].kind = h
               \/ providers'[h] # Nothing
    <3>1. CASE i = 1
      <4>1. Head(results) = results[1] /\ h \in Hosts
        BY <2>1 DEF CacheIInv, CacheTypes
      <4> QED BY <2>1, <2>3, <3>1, <4>1 DEF CacheIInv, CacheTypes
    <3>2. CASE i # 1
      <4>1. i - 1 \in 1..Len(results') /\ results'[i - 1] = results[i]
        BY <2>1, <3>2
      <4> QED BY <2>3, <4>1
    <3> QED BY <3>1, <3>2
  <2>4. ASSUME NEW h \in enabled, providers[h] # Nothing PROVE providers'[h] # Nothing
    BY <2>1, <2>4 DEF CacheIInv, CacheTypes
  <2> QED BY <2>2, <2>3, <2>4 DEF CacheIInv, AccountInv
<1>6. CleanInv'
  BY DEF CacheIInv, CleanInv, Issuer, config, Receive
<1>7. ListensWithItsProviders'
  BY DEF ListensWithItsProviders, Receive
<1> QED BY <1>1, <1>2, <1>3, <1>4, <1>5, <1>6, <1>7 DEF CacheIInv

LEMMA ListenStep ==
  ASSUME CacheIInv, Listen
  PROVE  CacheIInv'
<1>1. CacheTypes'
  BY DEF CacheIInv, CacheTypes, collected, config, goto, Goroutines, Listen
<1>2. DownInv'
  BY DEF DownInv, Listen
<1>3. DocumentInv'
  BY DEF CacheIInv, DocumentInv, Issuer, Busy, Hosts, collected, config, goto,
    Listen
<1>4. TallyInv'
  <2>1. Busy' = Busy
    BY GoneRefresher DEF CacheIInv, Listen
  <2> QED BY <2>1, TallyKept DEF CacheIInv, Listen, collected, config
<1>5. AccountInv'
  BY DEF AccountInv, Listen
<1>6. CleanInv'
  BY DEF CleanInv, Listen
<1>7. ListensWithItsProviders'
  <2>1. /\ received = Cardinality(enabled) /\ server = "booting"
        /\ UNCHANGED <<tenant, enabled, providers>>
    BY DEF Listen, collected, config
  <2>2. Busy \in SUBSET Hosts /\ enabled \in SUBSET Hosts
    BY DEF CacheIInv, CacheTypes, Busy
  <2>3. Cardinality(Busy) \in Nat /\ Cardinality(enabled) \in Nat /\ Len(results) \in Nat
    BY <2>2, HostSetFinite DEF CacheIInv, CacheTypes
  <2>4. Cardinality(Busy) = 0 /\ Len(results) = 0
    BY <2>1, <2>3 DEF CacheIInv, TallyInv
  <2>5. Busy = {}
    BY <2>2, <2>4, HostSetFinite, FS_EmptySet
  <2>6. \A h \in enabled : providers[h] # Nothing
    BY <2>1, <2>2, <2>4, <2>5 DEF CacheIInv, AccountInv, Busy
  <2>7. \A h \in Hosts : providers[h] = IF h \in enabled THEN Issuer(h) ELSE Nothing
    BY <2>6 DEF CacheIInv, DocumentInv
  <2> QED BY <2>1, <2>7 DEF ListensWithItsProviders, Issuer, IssuerAt
<1> QED BY <1>1, <1>2, <1>3, <1>4, <1>5, <1>6, <1>7 DEF CacheIInv

LEMMA TickStep ==
  ASSUME CacheIInv, Tick
  PROVE  CacheIInv'
<1>1. CacheTypes'
  BY DEF CacheIInv, CacheTypes, collected, config, goto, Goroutines, Tick
<1>2. DownInv'
  BY DEF CacheIInv, DownInv, Tick
<1>3. DocumentInv'
  BY DEF CacheIInv, DocumentInv, Busy, Issuer, collected, config, goto, Tick
<1>4. TallyInv'
  <2>1. Busy' = Busy
    BY GoneRefresher DEF CacheIInv, Tick
  <2> QED BY <2>1, TallyKept DEF CacheIInv, Tick, collected, config
<1>5. AccountInv'
  BY DEF CacheIInv, DownInv, AccountInv, Tick
<1>6. CleanInv'
  BY DEF CacheIInv, DownInv, CleanInv, Tick
<1>7. ListensWithItsProviders'
  BY DEF CacheIInv, ListensWithItsProviders, Issuer, collected, config, Tick
<1> QED BY <1>1, <1>2, <1>3, <1>4, <1>5, <1>6, <1>7 DEF CacheIInv

LEMMA RefreshStep ==
  ASSUME CacheIInv, Refresh
  PROVE  CacheIInv'
<1>1. CacheTypes'
  BY DEF CacheIInv, CacheTypes, Hosts, collected, config, goto, Refresh
<1>2. DownInv'
  BY DEF CacheIInv, DownInv, Refresh
<1>3. DocumentInv'
  BY DEF CacheIInv, CacheTypes, DocumentInv, Busy, Issuer, collected, config, goto,
    Goroutines, Refresh
<1>4. TallyInv'
  <2>1. goto("refresher", "fetch") \/ goto("refresher", "idle")
    BY DEF Refresh
  <2>2. Busy' = Busy
    BY <2>1, GoneRefresher DEF CacheIInv
  <2> QED BY <2>2, TallyKept DEF CacheIInv, Refresh, collected, config
<1>5. AccountInv'
  BY DEF CacheIInv, DownInv, AccountInv, Refresh
<1>6. CleanInv'
  BY DEF CacheIInv, DownInv, CleanInv, Refresh
<1>7. ListensWithItsProviders'
  BY DEF CacheIInv, ListensWithItsProviders, Issuer, collected, config, Refresh
<1> QED BY <1>1, <1>2, <1>3, <1>4, <1>5, <1>6, <1>7 DEF CacheIInv

-------------------------------------------------------------------------------
(* The gate.                                                                   *)

\* A step of a request moves nobody else.
LEMMA StepType ==
  ASSUME GateTypeOK, NEW r \in Requests, NEW l \in Stages, NEW v \in Locals, step(r, l, v)
  PROVE  /\ pc' \in [Requests -> Stages] /\ loc' \in [Requests -> Locals]
         /\ pc'[r] = l /\ loc'[r] = v
         /\ \A q \in Requests \ {r} : pc'[q] = pc[q] /\ loc'[q] = loc[q]
  BY DEF GateTypeOK, step

LEMMA NoLocalsType == NoLocals \in Locals
  BY DEF NoLocals, Locals, Paths, Begins, Logins, Grounds

\* What holds of a request survives if factors stay, and sids keep their session or lose
\* it for good.
LEMMA GoodKept ==
  ASSUME NEW l, NEW v, Good(l, v),
         GateTypeOK, v \in Locals,
         \A u \in Users : secret[u] # None => secret'[u] # None,
         \A x \in issued : x \in issued' /\ sessions'[x] \in {sessions[x], None}
  PROVE  Good(l, v)'
<1>1. ReadSession(v.sid)' \in {ReadSession(v.sid), None}
  BY DEF Good, ReadSession
<1>2. \A s \in SessionSet : Vetted(s) => Vetted(s)'
  BY DEF Vetted, SessionSet
<1>3. ReadSession(v.sid) \in SessionSet \cup {None} /\ v.sess \in SessionSet \cup {None}
  BY DEF GateTypeOK, Locals, ReadSession
<1>4. Looked(l, v)'
  BY <1>1, <1>2, <1>3 DEF Good, Looked
<1>5. Proving(l, v)'
  BY DEF Good, Proving
<1> QED BY <1>4, <1>5 DEF Good, OnPath

\* A request that goes on without writing: what holds of it there is all there is to show.
LEMMA GoesOn ==
  ASSUME GateIInv, NEW r \in Requests, NEW l \in Stages, NEW v \in Locals, step(r, l, v),
         UNCHANGED <<tables, store>>,
         Good(l, v), SigningUp(l, v) => SigningUp(pc[r], loc[r]) /\ v.user = loc[r].user
  PROVE  GateIInv'
<1>1. /\ pc' \in [Requests -> Stages] /\ loc' \in [Requests -> Locals]
      /\ pc'[r] = l /\ loc'[r] = v
      /\ \A q \in Requests \ {r} : pc'[q] = pc[q] /\ loc'[q] = loc[q]
  BY StepType DEF GateIInv
<1>2. UNCHANGED <<secret, drawn, credentials, sessions, begun>>
  BY DEF tables, store
<1>3. GateTypeOK' /\ SidInv' /\ SecondFactorAsked'
  BY <1>1, <1>2 DEF GateIInv, GateTypeOK, SidInv, SecondFactorAsked, issued
<1>4. RequestInv'
  <2>1. \A q \in Requests : Good(pc'[q], loc'[q])
    BY <1>1 DEF GateIInv, RequestInv
  <2> QED BY <1>2, <2>1 DEF RequestInv, Good, OnPath, Looked, Proving, Vetted, ReadSession,
             issued
<1>5. SignupInv'
  BY <1>1, <1>2 DEF GateIInv, SignupInv, SigningUp, issued
<1> QED BY <1>3, <1>4, <1>5 DEF GateIInv

LEMMA IdleGood == Good("idle", NoLocals)
  BY DEF Good, OnPath, Looked, Proving, NoLocals

LEMMA AnswerStep ==
  ASSUME GateIInv, NEW r \in Requests, answer(r), UNCHANGED <<tables, store>>
  PROVE  GateIInv'
  BY GoesOn, IdleGood, NoLocalsType DEF answer, Stages, SigningUp

\* A request that writes and answers: the tables and the store are all there is to show.
LEMMA WritesAndAnswers ==
  ASSUME GateIInv, NEW r \in Requests, answer(r),
         secret' \in [Users -> Secrets \cup {None}], drawn' \subseteq Secrets,
         sessions' \in [Sids -> SessionSet \cup {None}],
         begun' \in [Sids -> Beginnings \cup {None}],
         credentials \subseteq credentials', credentials' \subseteq Users,
         \A u \in Users : secret[u] # None => secret'[u] # None,
         \A x \in issued : x \in issued' /\ sessions'[x] \in {sessions[x], None},
         SidInv', SecondFactorAsked',
         \A x \in issued' : begun'[x].by = "signup" =>
           \/ x \in issued /\ begun'[x] = begun[x]
           \/ SigningUp(pc[r], loc[r]) /\ begun'[x].user = loc[r].user
  PROVE  GateIInv'
<1>1. /\ pc' \in [Requests -> Stages] /\ loc' \in [Requests -> Locals]
      /\ pc'[r] = "idle" /\ loc'[r] = NoLocals
      /\ \A q \in Requests \ {r} : pc'[q] = pc[q] /\ loc'[q] = loc[q]
  BY StepType, NoLocalsType DEF GateIInv, answer, Stages
<1>2. GateTypeOK'
  BY <1>1 DEF GateTypeOK
<1>3. RequestInv'
  <2>1. ASSUME NEW q \in Requests PROVE Good(pc'[q], loc'[q])
    BY <1>1, IdleGood DEF GateIInv, RequestInv
  <2>2. ASSUME NEW q \in Requests PROVE Good(pc[q], loc[q])'
    <3> DEFINE l == pc'[q]
               v == loc'[q]
    <3>1. Good(l, v) /\ v \in Locals
      BY <1>1, <2>1
    <3> QED BY <3>1, GoodKept DEF GateIInv
  <2> QED BY <2>2 DEF RequestInv
<1>4. SignupInv'
  <2>1. ASSUME NEW q \in Requests, SigningUp(pc'[q], loc'[q])
        PROVE  q # r /\ SigningUp(pc[q], loc[q]) /\ loc'[q] = loc[q]
    BY <1>1, <2>1 DEF SigningUp
  <2>2. ASSUME NEW q \in Requests, SigningUp(pc'[q], loc'[q])
        PROVE  /\ loc'[q].user \in credentials'
               /\ \A p \in Requests :
                    SigningUp(pc'[p], loc'[p]) /\ loc'[p].user = loc'[q].user => p = q
               /\ \A x \in issued' : begun'[x].by = "signup" => begun'[x].user # loc'[q].user
    BY <2>1, <2>2 DEF GateIInv, SignupInv
  <2>3. \A x \in issued' : begun'[x].by = "signup" => begun'[x].user \in credentials'
    BY DEF GateIInv, SignupInv
  <2> QED BY <2>2, <2>3 DEF SignupInv, SigningUp
<1> QED BY <1>2, <1>3, <1>4 DEF GateIInv

\* Where the route leads that MFAEnforce lets a request take.
LEMMA RouteStep ==
  ASSUME GateIInv, NEW r \in Requests, NEW v \in Locals, Route(r, v),
         UNCHANGED <<tables, store>>,
         v.sid # None => v.sid \in issued,
         v.path \in Begins => v.user \in Users,
         v.by = "unproven" => v.path \in Logins /\ v.user \in Users /\ secret[v.user] # None,
         v.by = "signup" <=> v.path = "signup",
         v.path \notin Allowed /\ ReadSession(v.sid) # None => Vetted(ReadSession(v.sid))
  PROVE  GateIInv'
<1> DEFINE w == [v EXCEPT !.sess = None, !.sid = IF v.path \in Readers THEN @ ELSE None]
<1>1. PICK l \in {"auth", "role", "password", "credential", "org", "handler"} :
        /\ step(r, l, w)
        /\ l = "password" => v.path \in Logins
        /\ l = "credential" => v.path = "signup"
        /\ l = "org" => v.path = "external"
  BY DEF Route
<1>2. w \in Locals /\ l \in Stages
  BY DEF Locals, Stages
<1>3. /\ w.sess = None /\ w.sid \in {v.sid, None}
      /\ w.path = v.path /\ w.user = v.user /\ w.by = v.by
  BY DEF Locals
<1> HIDE DEF w
<1>4. OnPath(l, w)
  BY <1>1, <1>3 DEF OnPath, Begins
<1>5. Looked(l, w)
  BY <1>1, <1>3 DEF Looked, ReadSession
<1>6. Proving(l, w)
  BY <1>1, <1>3 DEF Proving, Logins
<1>7. Good(l, w) /\ ~SigningUp(l, w)
  BY <1>1, <1>3, <1>4, <1>5, <1>6 DEF Good, SigningUp
<1> QED BY <1>1, <1>2, <1>7, GoesOn

\* One lemma for each step of a request.
LEMMA MFAEnforceStep ==
  ASSUME GateIInv, NEW r \in Requests, NEW path \in Paths, NEW sid \in Sids \cup {None},
         NEW u \in Users \cup {None}, NEW code \in Secrets \cup {None},
         path \in Begins => u \in Users,
         MFAEnforce(r, path, sid, u, code), sid # None => sessions[sid] # None
  PROVE  GateIInv'
<1> DEFINE v == [NoLocals EXCEPT !.path = path, !.sid = sid, !.user = u, !.code = code,
                                 !.by = GroundsOf(path, u)]
           s == ReadSession(sid)
<1>1. /\ pc[r] = "idle" /\ UNCHANGED <<tables, store>>
      /\ \/ Route(r, v) /\ (s # None => Vetted(s))
         \/ s # None /\ step(r, "enrolled", [v EXCEPT !.sess = s])
  BY DEF MFAEnforce, Vetted
<1>2. GroundsOf(path, u) \in Grounds
  BY DEF GroundsOf, Grounds
<1>3. s \in SessionSet \cup {None} /\ (sid # None => sid \in issued)
  BY DEF GateIInv, GateTypeOK, SidInv, ReadSession
<1>4. /\ v \in Locals /\ v.path = path /\ v.sid = sid /\ v.user = u /\ v.sess = None
      /\ v.by = GroundsOf(path, u)
  BY <1>2 DEF NoLocals, Locals
<1>5. /\ v.by = "unproven" => path \in Logins /\ u \in Users /\ secret[u] # None
      /\ v.by = "signup" <=> path = "signup"
  BY <1>4 DEF GroundsOf, Logins, Begins
<1>6. CASE Route(r, v) /\ (s # None => Vetted(s))
  <2> HIDE DEF v
  <2> QED BY <1>1, <1>3, <1>4, <1>5, <1>6, RouteStep
<1>7. CASE s # None /\ step(r, "enrolled", [v EXCEPT !.sess = s])
  <2> DEFINE w == [v EXCEPT !.sess = s]
  <2> HIDE DEF v
  <2>1. /\ w \in Locals /\ w.path = path /\ w.sid = sid /\ w.user = u /\ w.sess = s
        /\ w.by = v.by
    BY <1>3, <1>4 DEF Locals
  <2> HIDE DEF w
  <2>2. OnPath("enrolled", w) /\ Looked("enrolled", w) /\ Proving("enrolled", w)
    BY <1>5, <1>7, <2>1 DEF OnPath, Looked, Proving
  <2>3. Good("enrolled", w) /\ ~SigningUp("enrolled", w) /\ "enrolled" \in Stages
    BY <1>3, <2>1, <2>2 DEF Good, SigningUp, Stages
  <2>4. step(r, "enrolled", w)
    BY <1>7 DEF w
  <2> QED BY <1>1, <2>1, <2>3, <2>4, GoesOn
<1> QED BY <1>1, <1>6, <1>7

LEMMA MFADecideStep ==
  ASSUME GateIInv, NEW r \in Requests, MFADecide(r)
  PROVE  GateIInv'
<1>1. pc[r] = "enrolled" /\ UNCHANGED <<tables, store>> /\ loc[r] \in Locals
      /\ Good(pc[r], loc[r])
  BY DEF MFADecide, GateIInv, GateTypeOK, RequestInv
<1>2. CASE answer(r)
  BY <1>1, <1>2, AnswerStep
<1>3. ASSUME Route(r, loc[r]), TRUE \in UserHasTOTP(loc[r].sess.user) \/ loc[r].path \in Allowed
      PROVE  GateIInv'
  <2>1. ReadSession(loc[r].sid) # None => ReadSession(loc[r].sid) = loc[r].sess
    BY <1>1 DEF Good, Looked
  <2>2. loc[r].path \notin Allowed => secret[loc[r].sess.user] # None
    BY <1>3 DEF UserHasTOTP
  <2>3. loc[r].path \notin Allowed /\ ReadSession(loc[r].sid) # None =>
          Vetted(ReadSession(loc[r].sid))
    BY <2>1, <2>2 DEF Vetted
  <2> QED BY <1>1, <1>3, <2>3, RouteStep DEF Good, OnPath, Proving
<1> QED BY <1>2, <1>3 DEF MFADecide, UserHasTOTP

\* What RequireAuth or a handler reads of a session to be served.
LEMMA ReadStep ==
  ASSUME GateIInv, NEW r \in Requests, NEW l \in {"role", "serve"},
         pc[r] \in {"auth", "handler"}, ReadSession(loc[r].sid) # None,
         step(r, l, [loc[r] EXCEPT !.sess = ReadSession(loc[r].sid), !.sid = None]),
         UNCHANGED <<tables, store>>
  PROVE  GateIInv'
<1> DEFINE s == ReadSession(loc[r].sid)
           w == [loc[r] EXCEPT !.sess = s, !.sid = None]
<1>1. loc[r] \in Locals /\ Good(pc[r], loc[r]) /\ s \in SessionSet
  BY DEF GateIInv, GateTypeOK, RequestInv, Locals, ReadSession
<1>2. /\ w \in Locals /\ w.path = loc[r].path /\ w.sid = None /\ w.user = loc[r].user
      /\ w.sess = s /\ w.by = loc[r].by
  BY <1>1 DEF Locals
<1> HIDE DEF w
<1>3. OnPath(l, w) /\ Looked(l, w) /\ Proving(l, w)
  BY <1>1, <1>2 DEF Good, OnPath, Looked, Proving
<1>4. Good(l, w) /\ ~SigningUp(l, w) /\ l \in Stages
  BY <1>2, <1>3 DEF Good, SigningUp, Stages
<1>5. step(r, l, w)
  BY DEF w
<1> QED BY <1>2, <1>4, <1>5, GoesOn

LEMMA RequireAuthStep ==
  ASSUME GateIInv, NEW r \in Requests, RequireAuth(r)
  PROVE  GateIInv'
<1>1. CASE answer(r)
  BY <1>1, AnswerStep DEF RequireAuth
<1>2. CASE ~answer(r)
  <2> DEFINE l == IF loc[r].path = "invite" THEN "role" ELSE "serve"
  <2>1. /\ l \in {"role", "serve"} /\ pc[r] = "auth" /\ ReadSession(loc[r].sid) # None
        /\ step(r, l, [loc[r] EXCEPT !.sess = ReadSession(loc[r].sid), !.sid = None])
        /\ UNCHANGED <<tables, store>>
    BY <1>2 DEF RequireAuth
  <2> HIDE DEF l
  <2> QED BY <2>1, ReadStep
<1> QED BY <1>1, <1>2

LEMMA RequireRoleStep ==
  ASSUME GateIInv, NEW r \in Requests, RequireRole(r)
  PROVE  GateIInv'
<1>1. CASE answer(r)
  BY <1>1, AnswerStep DEF RequireRole
<1>2. CASE ~answer(r)
  <2>1. pc[r] = "role" /\ loc[r].sess # None /\ step(r, "serve", loc[r])
        /\ UNCHANGED <<tables, store>>
    BY <1>2 DEF RequireRole
  <2>2. loc[r] \in Locals /\ Good(pc[r], loc[r]) /\ "serve" \in Stages
    BY DEF GateIInv, GateTypeOK, RequestInv, Stages
  <2>3. Good("serve", loc[r]) /\ ~SigningUp("serve", loc[r])
    BY <2>1, <2>2 DEF Good, OnPath, Looked, Proving, SigningUp
  <2> QED BY <2>1, <2>2, <2>3, GoesOn
<1> QED BY <1>1, <1>2

LEMMA HandlerStep ==
  ASSUME GateIInv, NEW r \in Requests, Handler(r)
  PROVE  GateIInv'
  BY AnswerStep, ReadStep DEF Handler

LEMMA ServeStep ==
  ASSUME GateIInv, NEW r \in Requests, Serve(r)
  PROVE  GateIInv'
  BY AnswerStep DEF Serve

LEMMA SetPasswordStep ==
  ASSUME GateIInv, NEW r \in Requests, SetPassword(r)
  PROVE  GateIInv'
<1>1. /\ answer(r) /\ UNCHANGED <<secret, drawn, sessions, begun>>
      /\ credentials' \in {credentials, credentials \cup {loc[r].sess.user}}
      /\ pc[r] = "serve"
  BY DEF SetPassword, store
<1>2. loc[r].sess \in SessionSet
  <2>1. loc[r] \in Locals /\ OnPath(pc[r], loc[r])
    BY DEF GateIInv, GateTypeOK, RequestInv, Good
  <2> QED BY <1>1, <2>1 DEF Locals, OnPath
<1>3. credentials \subseteq credentials' /\ credentials' \subseteq Users
  BY <1>1, <1>2 DEF GateIInv, GateTypeOK, SessionSet
<1> QED BY <1>1, <1>3, WritesAndAnswers DEF GateIInv, GateTypeOK, SidInv, SecondFactorAsked,
       issued

LEMMA TOTPSetupBeginStep ==
  ASSUME GateIInv, NEW r \in Requests, TOTPSetupBegin(r)
  PROVE  GateIInv'
<1>1. /\ answer(r) /\ UNCHANGED <<credentials, sessions, begun>>
      /\ SetTOTPSecret(loc[r].sess.user) \/ UNCHANGED <<secret, drawn>>
  BY DEF TOTPSetupBegin, store
<1>2. /\ secret' \in [Users -> Secrets \cup {None}] /\ drawn' \subseteq Secrets
      /\ \A u \in Users : secret[u] # None => secret'[u] # None
  BY <1>1, GateAssumption DEF GateIInv, GateTypeOK, SetTOTPSecret
<1> QED BY <1>1, <1>2, WritesAndAnswers DEF GateIInv, GateTypeOK, SidInv, SecondFactorAsked,
       issued

LEMMA LogoutStep ==
  ASSUME GateIInv, NEW r \in Requests, Logout(r)
  PROVE  GateIInv'
<1>1. /\ answer(r) /\ UNCHANGED <<secret, drawn, credentials, begun>>
      /\ \A x \in Sids : sessions'[x] \in {sessions[x], None}
      /\ sessions' \in [Sids -> SessionSet \cup {None}]
  BY DEF Logout, tables, GateIInv, GateTypeOK
<1> QED BY <1>1, WritesAndAnswers DEF GateIInv, GateTypeOK, SidInv, SecondFactorAsked, issued

LEMMA LoginPasswordStep ==
  ASSUME GateIInv, NEW r \in Requests, LoginPassword(r)
  PROVE  GateIInv'
<1>1. CASE answer(r)
  BY <1>1, AnswerStep DEF LoginPassword
<1>2. CASE ~answer(r)
  <2>1. pc[r] = "password" /\ step(r, "factor", loc[r]) /\ UNCHANGED <<tables, store>>
    BY <1>2 DEF LoginPassword
  <2>2. loc[r] \in Locals /\ Good(pc[r], loc[r]) /\ "factor" \in Stages
    BY DEF GateIInv, GateTypeOK, RequestInv, Stages
  <2>3. Good("factor", loc[r]) /\ ~SigningUp("factor", loc[r])
    BY <2>1, <2>2 DEF Good, OnPath, Looked, Proving, SigningUp
  <2> QED BY <2>1, <2>2, <2>3, GoesOn
<1> QED BY <1>1, <1>2

\* A login or a link that has got past the factor.
LEMMA PassedStep ==
  ASSUME GateIInv, NEW r \in Requests, pc[r] \in {"factor", "code"},
         NEW b \in {"sound", "miss"},
         step(r, "org", [loc[r] EXCEPT !.by = b, !.code = None]),
         UNCHANGED <<tables, store>>
  PROVE  GateIInv'
<1> DEFINE w == [loc[r] EXCEPT !.by = b, !.code = None]
<1>1. loc[r] \in Locals /\ Good(pc[r], loc[r]) /\ "org" \in Stages
  BY DEF GateIInv, GateTypeOK, RequestInv, Stages
<1>2. /\ w \in Locals /\ w.path = loc[r].path /\ w.sid = loc[r].sid /\ w.user = loc[r].user
      /\ w.sess = loc[r].sess /\ w.by = b
  BY <1>1 DEF Locals, Grounds
<1>3. step(r, "org", w)
  OBVIOUS
<1> HIDE DEF w
<1>4. loc[r].path \in Logins /\ loc[r].user \in Users
  BY <1>1 DEF Good, OnPath, Begins
<1>5. OnPath("org", w) /\ Looked("org", w) /\ Proving("org", w)
  BY <1>2, <1>4 DEF OnPath, Looked, Proving, Begins, Logins
<1>6. Good("org", w) /\ ~SigningUp("org", w)
  BY <1>1, <1>2, <1>5 DEF Good, SigningUp
<1> QED BY <1>1, <1>2, <1>3, <1>6, GoesOn

LEMMA LoginFactorStep ==
  ASSUME GateIInv, NEW r \in Requests, LoginFactor(r)
  PROVE  GateIInv'
<1>1. pc[r] = "factor" /\ UNCHANGED <<tables, store>> /\ loc[r] \in Locals
      /\ Good(pc[r], loc[r])
  BY DEF LoginFactor, GateIInv, GateTypeOK, RequestInv
<1>2. CASE answer(r)
  BY <1>1, <1>2, AnswerStep
<1>3. CASE step(r, "code", loc[r])
  <2>1. Good("code", loc[r]) /\ ~SigningUp("code", loc[r]) /\ "code" \in Stages
    BY <1>1 DEF Good, OnPath, Looked, Proving, SigningUp, Stages
  <2> QED BY <1>1, <1>3, <2>1, GoesOn
<1>4. CASE \E b \in {"sound", "miss"} : step(r, "org", [loc[r] EXCEPT !.by = b, !.code = None])
  BY <1>1, <1>4, PassedStep
<1>5. (IF secret[loc[r].user] = None THEN loc[r].by ELSE "miss") \in {"sound", "miss"}
  BY <1>1 DEF Good, OnPath, Proving, Locals, Grounds, Logins
<1> QED BY <1>2, <1>3, <1>4, <1>5 DEF LoginFactor

LEMMA LoginCodeStep ==
  ASSUME GateIInv, NEW r \in Requests, LoginCode(r)
  PROVE  GateIInv'
  BY AnswerStep, PassedStep DEF LoginCode

LEMMA SignupCredentialStep ==
  ASSUME GateIInv, NEW r \in Requests, SignupCredential(r)
  PROVE  GateIInv'
<1>1. pc[r] = "credential" /\ UNCHANGED <<secret, drawn, sessions, begun>>
  BY DEF SignupCredential, store
<1>2. CASE answer(r) /\ UNCHANGED credentials
  BY <1>1, <1>2, AnswerStep DEF tables, store
<1>3. CASE /\ loc[r].user \notin credentials /\ credentials' = credentials \cup {loc[r].user}
           /\ step(r, "org", loc[r])
  <2>1. loc[r] \in Locals /\ Good(pc[r], loc[r]) /\ "org" \in Stages /\ "credential" # "idle"
    BY DEF GateIInv, GateTypeOK, RequestInv, Stages
  <2>2. loc[r].path = "signup" /\ loc[r].by = "signup" /\ loc[r].user \in Users
    BY <1>1, <2>1 DEF Good, OnPath, Proving, Begins
  <2>3. Good("org", loc[r])
    BY <1>1, <2>1, <2>2 DEF Good, OnPath, Looked, Proving, Begins
  <2>4. /\ pc' \in [Requests -> Stages] /\ loc' \in [Requests -> Locals]
        /\ pc'[r] = "org" /\ loc'[r] = loc[r]
        /\ \A q \in Requests \ {r} : pc'[q] = pc[q] /\ loc'[q] = loc[q]
    BY <1>3, <2>1, StepType DEF GateIInv
  <2>5. GateTypeOK' /\ SidInv' /\ SecondFactorAsked'
    BY <1>1, <1>3, <2>2, <2>4 DEF GateIInv, GateTypeOK, SidInv, SecondFactorAsked, issued
  <2>6. RequestInv'
    <3>1. \A q \in Requests : Good(pc'[q], loc'[q])
      BY <2>3, <2>4 DEF GateIInv, RequestInv
    <3> QED BY <1>1, <3>1 DEF RequestInv, Good, OnPath, Looked, Proving, Vetted, ReadSession,
               issued
  <2>7. SignupInv'
    <3>1. \A q \in Requests \ {r} : SigningUp(pc[q], loc[q]) => loc[q].user # loc[r].user
      BY <1>3 DEF GateIInv, SignupInv
    <3>2. \A x \in issued : begun[x].by = "signup" => begun[x].user # loc[r].user
      BY <1>3 DEF GateIInv, SignupInv
    <3> QED BY <1>1, <1>3, <2>4, <3>1, <3>2 DEF GateIInv, SignupInv, SigningUp, issued
  <2> QED BY <2>5, <2>6, <2>7 DEF GateIInv
<1> QED BY <1>2, <1>3 DEF SignupCredential

LEMMA SetSessionStep ==
  ASSUME GateIInv, NEW r \in Requests, SetSession(r)
  PROVE  GateIInv'
<1>1. pc[r] = "org" /\ answer(r) /\ UNCHANGED <<secret, drawn, credentials>>
      /\ UNCHANGED tables
  BY DEF SetSession, tables
<1>2. CASE UNCHANGED store
  BY <1>1, <1>2, AnswerStep
<1>3. CASE ~UNCHANGED store
  <2> DEFINE s == [user |-> loc[r].user, provider |-> Provider(loc[r].path)]
             b == [user |-> loc[r].user, by |-> loc[r].by]
  <2>1. PICK x \in Sids \ issued :
          /\ sessions' = [sessions EXCEPT ![x] = s]
          /\ begun' = [begun EXCEPT ![x] = b]
    <3>1. (CHOOSE y \in Sids \ issued : TRUE) \in Sids \ issued
      BY <1>3 DEF SetSession
    <3> QED BY <1>3, <3>1 DEF SetSession
  <2>2. loc[r] \in Locals /\ Good(pc[r], loc[r])
    BY DEF GateIInv, GateTypeOK, RequestInv
  <2>3. loc[r].user \in Users /\ loc[r].by # "unproven"
    BY <1>1, <2>2 DEF Good, OnPath, Proving
  <2>4. /\ s \in SessionSet /\ b \in Beginnings /\ b # None /\ b.by = loc[r].by
        /\ b.user = loc[r].user
    BY <2>2, <2>3, LocalsAssumption DEF SessionSet, Beginnings, Provider, Locals
  <2> HIDE DEF s, b
  <2>5. /\ sessions' \in [Sids -> SessionSet \cup {None}]
        /\ begun' \in [Sids -> Beginnings \cup {None}]
        /\ begun'[x] = b
        /\ \A y \in Sids \ {x} : sessions'[y] = sessions[y] /\ begun'[y] = begun[y]
    BY <2>1, <2>4 DEF GateIInv, GateTypeOK
  <2>6. issued' = issued \cup {x}
    BY <2>4, <2>5 DEF issued
  <2>7. SidInv'
    BY <2>5, <2>6 DEF GateIInv, SidInv
  <2>8. b.by = "signup" => \A y \in issued : begun[y].by = "signup" => begun[y].user # b.user
    BY <1>1, <2>4 DEF GateIInv, SignupInv, SigningUp
  <2>9. SecondFactorAsked'
    <3>1. \A y \in issued : begun'[y] = begun[y]
      BY <2>5 DEF issued
    <3>2. \A y \in issued' : begun'[y].by # "unproven"
      BY <2>3, <2>4, <2>5, <2>6, <3>1 DEF GateIInv, SecondFactorAsked
    <3>3. ASSUME NEW y \in issued', NEW z \in issued',
                 begun'[y].by = "signup", begun'[y] = begun'[z]
          PROVE  y = z
      <4>1. CASE y = x /\ z # x
        BY <2>5, <2>6, <2>8, <3>1, <3>3, <4>1
      <4>2. CASE z = x /\ y # x
        BY <2>5, <2>6, <2>8, <3>1, <3>3, <4>2
      <4>3. CASE y # x /\ z # x
        BY <2>6, <3>1, <3>3, <4>3 DEF GateIInv, SecondFactorAsked
      <4> QED BY <4>1, <4>2, <4>3
    <3> QED BY <3>2, <3>3 DEF SecondFactorAsked
  <2>10. \A y \in issued' : begun'[y].by = "signup" =>
           \/ y \in issued /\ begun'[y] = begun[y]
           \/ SigningUp(pc[r], loc[r]) /\ begun'[y].user = loc[r].user
    BY <1>1, <2>1, <2>4, <2>5, <2>6 DEF SigningUp
  <2>11. \A y \in issued : y \in issued' /\ sessions'[y] \in {sessions[y], None}
    BY <2>1, <2>5, <2>6 DEF issued
  <2> QED BY <1>1, <2>5, <2>7, <2>9, <2>10, <2>11, WritesAndAnswers DEF GateIInv, GateTypeOK
<1> QED BY <1>2, <1>3

LEMMA ExpireStep ==
  ASSUME GateIInv, NEW x \in Sids, Expire(x)
  PROVE  GateIInv'
<1>1. /\ sessions' = [sessions EXCEPT ![x] = None]
      /\ UNCHANGED <<secret, drawn, credentials, begun, pc, loc>>
  BY DEF Expire, tables
<1>2. GateTypeOK' /\ SidInv' /\ SecondFactorAsked' /\ SignupInv'
  BY <1>1 DEF GateIInv, GateTypeOK, SidInv, SecondFactorAsked, SignupInv, SigningUp, issued
<1>3. RequestInv'
  <2>1. ASSUME NEW r \in Requests PROVE Good(pc[r], loc[r])'
    <3> DEFINE l == pc[r]
               v == loc[r]
    <3>1. Good(l, v) /\ v \in Locals
      BY DEF GateIInv, GateTypeOK, RequestInv
    <3>2. pc'[r] = l /\ loc'[r] = v
      BY <1>1
    <3>3. /\ \A u \in Users : secret[u] # None => secret'[u] # None
          /\ \A y \in issued : y \in issued' /\ sessions'[y] \in {sessions[y], None}
      BY <1>1 DEF GateIInv, GateTypeOK, issued
    <3> HIDE DEF l, v
    <3> QED BY <3>1, <3>2, <3>3, GoodKept DEF GateIInv
  <2> QED BY <2>1 DEF RequestInv
<1> QED BY <1>2, <1>3 DEF GateIInv

LEMMA RestartStep ==
  ASSUME GateIInv, Restart
  PROVE  GateIInv'
<1>1. /\ sessions' = [x \in Sids |-> None] /\ UNCHANGED <<secret, drawn, credentials, begun>>
      /\ pc' = [r \in Requests |-> "idle"] /\ loc' = [r \in Requests |-> NoLocals]
  BY DEF Restart, tables
<1>2. GateTypeOK' /\ SidInv' /\ SecondFactorAsked' /\ SignupInv'
  BY <1>1, NoLocalsType DEF GateIInv, GateTypeOK, Stages, SidInv, SecondFactorAsked, SignupInv,
     SigningUp, issued
<1>3. RequestInv'
  BY <1>1 DEF RequestInv, Good, OnPath, Looked, Proving, NoLocals
<1> QED BY <1>2, <1>3 DEF GateIInv

-------------------------------------------------------------------------------
(* The inductive invariant.                                                    *)

LEMMA CacheInitInv == CacheInit => CacheIInv
<1> SUFFICES ASSUME CacheInit PROVE CacheIInv
  OBVIOUS
<1>1. CacheTypes
  <2>1. tenant \in Tenants
    BY CacheAssumption DEF CacheInit
  <2>2. <<>> \in Seq([kind : Hosts, provider : Documents \cup {Nothing}]) /\ target \in Hosts
    BY DEF CacheInit, Hosts
  <2> QED BY <2>1, <2>2 DEF CacheInit, CacheTypes, Contents
<1>2. DownInv /\ TallyInv /\ AccountInv /\ CleanInv /\ ListensWithItsProviders
  BY DEF CacheInit, DownInv, TallyInv, AccountInv, CleanInv, ListensWithItsProviders,
     Goroutines
<1>3. DocumentInv
  BY DEF CacheInit, DocumentInv, Busy, Goroutines
<1> QED BY <1>1, <1>2, <1>3 DEF CacheIInv

LEMMA CacheNextInv == CacheIInv /\ [CacheNext]_cacheVars => CacheIInv'
<1> SUFFICES ASSUME CacheIInv, [CacheNext]_cacheVars PROVE CacheIInv'
  OBVIOUS
<1>1. CASE Main
  <2>1. CASE Collect
    BY <2>1, DieStep, ReceiveStep DEF Collect
  <2> QED BY <1>1, <2>1, ListenStep DEF Main
<1>2. ASSUME NEW g \in Goroutines, Work(g) PROVE CacheIInv'
  <2>1. CASE g = "refresher"
    BY <1>2, <2>1, TickStep, fetchAndCacheStep, WriteStep, RefreshStep DEF Work
  <2>2. CASE g # "refresher"
    BY <1>2, <2>2, RoundTripStep, fetchAndCacheStep, WriteStep, SendStep DEF Work, Goroutines
  <2> QED BY <2>1, <2>2
<1>3. CASE UNCHANGED cacheVars
  <2>1. Busy' = Busy
    BY <1>3 DEF cacheVars, Busy
  <2> QED BY <1>3, <2>1 DEF cacheVars, collected, config, CacheIInv, CacheTypes, DownInv,
             DocumentInv, TallyInv, AccountInv, CleanInv, ListensWithItsProviders, Issuer,
             IssuerAt
<1> QED
  BY <1>1, <1>2, <1>3, WeatherStep, BootStep, DieStep DEF CacheNext, Crash

LEMMA GateInitInv == GateInit => GateIInv
<1> SUFFICES ASSUME GateInit PROVE GateIInv
  OBVIOUS
<1>1. GateTypeOK
  BY NoLocalsType DEF GateInit, GateTypeOK, Stages
<1>2. SidInv /\ SignupInv /\ SecondFactorAsked
  BY DEF GateInit, SidInv, SignupInv, SigningUp, SecondFactorAsked, issued
<1>3. RequestInv
  BY IdleGood DEF GateInit, RequestInv
<1> QED BY <1>1, <1>2, <1>3 DEF GateIInv

LEMMA GateNextInv == GateIInv /\ [GateNext]_gateVars => GateIInv'
<1> SUFFICES ASSUME GateIInv, [GateNext]_gateVars PROVE GateIInv'
  OBVIOUS
<1>1. ASSUME NEW r \in Requests, GateStep(r) PROVE GateIInv'
  <2>1. ASSUME NEW path \in Paths \ Begins, NEW x \in Live \cup {None},
               MFAEnforce(r, path, x, None, None)
        PROVE  GateIInv'
    BY <2>1, MFAEnforceStep DEF Live
  <2>2. ASSUME NEW path \in Begins, NEW x \in Live \cup {None}, NEW u \in Users,
               NEW c \in drawn \cup {None}, MFAEnforce(r, path, x, u, c)
        PROVE  GateIInv'
    BY <2>2, MFAEnforceStep DEF Live, Paths, GateIInv, GateTypeOK
  <2> QED
    BY <1>1, <2>1, <2>2, MFADecideStep, RequireAuthStep, RequireRoleStep, HandlerStep,
       ServeStep, SetPasswordStep, TOTPSetupBeginStep, LogoutStep, LoginPasswordStep,
       LoginFactorStep, LoginCodeStep, SignupCredentialStep, SetSessionStep
    DEF GateStep
<1>2. CASE UNCHANGED gateVars
  BY <1>2 DEF gateVars, tables, store, GateIInv, GateTypeOK, SidInv, RequestInv, Good, OnPath,
     Looked, Proving, Vetted, ReadSession, SignupInv, SigningUp, SecondFactorAsked, issued
<1> QED BY <1>1, <1>2, ExpireStep, RestartStep DEF GateNext

LEMMA InitIInv == Init => IInv
  BY CacheInitInv, GateInitInv DEF Init, IInv

LEMMA NextIInv == IInv /\ [Next]_vars => IInv'
<1> SUFFICES ASSUME IInv, [Next]_vars PROVE IInv'
  OBVIOUS
<1>1. [CacheNext]_cacheVars /\ [GateNext]_gateVars
  BY DEF Next, vars
<1> QED BY <1>1, CacheNextInv, GateNextInv DEF IInv

\* The start and the gate keep the inductive invariant at every step.
THEOREM Invariant == Spec => []IInv
<1> QED BY InitIInv, NextIInv, PTL DEF Spec

-------------------------------------------------------------------------------

\* The state stays well typed, and no more results are sent and taken than there are
\* providers.
THEOREM TypeCorrect == Spec => []TypeOK
<1>1. IInv => TypeOK
  <2> SUFFICES ASSUME IInv PROVE TypeOK
    OBVIOUS
  <2>1. CacheTypes /\ DownInv /\ TallyInv /\ GateTypeOK
    BY DEF IInv, CacheIInv, GateIInv
  <2>2. received \in Nat /\ Len(results) \in Nat /\ received + Len(results) <= 2
    <3>1. received \in Nat /\ Len(results) \in Nat
      BY <2>1 DEF CacheTypes
    <3>2. CASE server = "down"
      BY <2>1, <3>2 DEF DownInv
    <3>3. CASE server # "down"
      <4>1. Busy \in SUBSET Hosts /\ enabled \in SUBSET Hosts
        BY <2>1 DEF CacheTypes, Busy
      <4> QED BY <2>1, <3>1, <3>3, <4>1, HostSetFinite DEF TallyInv
    <3> QED BY <3>1, <3>2, <3>3
  <2>3. received \in 0..2
    BY <2>2
  <2> QED BY <2>1, <2>2, <2>3 DEF TypeOK, CacheTypeOK, CacheTypes
<1> QED BY <1>1, Invariant, PTL

\* A server that listens has exactly its configured providers, each with the document of
\* its issuer, whatever the cache files held (SetupProviders).
THEOREM ListensRight == Spec => []ListensWithItsProviders
<1>1. IInv => ListensWithItsProviders
  BY DEF IInv, CacheIInv
<1> QED BY <1>1, Invariant, PTL

\* The safety half of BootDecides.  The collection waits for a result only while there is
\* one or a goroutine that has still to send one, and when it has counted all of them,
\* none is left behind (SetupProviders).
CollectionGoesOn ==
  server = "booting" =>
    /\ results # <<>> \/ Busy # {} \/ received = Cardinality(enabled)
    /\ received = Cardinality(enabled) => results = <<>> /\ Busy = {}

\* No start waits for a result that nobody sends, or listens before all are in
\* (SetupProviders).
THEOREM StartNeverStuck == Spec => []CollectionGoesOn
<1>1. IInv => CollectionGoesOn
  <2> SUFFICES ASSUME IInv, server = "booting"
               PROVE  /\ results # <<>> \/ Busy # {} \/ received = Cardinality(enabled)
                      /\ received = Cardinality(enabled) => results = <<>> /\ Busy = {}
    BY DEF CollectionGoesOn
  <2>1. /\ received + Len(results) + Cardinality(Busy) = Cardinality(enabled)
        /\ received \in Nat /\ Len(results) \in Nat
        /\ results = <<>> <=> Len(results) = 0
    BY EmptySeq DEF IInv, CacheIInv, CacheTypes, TallyInv
  <2>2. Busy \in SUBSET Hosts /\ enabled \in SUBSET Hosts
    BY DEF IInv, CacheIInv, CacheTypes, Busy
  <2>3. /\ Cardinality(Busy) \in Nat /\ Cardinality(enabled) \in Nat
        /\ Busy = {} <=> Cardinality(Busy) = 0
    BY <2>2, HostSetFinite, FS_EmptySet
  <2> QED BY <2>1, <2>3
<1> QED BY <1>1, Invariant, PTL

\* A start from good cache files needs no network (cachingRoundTripper.RoundTrip).
THEOREM StartsOffline == Spec => []OfflineStart
<1>1. IInv => OfflineStart
  BY DEF IInv, CacheIInv, CleanInv, OfflineStart
<1> QED BY <1>1, Invariant, PTL

\* No handler that MFAEnforce guards serves a local session without a second factor,
\* though the session is read twice (MFAEnforce, RequireAuth).
THEOREM ServedIsVetted == Spec => []ServedHasFactor
<1>1. IInv => ServedHasFactor
  <2> SUFFICES ASSUME IInv, NEW r \in Requests, LocalRequired, pc[r] = "serve",
                      loc[r].path \notin Allowed, loc[r].sess.provider = "local"
               PROVE  secret[loc[r].sess.user] # None
    BY DEF ServedHasFactor
  <2>1. loc[r].sess # None /\ Looked(pc[r], loc[r])
    BY DEF IInv, GateIInv, RequestInv, Good, OnPath
  <2> QED BY <2>1 DEF Looked, Vetted
<1> QED BY <1>1, Invariant, PTL

\* A login or a link of a user with a second factor begins no session without a code for
\* it or a failed query (LoginHandler, LinkWithPasswordHandler), and a sign-up, which asks
\* for none, begins one session of each user (SignupHandler).
THEOREM FactorAsked == Spec => []SecondFactorAsked
<1>1. IInv => SecondFactorAsked
  BY DEF IInv, GateIInv
<1> QED BY <1>1, Invariant, PTL

\* "If user has TOTP enabled, `totp_code` is required; otherwise 401", as the guide to the
\* login says (docs/auth_flow.md) and a comment of LoginHandler repeats.
LoginsGiveCodes == \A x \in issued : begun[x].by \notin {"unproven", "miss"}

\* A query of UserHasTOTP by a login or a link that fails, and is taken for a no.
FactorMissed == \E r \in Requests : loc[r].by = "miss"

\* The failing query is the only way past the code: while none of UserHasTOTP fails for a
\* login or a link, what the guide says holds (LoginHandler, LinkWithPasswordHandler).
THEOREM PassedOnlyByMiss == Spec /\ []~FactorMissed => []LoginsGiveCodes
<1>1. Init => LoginsGiveCodes
  BY DEF Init, GateInit, LoginsGiveCodes, issued
<1>2. IInv /\ ~FactorMissed /\ LoginsGiveCodes /\ [Next]_vars => LoginsGiveCodes'
  <2> SUFFICES ASSUME IInv, ~FactorMissed, LoginsGiveCodes, [Next]_vars
               PROVE  LoginsGiveCodes'
    OBVIOUS
  <2>1. CASE UNCHANGED begun
    BY <2>1 DEF LoginsGiveCodes, issued
  <2>2. ASSUME NEW r \in Requests, SetSession(r) PROVE LoginsGiveCodes'
    <3>1. CASE UNCHANGED store
      BY <2>1, <3>1 DEF store
    <3>2. ASSUME NEW x \in Sids \ issued,
                 begun' = [begun EXCEPT ![x] = [user |-> loc[r].user, by |-> loc[r].by]]
          PROVE  LoginsGiveCodes'
      <4>1. loc[r].by \notin {"unproven", "miss"}
        BY <2>2 DEF IInv, GateIInv, RequestInv, Good, Proving, SetSession, FactorMissed
      <4>2. ASSUME NEW y \in issued' PROVE begun'[y].by \notin {"unproven", "miss"}
        <5> DEFINE b == [user |-> loc[r].user, by |-> loc[r].by]
        <5>1. b.by = loc[r].by /\ begun' = [begun EXCEPT ![x] = b]
          BY <3>2
        <5> HIDE DEF b
        <5>2. begun \in [Sids -> Beginnings \cup {None}] /\ y \in Sids /\ begun'[y] # None
          BY DEF IInv, GateIInv, GateTypeOK, issued
        <5>3. begun'[y] = IF y = x THEN b ELSE begun[y]
          BY <5>1, <5>2
        <5> QED BY <4>1, <5>1, <5>2, <5>3 DEF issued, LoginsGiveCodes
      <4> QED BY <4>2 DEF LoginsGiveCodes
    <3> QED BY <2>2, <3>1, <3>2 DEF SetSession
  <2>3. ASSUME NEW r \in Requests, GateStep(r) PROVE LoginsGiveCodes'
    <3>1. CASE SetSession(r)
      BY <2>2, <3>1
    <3>2. CASE ~SetSession(r)
      <4>1. \A path, x, u, c : MFAEnforce(r, path, x, u, c) => UNCHANGED begun
        BY DEF MFAEnforce, store
      <4>2. UNCHANGED begun
        BY <2>3, <3>2, <4>1 DEF GateStep, MFADecide, RequireAuth, RequireRole, Handler,
           Serve, SetPassword, TOTPSetupBegin, Logout, LoginPassword, LoginFactor, LoginCode,
           SignupCredential, store
      <4> QED BY <2>1, <4>2
    <3> QED BY <3>1, <3>2
  <2> QED BY <2>1, <2>3 DEF Next, vars, gateVars, store, GateNext, Expire, Restart
<1> QED BY <1>1, <1>2, Invariant, PTL DEF Spec
===============================================================================
