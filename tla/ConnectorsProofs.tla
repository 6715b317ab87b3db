-------------------------- MODULE ConnectorsProofs --------------------------
(***************************************************************************)
(* Proofs about Connectors, for any answers of the servers, any number of  *)
(* retries and any indicators and spellings: the retry policy with its     *)
(* pauses, the release of HTTP clients, the text kept of a page, one node  *)
(* per indicator, found by every spelling, and the types.                  *)
(***************************************************************************)
EXTENDS Connectors, Induction, FiniteSetTheorems

USE SourcesAssumption

-----------------------------------------------------------------------------
(* The retry policy.                                                       *)

(* How many requests there have been at each place of the loop.            *)
CountInv ==
    /\ maxRetries \in Nat /\ attempt \in Nat /\ sent \in Nat
    /\ attempt <= maxRetries
    /\ call \in {"none", "send", "sleep"} \cup Ended
    /\ call \in {"none", "send"} => sent = attempt
    /\ call = "sleep" => sent = attempt + 1 /\ attempt < maxRetries
    /\ call \in Ended => sent = attempt + 1
    /\ call = "returned" => answer.status = "ok"
    /\ call = "raised" =>
          answer.status = "refused" \/ (Retryable(answer) /\ attempt = maxRetries)
    /\ call = "failed" => attempt < maxRetries /\ ~Sleepable(answer)

LEMMA CountImplies == CountInv => RetryPromise
  BY DEF CountInv, RetryPromise, Ended

(* A new call, or none, has sent nothing.                                  *)
LEMMA NoCallCounts ==
    ASSUME NEW state \in {"none", "send"}, NEW n \in Nat, NoCall(state, n)
    PROVE  CountInv'
  BY DEF NoCall, CountInv, Ended

LEMMA RetryCounts ==
    ASSUME CountInv, RetryStep
    PROVE  CountInv'
<1>1. ASSUME NEW a \in Answers, Request(a)
      PROVE  sent' = attempt + 1 /\ attempt' = attempt /\ maxRetries' = maxRetries /\ answer' = a
  BY <1>1 DEF CountInv, Request
<1>2. ASSUME NEW a \in Answers, Returns(a)
      PROVE  CountInv'
  BY <1>1, <1>2 DEF Returns, CountInv, Ended
<1>3. ASSUME NEW a \in Answers, GivesUp(a)
      PROVE  CountInv'
  BY <1>1, <1>3 DEF GivesUp, CountInv, Ended, Retryable
<1>4. ASSUME NEW a \in Answers, BacksOff(a)
      PROVE  CountInv'
  BY <1>1, <1>4 DEF BacksOff, CountInv, Ended
<1>5. ASSUME NEW a \in Answers, SleepRaises(a)
      PROVE  CountInv'
  BY <1>1, <1>5 DEF SleepRaises, CountInv, Ended
<1>6. CASE Wakes
  BY <1>6 DEF Wakes, CountInv, Ended
<1> QED
  BY <1>2, <1>3, <1>4, <1>5, <1>6 DEF RetryStep

LEMMA CountKept ==
    ASSUME CountInv, UNCHANGED retryVars
    PROVE  CountInv'
  BY DEF CountInv, retryVars, Retryable, Sleepable, Advises

LEMMA NextCounts == CountInv /\ [Next]_vars => CountInv'
<1> SUFFICES ASSUME CountInv, [Next]_vars
             PROVE  CountInv'
  OBVIOUS
<1>1. CASE Fetch
  <2>1. RetriesOf(source) \in Nat
    BY DEF RetriesOf
  <2> QED
    BY <1>1, <2>1, NoCallCounts DEF Fetch
<1>2. CASE Requests
  BY <1>2, RetryCounts DEF Requests
<1>3. CASE Close
  BY <1>3, NoCallCounts DEF Close
<1>4. CASE UNCHANGED retryVars
  BY <1>4, CountKept
<1> QED
  BY <1>1, <1>2, <1>3, <1>4
     DEF Next, Working, MakeConnector, Fails, Ingests, OpensPage, ReadsPage, EndsPage, vars

LEMMA InitCounts == Init => CountInv
  BY DEF Init, RetryInit, CountInv, Ended

(* The policy of request_with_retry: never more than max_retries + 1       *)
(* requests, nothing but a success is returned, and an error that is worth *)
(* a retry surfaces only when all were used.                               *)
THEOREM RetriesAsPromised == Spec => []RetryPromise
  BY InitCounts, NextCounts, CountImplies, PTL DEF Spec

-----------------------------------------------------------------------------
(* Clients.                                                                *)

LEMMA NextReleases == ClientsReleased /\ [Next]_vars => ClientsReleased'
<1> SUFFICES ASSUME ClientsReleased, [Next]_vars
             PROVE  ClientsReleased'
  OBVIOUS
<1>1. ASSUME NEW s \in Sources, NEW injected \in BOOLEAN, MakeConnector(s, injected)
      PROVE  ClientsReleased'
  BY <1>1 DEF MakeConnector, ClientsReleased
<1>2. CASE Fetch
  BY <1>2 DEF Fetch, ClientsReleased
<1>3. CASE Close
  BY <1>3 DEF Close, ClientsReleased
<1>4. CASE UNCHANGED <<client, lent>> /\ (stage' = "idle" => stage = "idle")
  BY <1>4 DEF ClientsReleased
<1> QED
  BY <1>1, <1>2, <1>3, <1>4
     DEF Next, Working, Requests, Fails, Ingests, OpensPage, ReadsPage, EndsPage, vars, connVars

(* The client of a connector is closed when the source is done with, how-  *)
(* ever the fetch and the ingestion ended, and a lent one is not.          *)
THEOREM ClientsAreReleased == Spec => []ClientsReleased
<1>1. Init => ClientsReleased
  BY DEF Init, ClientsReleased
<1> QED
  BY <1>1, NextReleases, PTL DEF Spec

-----------------------------------------------------------------------------
(* Spellings.                                                              *)

(* What the graph keeps: no variant of what is not a URL, and a URL as it  *)
(* was written or as the pattern cuts it.                                  *)
Canonical(s) ==
    /\ s \in String
    /\ ~s.defanged
    /\ s.name \notin Unsupported
    /\ s.trimmed => s.name \in Odd
    /\ s.name \notin Urls => ~s.capitals /\ ~s.trimmed

SpellingInv ==
    /\ \A s \in graph : Canonical(s)
    /\ chunks \subseteq Contents
    /\ source \in Sources \cup {"none"}

LEMMA FieldSpelling ==
    ASSUME NEW records, FromFeed(records), NEW r \in records, NEW f, NEW s \in Field(r, f)
    PROVE  Written(s) /\ s.name \in Class(f) /\ ~s.defanged
<1>1. PICK pair \in r : pair[1] = f /\ s = pair[2]
  BY DEF Field
<1>2. pair \in UNION records
  BY <1>1
<1> QED
  BY <1>1, <1>2 DEF FromFeed

LEMMA LowerCanonical ==
    ASSUME NEW s, Written(s), ~s.defanged, s.name \notin Unsupported
    PROVE  Canonical(Lower(s))
  BY DEF Written, Canonical, Lower, String

LEMMA KeptCanonical ==
    ASSUME NEW s, Written(s), ~s.defanged, s.name \in Urls \cup Addresses
    PROVE  Canonical(s)
  BY ClassesAssumption DEF Written, Canonical, String

LEMMA FeedsCanonical ==
    ASSUME NEW records, FromFeed(records)
    PROVE  /\ \A s \in NormalizeUrlhaus(records) : Canonical(s)
           /\ \A s \in NormalizeFeodo(records) : Canonical(s)
           /\ \A s \in NormalizeIndicators(records) : Canonical(s)
           /\ \A status : \A s \in NormalizeMalwareBazaar(status, records) : Canonical(s)
<1>0. Class("url") = Urls /\ Class("ip_address") = Addresses
  BY DEF Class, HashFields
<1>1. ASSUME NEW r \in records, NEW s \in Field(r, "url")
      PROVE  Canonical(s)
  BY <1>0, <1>1, FieldSpelling, KeptCanonical
<1>2. ASSUME NEW r \in records, NEW s \in Field(r, "host")
      PROVE  Canonical(HostIoc(s))
  <2>1. Written(s) /\ s.name \in Addresses \cup Domains /\ ~s.defanged
    <3>1. Class("host") = Addresses \cup Domains
      BY DEF Class, HashFields
    <3> QED
      BY <1>2, <3>1, FieldSpelling
  <2>2. s.name \notin Unsupported
    BY <2>1, ClassesAssumption
  <2> QED
    BY <2>1, <2>2, KeptCanonical, LowerCanonical DEF HostIoc
<1>3. ASSUME NEW r \in records, NEW s \in Field(r, "ip_address")
      PROVE  Canonical(s)
  BY <1>0, <1>3, FieldSpelling, KeptCanonical
<1>4. ASSUME NEW r \in records, NEW f, NEW s \in Field(r, f), s.name \notin Unsupported
      PROVE  Canonical(Lower(s)) /\ (s.name \in Urls => Canonical(s))
  BY <1>4, FieldSpelling, KeptCanonical, LowerCanonical
<1>5. \A s \in NormalizeUrlhaus(records) : Canonical(s)
  BY <1>1, <1>2 DEF NormalizeUrlhaus
<1>6. \A s \in NormalizeFeodo(records) : Canonical(s)
  BY <1>3 DEF NormalizeFeodo
<1>7. \A s \in NormalizeIndicators(records) : Canonical(s)
  BY <1>4 DEF NormalizeIndicators
<1>8. \A status : \A s \in NormalizeMalwareBazaar(status, records) : Canonical(s)
  <2>1. ASSUME NEW r \in records, NEW f \in HashFields, NEW s \in Field(r, f)
        PROVE  s.name \notin Unsupported
    <3>1. Class(f) = Hashes
      BY DEF Class, HashFields
    <3> QED
      BY <2>1, <3>1, FieldSpelling, ClassesAssumption
  <2> QED
    BY <1>4, <2>1 DEF NormalizeMalwareBazaar
<1> QED
  BY <1>5, <1>6, <1>7, <1>8

LEMMA ParsedCanonical ==
    ASSUME NEW text, \A s \in text : Written(s)
    PROVE  \A s \in ParseIocs(text) : Canonical(s)
<1>1. ASSUME NEW n \in Names, n \notin Unsupported
      PROVE  Canonical(Plain(n))
  BY <1>1 DEF Canonical, Plain, String
<1>2. ASSUME NEW n \in Addresses \cup Domains, NEW x \in ParseHost(n)
      PROVE  Canonical(x)
  BY <1>1, <1>2, ClassesAssumption DEF ParseHost, Names
<1>3. ASSUME NEW s, Written(s)
      PROVE  \A x \in ParseOne(s) : Canonical(x)
  <2> DEFINE r == Refang(s)
  <2>1. Written(r) /\ ~r.defanged /\ r.name = s.name /\ r.name \in Names
    BY <1>3 DEF Written, Refang, String
  <2>2. r.name \notin Unsupported => Canonical(Lower(r))
    BY <2>1, LowerCanonical
  <2>3. r.name \in Addresses => Canonical(r)
    BY <2>1, KeptCanonical
  <2>4. ASSUME r.name \in Urls
        PROVE  /\ Canonical([r EXCEPT !.trimmed = r.name \in Odd])
               /\ HostOf[r.name] \in Addresses \cup Domains
    <3>1. (r.name \in Odd) \in BOOLEAN
      OBVIOUS
    <3>2. /\ r.name \in Names
          /\ r = [name |-> r.name, capitals |-> r.capitals,
                   defanged |-> r.defanged, trimmed |-> r.trimmed]
          /\ r.capitals \in BOOLEAN /\ r.defanged \in BOOLEAN
      BY <2>1 DEF Written, String
    <3>3. [r EXCEPT !.trimmed = r.name \in Odd] =
             [name |-> r.name, capitals |-> r.capitals, defanged |-> r.defanged,
              trimmed |-> r.name \in Odd]
      BY <3>2
    <3> HIDE DEF r
    <3> QED
      BY <2>1, <2>4, <3>1, <3>2, <3>3, NamesAssumption, ClassesAssumption
         DEF Canonical, String
  <2> HIDE DEF r
  <2>5. CASE r.name \in Urls /\ r.name \notin Hashes \cup Addresses \cup Domains
    BY <2>1, <2>4, <2>5, <1>2 DEF ParseOne, r
  <2> QED
    BY <2>1, <2>2, <2>3, <2>4, <1>2, ClassesAssumption DEF ParseOne, Names, r
<1> QED
  BY <1>3 DEF ParseIocs

LEMMA NextSpells == SpellingInv /\ [Next]_vars => SpellingInv'
<1> SUFFICES ASSUME SpellingInv, [Next]_vars
             PROVE  SpellingInv'
  OBVIOUS
<1>0. \A S : (\A s \in S : Canonical(s)) => \A s \in graph \cup S : Canonical(s)
  BY DEF SpellingInv
<1>1. ASSUME NEW s \in Sources, NEW payload \in Payloads[s], source = s, Ingests(payload)
      PROVE  SpellingInv'
  <2>1. \A x \in Normalize(payload) : Canonical(x)
    <3>1. CASE s \in {"urlhaus", "feodo", "otx"}
      <4>1. FromFeed(payload)
        BY <3>1, PayloadsAssumption
      <4> QED
        BY <1>1, <3>1, <4>1, FeedsCanonical DEF Normalize
    <3>2. CASE s = "malwarebazaar"
      <4>1. FromFeed(payload.data)
        BY <3>2, PayloadsAssumption
      <4> QED
        BY <1>1, <3>2, <4>1, FeedsCanonical DEF Normalize
    <3>3. CASE s = "document"
      <4>1. \A x \in payload : Written(x)
        BY <3>3, PayloadsAssumption
      <4> QED
        BY <1>1, <3>3, <4>1, ParsedCanonical DEF Normalize
    <3> QED
      BY <3>1, <3>2, <3>3 DEF Sources, Feeds
  <2> QED
    BY <1>0, <1>1, <2>1 DEF Ingests, SpellingInv, htmlVars
<1>2. CASE EndsPage
  <2>1. \A x \in chunks : Written(x)
    BY PayloadsAssumption DEF SpellingInv
  <2>2. \A x \in ParseIocs(chunks) : Canonical(x)
    BY <2>1, ParsedCanonical
  <2>3. \A x \in graph' : Canonical(x)
    BY <1>0, <1>2, <2>2 DEF EndsPage, SpellingInv
  <2> QED
    BY <1>2, <2>3 DEF EndsPage, NewPage, SpellingInv
<1>3. CASE ReadsPage
  BY <1>3 DEF ReadsPage, connVars, SpellingInv, HtmlStep, StartTag, EndTag,
              BodyWithoutHeadEnd, Data
<1>4. CASE UNCHANGED <<graph, chunks>> /\ source' \in Sources \cup {"none"}
  BY <1>4 DEF SpellingInv
<1> QED
  BY <1>1, <1>2, <1>3, <1>4
     DEF Next, Working, MakeConnector, Fetch, Requests, Fails, OpensPage, Close,
         vars, connVars, htmlVars, SpellingInv

-----------------------------------------------------------------------------
(* Waits.                                                                  *)

LEMMA PowersGrow ==
    ASSUME NEW n \in Nat
    PROVE  PowerOfTwo[n] \in Nat \ {0}
<1> DEFINE double == [m \in Nat |-> 2 * m]
           T == {k \in Nat : PowerOfTwo[k] \in Nat \ {0}}
<1>1. PICK f : f = [k \in Nat |-> IF k = 0 THEN 1 ELSE double[f[k - 1]]]
  <2> DEFINE S == Nat
             one == 1
  <2>1. one \in S /\ double \in [S -> S]
    OBVIOUS
  <2> HIDE DEF S, one, double
  <2>2. \E f : f = [k \in Nat |-> IF k = 0 THEN one ELSE double[f[k - 1]]]
    BY <2>1, IterationExists
  <2> QED
    BY <2>2 DEF one
<1>2. \A k \in Nat : f[k] \in Nat
  <2> DEFINE N == {k \in Nat : f[k] \in Nat}
  <2>1. 0 \in N
    BY <1>1
  <2>2. ASSUME NEW k \in Nat, k \in N
        PROVE  k + 1 \in N
    BY <1>1, <2>2
  <2>3. Nat \subseteq N
    <3> HIDE DEF N
    <3> QED
      BY <2>1, <2>2, SetInduction
  <2> QED
    BY <2>3
<1>3. f = [k \in Nat |-> IF k = 0 THEN 1 ELSE 2 * f[k - 1]]
  <2>1. ASSUME NEW k \in Nat
        PROVE  f[k] = IF k = 0 THEN 1 ELSE 2 * f[k - 1]
    <3>1. k # 0 => f[k - 1] \in Nat
      BY <1>2
    <3> QED
      BY <1>1, <3>1
  <2>2. DOMAIN f = Nat /\ f = [k \in Nat |-> f[k]]
    BY <1>1
  <2> QED
    BY <2>1, <2>2
<1>4. PowerOfTwo = [k \in Nat |-> IF k = 0 THEN 1 ELSE 2 * PowerOfTwo[k - 1]]
  BY <1>3 DEF PowerOfTwo
<1>5. 0 \in T
  BY <1>4
<1>6. ASSUME NEW k \in Nat, k \in T
      PROVE  k + 1 \in T
  BY <1>4, <1>6
<1>7. Nat \subseteq T
  <2> HIDE DEF T
  <2> QED
    BY <1>5, <1>6, SetInduction
<1> QED
  BY <1>7

LEMMA AnswerShape ==
    ASSUME NEW a \in Answers
    PROVE  /\ a.status \in {"ok", "refused", "busy", "transport"}
           /\ a.after.form \in {"none", "date", "number", "nan"}
           /\ a.after.value \in Int
           /\ a.status = "transport" => a.after.form = "none"
  BY AnswersAssumption DEF RetryAfters

LEMMA DelayIsNumber ==
    ASSUME attempt \in Nat, NEW a \in Answers
    PROVE  /\ Delay(a) \in Int
           /\ ~Advises(a) => Delay(a) > 0
           /\ Advises(a) => Delay(a) = a.after.value
<1>1. PowerOfTwo[attempt] \in Nat /\ PowerOfTwo[attempt] > 0
  BY PowersGrow
<1>2. ASSUME NEW x \in Nat, x > 0
      PROVE  Backoff * x \in Nat /\ Backoff * x > 0
  BY <1>2, BackoffAssumption
<1>3. Backoff * PowerOfTwo[attempt] \in Nat /\ Backoff * PowerOfTwo[attempt] > 0
  BY <1>1, <1>2
<1> QED
  BY <1>3, AnswerShape DEF Delay

(* What is waited for is set when the wait begins.                         *)
WaitInv ==
    /\ CountInv
    /\ answer \in Answers \cup {NoAnswer}
    /\ delay \in Int
    /\ NeverHammers

LEMMA BackOffWaits ==
    ASSUME WaitInv, NEW a \in Answers, BacksOff(a)
    PROVE  /\ delay' \in Int
           /\ delay' > 0
           /\ answer'.after.form = "number" => delay' >= answer'.after.value
<1>1. attempt \in Nat /\ answer' = a /\ delay' = Delay(a) /\ Sleepable(a) /\ Retryable(a)
  BY DEF WaitInv, CountInv, BacksOff, Request
<1>2. CASE Advises(a)
  BY <1>1, <1>2, DelayIsNumber, AnswerShape DEF Sleepable
<1>3. CASE ~Advises(a)
  <2>1. Delay(a) \in Int /\ Delay(a) > 0
    BY <1>1, <1>3, DelayIsNumber
  <2>2. a.after.form = "number" => a.after.value = 0
    BY <1>1, <1>3, AnswerShape DEF Advises, Retryable
  <2> QED
    BY <1>1, <2>1, <2>2
<1> QED
  BY <1>2, <1>3

LEMMA RetryWaits ==
    ASSUME WaitInv, RetryStep
    PROVE  /\ answer' \in Answers \cup {NoAnswer}
           /\ delay' \in Int
           /\ NeverHammers'
<1>1. ASSUME NEW a \in Answers, Returns(a) \/ GivesUp(a) \/ SleepRaises(a)
      PROVE  /\ answer' \in Answers \cup {NoAnswer}
             /\ delay' \in Int
             /\ NeverHammers'
  BY <1>1 DEF WaitInv, Returns, GivesUp, SleepRaises, Request, NeverHammers
<1>2. ASSUME NEW a \in Answers, BacksOff(a)
      PROVE  /\ answer' \in Answers \cup {NoAnswer}
             /\ delay' \in Int
             /\ NeverHammers'
  <2>1. answer' = a
    BY <1>2 DEF BacksOff, Request
  <2> QED
    BY <1>2, <2>1, BackOffWaits DEF NeverHammers
<1>3. CASE Wakes
  BY <1>3 DEF WaitInv, Wakes, NeverHammers
<1> QED
  BY <1>1, <1>2, <1>3 DEF RetryStep

LEMMA NoCallWaits ==
    ASSUME NEW state \in {"none", "send"}, NEW n, NoCall(state, n)
    PROVE  /\ answer' \in Answers \cup {NoAnswer}
           /\ delay' \in Int
           /\ NeverHammers'
  BY DEF NoCall, NeverHammers

LEMMA NextWaits == WaitInv /\ [Next]_vars => WaitInv'
<1> SUFFICES ASSUME WaitInv, [Next]_vars
             PROVE  WaitInv'
  OBVIOUS
<1>0. CountInv'
  BY NextCounts DEF WaitInv
<1>1. CASE Fetch
  BY <1>0, <1>1, NoCallWaits DEF Fetch, WaitInv
<1>2. CASE Requests
  BY <1>0, <1>2, RetryWaits DEF Requests, WaitInv
<1>3. CASE Close
  BY <1>0, <1>3, NoCallWaits DEF Close, WaitInv
<1>4. CASE UNCHANGED retryVars
  BY <1>0, <1>4 DEF retryVars, WaitInv, NeverHammers
<1> QED
  BY <1>1, <1>2, <1>3, <1>4
     DEF Next, Working, MakeConnector, Fails, Ingests, OpensPage, ReadsPage, EndsPage, vars

(* Each pause follows an answer the call has received, and its length is a *)
(* number that is positive and no smaller than a number the header gives.  *)
THEOREM WaitInvariant == Spec => []WaitInv
<1>1. Init => WaitInv
  BY InitCounts DEF Init, RetryInit, WaitInv, NeverHammers
<1> QED
  BY <1>1, NextWaits, PTL DEF Spec

(* Between two requests there is a wait at every attempt and whatever the  *)
(* header says, and it is no shorter than the number of seconds the header *)
(* gives.  A date in the header is no number: it buys no longer wait.      *)
THEOREM NeverHammersSources == Spec => []NeverHammers
<1>1. WaitInv => NeverHammers
  BY DEF WaitInv
<1> QED
  BY <1>1, WaitInvariant, PTL

-----------------------------------------------------------------------------
(* Pages.                                                                  *)

(* The counter counts the skipped elements that are open, where a page     *)
(* writes the end tag of its head and, inside a skipped element, ends no   *)
(* other that is not open.                                                 *)
Tidy == ~OmitHeadEnd /\ ~StrayEnds
Deep(elements) == {i \in 1..Len(elements) : elements[i] \in SkipTags}

PageInv ==
    /\ open \in Seq(Tags \cup {"body"}) /\ Len(open) <= MaxOpen
    /\ skipDepth \in Nat
    /\ inTitle \in BOOLEAN
    /\ chunks \cup titleParts \cup shown \subseteq Contents
    /\ Tidy => skipDepth = Cardinality(Deep(open)) /\ TextIsShown

LEMMA NoElementsOpen == Deep(<<>>) = {} /\ Cardinality(Deep(<<>>)) = 0
  BY FS_EmptySet DEF Deep

LEMMA DeepIsFinite ==
    ASSUME NEW S, NEW elements \in Seq(S)
    PROVE  IsFiniteSet(Deep(elements)) /\ Cardinality(Deep(elements)) \in Nat
<1>1. IsFiniteSet(1..Len(elements))
  BY FS_Interval
<1>2. IsFiniteSet(Deep(elements))
  BY <1>1, FS_Subset DEF Deep
<1> QED
  BY <1>2, FS_CardinalityType

LEMMA DeepenedBy ==
    ASSUME NEW S, NEW elements \in Seq(S), NEW t \in S
    PROVE  Cardinality(Deep(Append(elements, t)))
             = IF t \in SkipTags THEN Cardinality(Deep(elements)) + 1
               ELSE Cardinality(Deep(elements))
<1> DEFINE n == Len(elements)
           D == Deep(elements)
<1>1. Deep(Append(elements, t)) = IF t \in SkipTags THEN D \cup {n + 1} ELSE D
  BY DEF Deep
<1>2. n + 1 \notin D
  BY DEF Deep
<1>3. IsFiniteSet(D)
  BY DeepIsFinite
<1> HIDE DEF D
<1>4. Cardinality(D \cup {n + 1}) = Cardinality(D) + 1
  BY <1>2, <1>3, FS_AddElement
<1> QED
  BY <1>1, <1>4 DEF D

(* An end tag takes one skipped element off the open ones, its own, or     *)
(* none.                                                                   *)
LEMMA DeepAfterEnd ==
    ASSUME NEW S, open \in Seq(S), NEW t, NEW i \in DOMAIN open, Ends(t, i)
    PROVE  LET left == SubSeq(open, 1, i - 1)
           IN  /\ left \in Seq(S) /\ Len(left) = i - 1 /\ Len(left) \in Nat
               /\ Cardinality(Deep(left)) \in Nat
               /\ Cardinality(Deep(open)) = IF t \in SkipTags THEN Cardinality(Deep(left)) + 1
                                            ELSE Cardinality(Deep(left))
<1> DEFINE left == SubSeq(open, 1, i - 1)
           D == Deep(left)
<1>1. i \in 1..Len(open) /\ Len(open) \in Nat
  OBVIOUS
<1>2. left \in Seq(S) /\ Len(left) = i - 1 /\ \A k \in 1..(i - 1) : left[k] = open[k]
  BY <1>1
<1>3. IsFiniteSet(D) /\ Cardinality(D) \in Nat
  BY <1>2, DeepIsFinite
<1>4. D = {k \in 1..(i - 1) : open[k] \in SkipTags}
  BY <1>2 DEF Deep
<1>5. open[i] = t /\ \A k \in (i + 1)..Len(open) : open[k] \notin SkipTags
  BY DEF Ends, Opaque
<1>6. Deep(open) = IF t \in SkipTags THEN D \cup {i} ELSE D
  BY <1>1, <1>4, <1>5 DEF Deep
<1>7. i \notin D
  BY <1>1, <1>4
<1> HIDE DEF D
<1>8. Cardinality(D \cup {i}) = Cardinality(D) + 1
  BY <1>3, <1>7, FS_AddElement
<1> QED
  BY <1>1, <1>2, <1>3, <1>6, <1>8 DEF D

(* What is skipped is what a browser does not show.                        *)
LEMMA SkippedCount ==
    ASSUME NEW S, open \in Seq(S)
    PROVE  Cardinality(Deep(open)) = 0 <=> ~Skipped
<1>1. IsFiniteSet(Deep(open))
  BY DeepIsFinite
<1>2. Cardinality(Deep(open)) = 0 <=> Deep(open) = {}
  BY <1>1, FS_EmptySet
<1>3. Deep(open) = {} <=> ~Skipped
  BY DEF Deep, Skipped
<1> QED
  BY <1>2, <1>3

LEMMA StartTagKeeps ==
    ASSUME PageInv, NEW t \in Tags \cup {"body"}, StartTag(t)
    PROVE  PageInv'
<1> DEFINE S == Tags \cup {"body"}
<1>1. open \in Seq(S) /\ t \in S /\ open' = Append(open, t)
  BY DEF PageInv, StartTag
<1>2. open' \in Seq(S) /\ Len(open') = Len(open) + 1
  BY <1>1
<1>3. Cardinality(Deep(open')) = IF t \in SkipTags THEN Cardinality(Deep(open)) + 1
                                 ELSE Cardinality(Deep(open))
  BY <1>1, DeepenedBy
<1>4. Len(open') <= MaxOpen
  BY <1>1, <1>2, TagsAssumption DEF PageInv, StartTag
<1> QED
  BY <1>2, <1>3, <1>4 DEF PageInv, StartTag, TextIsShown

LEMMA EndTagKeeps ==
    ASSUME PageInv, NEW t \in Tags \cup {"body"}, EndTag(t)
    PROVE  PageInv'
<1> DEFINE S == Tags \cup {"body"}
<1>1. open \in Seq(S) /\ Len(open) <= MaxOpen /\ Len(open) \in Nat /\ skipDepth \in Nat
  BY DEF PageInv
<1>2. inTitle' \in BOOLEAN /\ UNCHANGED <<chunks, titleParts, shown>> /\ skipDepth' \in Nat
  BY <1>1 DEF PageInv, EndTag
<1>3. CASE Stray(t) /\ open' = open
  <2>1. Cardinality(Deep(open)) = 0 <=> ~Skipped
    BY <1>1, SkippedCount
  <2>2. Tidy => skipDepth' = skipDepth
    BY <1>1, <1>3, <2>1 DEF EndTag, MayEnd, Tidy, PageInv
  <2> QED
    BY <1>2, <1>3, <2>2 DEF PageInv, TextIsShown
<1>4. CASE \E i \in DOMAIN open : Ends(t, i) /\ open' = SubSeq(open, 1, i - 1)
  <2>1. PICK i \in DOMAIN open : Ends(t, i) /\ open' = SubSeq(open, 1, i - 1)
    BY <1>4
  <2>2. i \in Nat /\ i <= Len(open)
    BY <1>1
  <2>3. /\ open' \in Seq(S) /\ Len(open') = i - 1
        /\ Cardinality(Deep(open')) \in Nat
        /\ Cardinality(Deep(open)) = IF t \in SkipTags THEN Cardinality(Deep(open')) + 1
                                     ELSE Cardinality(Deep(open'))
    BY <1>1, <2>1, DeepAfterEnd
  <2>4. Len(open') <= MaxOpen
    BY <1>1, <2>2, <2>3, TagsAssumption
  <2>5. Tidy => skipDepth' = Cardinality(Deep(open'))
    BY <1>1, <2>3 DEF PageInv, EndTag
  <2> QED
    BY <1>2, <2>3, <2>4, <2>5 DEF PageInv, TextIsShown
<1> QED
  BY <1>3, <1>4 DEF EndTag, Shut

LEMMA DataKeeps ==
    ASSUME PageInv, NEW d \in Contents, Data(d)
    PROVE  PageInv'
<1>1. Cardinality(Deep(open)) = 0 <=> ~Skipped
  BY SkippedCount DEF PageInv
<1>2. Tidy => (skipDepth = 0 <=> ~Skipped)
  BY <1>1 DEF PageInv
<1>3. Tidy => chunks' = shown'
  BY <1>2 DEF PageInv, Data, TextIsShown
<1> QED
  BY <1>3 DEF PageInv, Data, TextIsShown

LEMMA NewPageKeeps ==
    ASSUME NewPage
    PROVE  PageInv'
<1>1. open' \in Seq(Tags \cup {"body"}) /\ Len(open') <= MaxOpen
  BY TagsAssumption DEF NewPage
<1>2. Deep(open') = Deep(<<>>)
  BY DEF NewPage
<1>3. skipDepth' = 0 /\ skipDepth' \in Nat /\ skipDepth' = Cardinality(Deep(open'))
  BY <1>2, NoElementsOpen DEF NewPage
<1>4. inTitle' \in BOOLEAN /\ chunks' \cup titleParts' \cup shown' \subseteq Contents
  BY DEF NewPage
<1>5. TextIsShown'
  BY DEF NewPage, TextIsShown
<1> QED
  BY <1>1, <1>3, <1>4, <1>5 DEF PageInv

LEMMA NextReads == PageInv /\ [Next]_vars => PageInv'
<1> SUFFICES ASSUME PageInv, [Next]_vars
             PROVE  PageInv'
  OBVIOUS
<1>1. CASE ReadsPage
  <2>1. CASE BodyWithoutHeadEnd
    <3>1. open' \in Seq(Tags \cup {"body"}) /\ Len(open') = Len(open) /\ OmitHeadEnd
      BY <2>1 DEF BodyWithoutHeadEnd
    <3> QED
      BY <2>1, <3>1 DEF PageInv, BodyWithoutHeadEnd, Tidy
  <2> QED
    BY <1>1, <2>1, StartTagKeeps, EndTagKeeps, DataKeeps DEF ReadsPage, HtmlStep
<1>2. CASE EndsPage
  BY <1>2, NewPageKeeps DEF EndsPage
<1>3. CASE UNCHANGED htmlVars
  BY <1>3 DEF htmlVars, PageInv, TextIsShown
<1> QED
  BY <1>1, <1>2, <1>3
     DEF Next, Working, MakeConnector, Fetch, Requests, Fails, Ingests, OpensPage, Close, vars

(* Whatever the page, _skip_depth counts the elements to skip that are     *)
(* open, as long as the page is tidy; stray end tags outside of the        *)
(* skipped elements and misnested ones of the others do not make it less.  *)
THEOREM PageInvariant == Spec => []PageInv
<1>1. ASSUME Init
      PROVE  PageInv
  <2>1. open \in Seq(Tags \cup {"body"}) /\ Len(open) <= MaxOpen
    BY <1>1, TagsAssumption DEF Init, HtmlInit
  <2>2. Deep(open) = Deep(<<>>)
    BY <1>1 DEF Init, HtmlInit
  <2>3. skipDepth \in Nat /\ skipDepth = Cardinality(Deep(open))
    BY <1>1, <2>2, NoElementsOpen DEF Init, HtmlInit
  <2>4. inTitle \in BOOLEAN /\ chunks \cup titleParts \cup shown \subseteq Contents
    BY <1>1 DEF Init, HtmlInit
  <2>5. TextIsShown
    BY <1>1 DEF Init, HtmlInit, TextIsShown
  <2> QED
    BY <2>1, <2>3, <2>4, <2>5 DEF PageInv
<1> QED
  BY <1>1, NextReads, PTL DEF Spec

(* Where pages write the end tag of their head, and no stray end tag of a  *)
(* skipped kind inside a skipped element, what is kept of a page is what   *)
(* its reader sees, however deep its elements are and in whatever order    *)
(* its other end tags come.                                                *)
THEOREM KeptTextIsShown ==
    ASSUME ~OmitHeadEnd, ~StrayEnds
    PROVE  Spec => []TextIsShown
<1>1. PageInv => TextIsShown
  BY DEF PageInv, Tidy
<1> QED
  BY <1>1, PageInvariant, PTL

-----------------------------------------------------------------------------
(* Lookups.                                                                *)

(* The string rewritten, field by field.                                   *)
Spelled(name, capitals, defanged, trimmed) ==
    [name |-> name, capitals |-> capitals, defanged |-> defanged, trimmed |-> trimmed]

LEMMA LowerSpelled ==
    ASSUME NEW a, NEW b, NEW c, NEW d
    PROVE  Lower(Spelled(a, b, c, d)) = Spelled(a, FALSE, c, d)
<1>1. ASSUME NEW x
      PROVE  [Spelled(a, b, c, d) EXCEPT !.capitals = x] = Spelled(a, x, c, d)
  BY DEF Spelled
<1> QED
  BY <1>1, Zenon DEF Lower

LEMMA RefangSpelled ==
    ASSUME NEW a, NEW b, NEW c, NEW d
    PROVE  Refang(Spelled(a, b, c, d)) = Spelled(a, b, FALSE, d)
<1>1. ASSUME NEW x
      PROVE  [Spelled(a, b, c, d) EXCEPT !.defanged = x] = Spelled(a, b, x, d)
  BY DEF Spelled
<1> QED
  BY <1>1, Zenon DEF Refang

(* A query for an indicator of the graph, in any spelling, parses to that  *)
(* indicator's own node, and to no other URL's.                            *)
LEMMA SpellingParses ==
    ASSUME NEW n, Canonical(n), Readable(n), NEW q \in Spellings(n)
    PROVE  /\ n \in ParseOne(q)
           /\ n.name \notin Urls => ParseOne(q) = {n}
           /\ \A x \in ParseOne(q) : x.name \in Urls => x = n
<1> DEFINE r == Refang(q)
<1>1. n = Spelled(n.name, n.capitals, FALSE, n.trimmed) /\ n.name \in Names
  BY DEF Canonical, String, Spelled
<1>2. PICK c, d : /\ q = Spelled(n.name, c, d, n.trimmed)
                  /\ n.name \notin Domains \cup Hashes => c = n.capitals
  <2> DEFINE C == IF n.name \in Domains \cup Hashes THEN BOOLEAN ELSE {n.capitals}
             D == IF n.name \in Hashes THEN {FALSE} ELSE BOOLEAN
  <2>1. Spellings(n) = {[name |-> n.name, capitals |-> c, defanged |-> d,
                         trimmed |-> n.trimmed] : c \in C, d \in D}
    BY DEF Spellings
  <2>2. n.name \notin Domains \cup Hashes => C = {n.capitals}
    OBVIOUS
  <2> HIDE DEF C, D
  <2>3. \E c \in C, d \in D : q = [name |-> n.name, capitals |-> c, defanged |-> d,
                                  trimmed |-> n.trimmed]
    BY <2>1
  <2> QED
    BY <2>2, <2>3 DEF Spelled
<1>3. r = Spelled(n.name, c, FALSE, n.trimmed)
  BY <1>2, RefangSpelled, Zenon
<1> HIDE DEF r
<1>4. Lower(r) = Spelled(n.name, FALSE, FALSE, n.trimmed)
  <2>1. Lower(Spelled(n.name, c, FALSE, n.trimmed)) = Spelled(n.name, FALSE, FALSE, n.trimmed)
    BY LowerSpelled
  <2> QED
    BY <1>3, <2>1
<1>5. n.name \notin Urls => n.capitals = FALSE /\ n.trimmed = FALSE
  BY DEF Canonical, String
<1>6. r.name = n.name
  <2>1. Spelled(n.name, c, FALSE, n.trimmed).name = n.name
    BY DEF Spelled
  <2> QED
    BY <1>3, <2>1
<1>7. CASE n.name \in Hashes
  <2>1. ParseOne(q) = {Lower(r)}
    BY <1>6, <1>7, ClassesAssumption DEF ParseOne, r
  <2>2. n.name \notin Urls /\ Lower(r) = n
    BY <1>1, <1>4, <1>5, <1>7, ClassesAssumption
  <2> QED
    BY <2>1, <2>2
<1>8. CASE n.name \in Addresses
  <2>1. ParseOne(q) = {r}
    BY <1>6, <1>8, ClassesAssumption DEF ParseOne, r
  <2>2. n.name \notin Urls /\ n.name \notin Domains \cup Hashes
    BY <1>8, ClassesAssumption
  <2>3. r = n
    BY <1>1, <1>2, <1>3, <1>5, <2>2
  <2> QED
    BY <2>1, <2>2, <2>3
<1>9. CASE n.name \in Domains
  <2>1. n.name \notin Urls /\ n.name \notin Odd
    BY <1>5, <1>9, ClassesAssumption DEF Readable
  <2>2. ParseOne(q) = {Lower(x) : x \in {y \in {r} : y.name \notin Odd}}
    BY <1>6, <1>9, ClassesAssumption DEF ParseOne, r
  <2>3. {y \in {r} : y.name \notin Odd} = {r}
    BY <1>6, <2>1
  <2>4. ParseOne(q) = {Lower(r)}
    BY <2>2, <2>3
  <2>5. Lower(r) = n
    BY <1>1, <1>4, <1>5, <2>1
  <2> QED
    BY <2>1, <2>4, <2>5
<1>10. CASE n.name \in Urls
  <2>1. ParseOne(q) = {[r EXCEPT !.trimmed = r.name \in Odd]} \cup ParseHost(HostOf[n.name])
    BY <1>6, <1>10, ClassesAssumption DEF ParseOne, r
  <2>2. n.trimmed <=> n.name \in Odd
    BY DEF Canonical, Readable
  <2>3. n.trimmed = (n.name \in Odd)
    BY <2>2 DEF Canonical, String
  <2>4. [r EXCEPT !.trimmed = r.name \in Odd] = Spelled(n.name, c, FALSE, n.name \in Odd)
    <3>1. ASSUME NEW x, NEW y
          PROVE  [Spelled(n.name, c, y, n.trimmed) EXCEPT !.trimmed = x]
                    = Spelled(n.name, c, y, x)
      BY DEF Spelled
    <3> QED
      BY <1>3, <1>6, <3>1, Zenon
  <2>5. c = n.capitals
    BY <1>2, <1>10, ClassesAssumption
  <2>6. [r EXCEPT !.trimmed = r.name \in Odd] = n
    BY <1>1, <2>3, <2>4, <2>5
  <2>7. HostOf[n.name] \notin Urls
    BY <1>10, NamesAssumption, ClassesAssumption
  <2>8. \A x \in ParseHost(HostOf[n.name]) : x.name \notin Urls
    BY <2>7 DEF ParseHost, Plain
  <2> QED
    BY <1>10, <2>1, <2>6, <2>8
<1> QED
  BY <1>1, <1>7, <1>8, <1>9, <1>10 DEF Canonical, Names

LEMMA ResolveFinds ==
    ASSUME SpellingInv, NEW n \in graph, Readable(n), NEW q \in Spellings(n)
    PROVE  Resolve(graph, q) = n
<1> DEFINE found == ParseOne(q) \cap graph
           urls == {s \in found : s.name \in Urls}
<1>1. Canonical(n)
  BY DEF SpellingInv
<1>2. /\ n \in ParseOne(q)
      /\ n.name \notin Urls => ParseOne(q) = {n}
      /\ \A x \in ParseOne(q) : x.name \in Urls => x = n
  BY <1>1, SpellingParses
<1>3. n \in found
  BY <1>2
<1>4. \A s \in found : (urls # {} => s \in urls) <=> s = n
  BY <1>2, <1>3
<1>5. Resolve(graph, q) = CHOOSE s \in found : urls # {} => s \in urls
  BY <1>3 DEF Resolve
<1> HIDE DEF found, urls
<1>6. (CHOOSE s \in found : urls # {} => s \in urls) = n
  BY <1>3, <1>4
<1> QED
  BY <1>5, <1>6

(* Only canonical spellings ever reach the graph, whichever source or      *)
(* document they come from.                                                *)
THEOREM SpellingInvariant == Spec => []SpellingInv
<1>1. Init => SpellingInv
  BY DEF Init, HtmlInit, SpellingInv
<1> QED
  BY <1>1, NextSpells, PTL DEF Spec

(* However the sources spell an indicator that is not a URL, it ends at    *)
(* one node: none of them writes a variant of it to the graph.             *)
THEOREM OneNodeForAll == Spec => []OneNodePerIndicator
<1>1. SpellingInv => OneNodePerIndicator
  <2> SUFFICES ASSUME SpellingInv, NEW m \in graph, NEW n \in graph,
                      m.name = n.name, m.name \notin Urls
               PROVE  m = n
    BY DEF OneNodePerIndicator
  <2>1. /\ m \in String /\ ~m.capitals /\ ~m.defanged /\ ~m.trimmed
        /\ n \in String /\ ~n.capitals /\ ~n.defanged /\ ~n.trimmed
    BY DEF SpellingInv, Canonical
  <2>2. ASSUME NEW s \in String, ~s.capitals, ~s.defanged, ~s.trimmed
        PROVE  s = Plain(s.name)
    BY <2>2 DEF String, Plain
  <2> QED
    BY <2>1, <2>2
<1> QED
  BY <1>1, SpellingInvariant, PTL

(* An indicator of the graph that the patterns give back is found under    *)
(* its own node, defanged or not and in any case, not under its host's.    *)
THEOREM FoundHoweverSpelled == Spec => []FoundInAnySpelling
<1>1. SpellingInv => FoundInAnySpelling
  BY ResolveFinds DEF FoundInAnySpelling
<1> QED
  BY <1>1, SpellingInvariant, PTL

-----------------------------------------------------------------------------
(* Types.                                                                  *)

ConnTypeOK ==
    /\ source \in Sources \cup {"none"}
    /\ stage \in {"idle", "fetch", "request", "page", "close"}
    /\ client \in {"none", "open", "closed"}
    /\ lent \in BOOLEAN

LEMMA NextTyped == ConnTypeOK /\ [Next]_vars => ConnTypeOK'
<1> SUFFICES ASSUME ConnTypeOK, [Next]_vars
             PROVE  ConnTypeOK'
  OBVIOUS
<1> USE DEF ConnTypeOK
<1>1. ASSUME NEW s \in Sources, NEW injected \in BOOLEAN, MakeConnector(s, injected)
      PROVE  ConnTypeOK'
  BY <1>1 DEF MakeConnector
<1>2. CASE Fetch \/ Fails \/ OpensPage \/ EndsPage
  BY <1>2 DEF Fetch, Fails, OpensPage, EndsPage
<1>3. CASE Close
  BY <1>3 DEF Close
<1>4. CASE UNCHANGED connVars
  BY <1>4 DEF connVars
<1>5. ASSUME NEW payload, Ingests(payload)
      PROVE  ConnTypeOK'
  BY <1>5 DEF Ingests
<1> QED
  BY <1>1, <1>2, <1>3, <1>4, <1>5 DEF Next, Working, Requests, ReadsPage, vars

(* Every variable is well typed; in particular the graph holds no          *)
(* indicator of a type it does not know.                                   *)
THEOREM TypeCorrect == Spec => []TypeOK
<1>1. Init => ConnTypeOK
  BY DEF Init, ConnTypeOK
<1>2. Spec => []ConnTypeOK
  BY <1>1, NextTyped, PTL DEF Spec
<1>3. ConnTypeOK /\ WaitInv /\ PageInv /\ SpellingInv => TypeOK
  <2> SUFFICES ASSUME ConnTypeOK, WaitInv, PageInv, SpellingInv
               PROVE  TypeOK
    OBVIOUS
  <2>1. RetryTypeOK
    BY DEF WaitInv, CountInv, RetryTypeOK
  <2>2. HtmlTypeOK
    BY DEF PageInv, HtmlTypeOK
  <2>3. graph \subseteq {s \in String : ~s.defanged /\ s.name \notin Unsupported}
    BY DEF SpellingInv, Canonical
  <2> QED
    BY <2>1, <2>2, <2>3 DEF ConnTypeOK, TypeOK
<1> QED
  BY <1>2, <1>3, WaitInvariant, PageInvariant, SpellingInvariant, PTL
=============================================================================
