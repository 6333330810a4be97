---------------------------- MODULE ClientProofs ----------------------------
(***************************************************************************)
(* The calls that leave the process.  The circuit breaker around a         *)
(* dependency, for any number of callers and any thresholds: its counters  *)
(* and transitions.  The GitHub client, for any number of clients, files,  *)
(* pages, pushes and attempts: post_review is at most once and says all,   *)
(* and a context that nobody pushed to holds every file once.              *)
(***************************************************************************)
EXTENDS CircuitBreaker, GitHubClient, SequenceTheorems, TLAPS

-----------------------------------------------------------------------------
(* The circuit breaker *)

\* The two counting invariants and the type invariant are inductive together.
BreakerInv == BreakerTypeOK /\ ClosedCountsTheStreak /\ HalfOpenCountsProbes

\* The breaker starts closed, with nothing counted.
LEMMA InitBreakerInv == BreakerInit => BreakerInv
BY BreakerAssumption
   DEF BreakerInit, BreakerInv, BreakerTypeOK, ClosedCountsTheStreak, HalfOpenCountsProbes

\* Every step of a caller, of the clock or of the dependency keeps the counters
\* right, whichever state a late result finds the breaker in.
LEMMA StepBreakerInv == BreakerInv /\ [BreakerNext]_bvars => BreakerInv'
<1> SUFFICES ASSUME BreakerInv, [BreakerNext]_bvars PROVE BreakerInv'
  OBVIOUS
<1> USE BreakerAssumption
      DEF BreakerInv, BreakerTypeOK, ClosedCountsTheStreak, HalfOpenCountsProbes
<1>1. CASE Look
  BY <1>1 DEF Look, ReadState, Lapsed
<1>2. ASSUME NEW c \in Callers, Begin(c) PROVE BreakerInv'
  <2>1. call' \in [Callers -> {"idle", "waiting", "refused"}]
    BY <1>2 DEF Begin
  <2> QED BY <1>2, <2>1 DEF Begin, ReadState, Lapsed
<1>3. ASSUME NEW c \in Callers, Succeed(c) PROVE BreakerInv'
  <2>1. call' \in [Callers -> {"idle", "waiting", "refused"}]
    BY <1>3 DEF Succeed
  <2>2. CASE state = "half_open"
    BY <1>3, <2>1, <2>2 DEF Succeed, OnSuccess
  <2>3. CASE state # "half_open"
    BY <1>3, <2>1, <2>3 DEF Succeed, OnSuccess
  <2> QED BY <2>2, <2>3
<1>4. ASSUME NEW c \in Callers, RaiseError(c) PROVE BreakerInv'
  <2>1. call' \in [Callers -> {"idle", "waiting", "refused"}]
    BY <1>4 DEF RaiseError
  <2> QED BY <1>4, <2>1 DEF RaiseError, OnFailure
<1>5. ASSUME NEW c \in Callers, Cancel(c) PROVE BreakerInv'
  BY <1>5 DEF Cancel, breaker
<1>6. CASE Tick
  BY <1>6 DEF Tick
<1>7. CASE Outage
  BY <1>7 DEF Outage, breaker
<1>8. CASE UNCHANGED bvars
  BY <1>8 DEF bvars, breaker
<1> QED BY <1>1, <1>2, <1>3, <1>4, <1>5, <1>6, <1>7, <1>8 DEF BreakerNext, Result

\* The inductive invariant holds throughout.
THEOREM BreakerInvariance == BreakerSpec => []BreakerInv
BY InitBreakerInv, StepBreakerInv, PTL DEF BreakerSpec

\* Every variable of the breaker keeps its type, for any thresholds.
THEOREM BreakerTypeCorrect == BreakerSpec => []BreakerTypeOK
<1>1. BreakerInv => BreakerTypeOK
  BY DEF BreakerInv
<1> QED BY BreakerInvariance, <1>1, PTL

\* A closed breaker counts exactly the failures since the last good result and
\* is short of its threshold.
THEOREM ClosedCounts == BreakerSpec => []ClosedCountsTheStreak
<1>1. BreakerInv => ClosedCountsTheStreak
  BY DEF BreakerInv
<1> QED BY BreakerInvariance, <1>1, PTL

\* A half open breaker is short of the successes that close it and counts only
\* good results with no failure among them.
THEOREM HalfOpenCounts == BreakerSpec => []HalfOpenCountsProbes
<1>1. BreakerInv => HalfOpenCountsProbes
  BY DEF BreakerInv
<1> QED BY BreakerInvariance, <1>1, PTL

\* The breaker trips only on an unbroken run of failures as long as its
\* threshold, and closes only through half open after enough good results.
THEOREM Transitions == BreakerSpec => LegalTransitions
<1> DEFINE Legal ==
      /\ state = "closed" /\ state' # "closed" =>
            state' = "open" /\ streak' >= FailureThreshold
      /\ state = "open" /\ state' # "open" =>
            state' = "half_open" /\ age >= RecoveryTime
      /\ state = "half_open" /\ state' = "open" => streak' > 0
      /\ state = "half_open" /\ state' = "closed" => probes' >= SuccessThreshold
<1>1. BreakerInv /\ [BreakerNext]_bvars => [Legal]_bvars
  <2> SUFFICES ASSUME BreakerInv, BreakerNext PROVE Legal
    BY DEF bvars
  <2> USE BreakerAssumption
        DEF BreakerInv, BreakerTypeOK, ClosedCountsTheStreak, HalfOpenCountsProbes
  <2>1. CASE Look
    BY <2>1 DEF Look, ReadState, Lapsed
  <2>2. ASSUME NEW c \in Callers, Begin(c) PROVE Legal
    BY <2>2 DEF Begin, ReadState, Lapsed
  <2>3. ASSUME NEW c \in Callers, Succeed(c) PROVE Legal
    BY <2>3 DEF Succeed, OnSuccess
  <2>4. ASSUME NEW c \in Callers, RaiseError(c) PROVE Legal
    BY <2>4 DEF RaiseError, OnFailure
  <2>5. ASSUME NEW c \in Callers, Cancel(c) PROVE Legal
    BY <2>5 DEF Cancel, breaker
  <2>6. CASE Tick
    BY <2>6 DEF Tick
  <2>7. CASE Outage
    BY <2>7 DEF Outage, breaker
  <2> QED BY <2>1, <2>2, <2>3, <2>4, <2>5, <2>6, <2>7 DEF BreakerNext, Result
<1> QED BY BreakerInvariance, <1>1, PTL DEF BreakerSpec, LegalTransitions

-----------------------------------------------------------------------------
(* The GitHub client *)

\* A client that GitHub has a review of has ended: it sends no request anymore.
SpokenIsOver == \A i \in DOMAIN reviews : at[reviews[i].by] \in {"posted", "failed"}

\* PostsOnce is not inductive by itself: a client could post a second time if it
\* still had a request to make.
OnceInv == TypeOK /\ SpokenIsOver /\ PostsOnce

\* A page is a sequence of files of the head.
LEMMA BatchType ==
    ASSUME TypeOK, NEW p \in Nat \ {0}
    PROVE  Batch(p) \in Seq([version : 0..Pushes, index : Nat])
  <1> DEFINE n == IF size[head] >= p * PageSize THEN PageSize
                  ELSE IF size[head] > (p - 1) * PageSize THEN size[head] - (p - 1) * PageSize
                  ELSE 0
  <1>1. size[head] \in Nat /\ head \in 0..Pushes /\ PageSize \in Nat
    BY ClientAssumption DEF TypeOK
  <1>2. p * PageSize \in Nat /\ (p - 1) * PageSize \in Nat
    BY <1>1
  <1>3. n \in Nat
    BY <1>1, <1>2
  <1>4. \A i \in 1..n : File(head, (p - 1) * PageSize + i) \in [version : 0..Pushes, index : Nat]
    BY <1>1, <1>2, <1>3 DEF File
  <1>5. Batch(p) = [i \in 1..n |-> File(head, (p - 1) * PageSize + i)]
    BY DEF Batch
  <1> HIDE DEF n
  <1> QED
    BY <1>3, <1>4, <1>5

\* Whatever fails, only the failing client moves, to a request or to its end, and
\* it counts its attempts within the policy.
LEMMA RetryMoves ==
    ASSUME NEW c \in Clients, NEW exc, TypeOK, at[c] \in Requests, with_retry(c, exc)
    PROVE  /\ at' \in [Clients -> Requests \cup {"posted", "failed"}]
           /\ attempt' \in [Clients -> 1..Attempts]
           /\ \A d \in Clients \ {c} : at'[d] = at[d]
  <1>1. /\ at \in [Clients -> Requests \cup {"posted", "failed"}]
        /\ attempt \in [Clients -> 1..Attempts] /\ Attempts \in Nat \ {0}
    BY ClientAssumption DEF TypeOK
  <1>2. ASSUME NEW where \in Requests \cup {"failed"}, Proceed(c, where)
        PROVE  /\ at' \in [Clients -> Requests \cup {"posted", "failed"}]
               /\ attempt' \in [Clients -> 1..Attempts]
               /\ \A d \in Clients \ {c} : at'[d] = at[d]
    BY <1>1, <1>2 DEF Proceed
  <1>3. CASE attempt' = [attempt EXCEPT ![c] = @ + 1] /\ UNCHANGED at /\ attempt[c] # Attempts
    BY <1>1, <1>3
  <1> QED
    BY <1>2, <1>3 DEF with_retry, Requests

\* GitHub's reviews are of clients.
LEMMA ReviewsTyped ==
    ASSUME TypeOK
    PROVE  /\ reviews \in Seq([by : Clients, commit : 0..Pushes, says : {"inline", "appendix", "body"}])
           /\ \A i \in DOMAIN reviews : reviews[i].by \in Clients
  <1> DEFINE Kept == [by : Clients, commit : 0..Pushes, says : {"inline", "appendix", "body"}]
  <1>1. reviews \in Seq(Kept)
    BY DEF TypeOK
  <1>2. \A r \in Kept : r.by \in Clients
    OBVIOUS
  <1>3. \A i \in DOMAIN reviews : reviews[i] \in Kept
    <2> HIDE DEF Kept
    <2> QED BY <1>1
  <1> QED
    BY <1>1, <1>2, <1>3

\* A lost answer ends the client: give_up_on comes before retry_on.
LEMMA LostEnds ==
    ASSUME NEW c \in Clients, with_retry(c, "retryable")
    PROVE  at' = [at EXCEPT ![c] = "failed"]
  BY DEF with_retry, GivesUpOn, Proceed

LEMMA OnceInit == Init => OnceInv
  BY ClientAssumption DEF Init, OnceInv, TypeOK, SpokenIsOver, PostsOnce, Of, Requests

\* An action that leaves reviews alone keeps the invariant if it lets no client
\* that has ended go on.
LEMMA Quiet ==
    ASSUME OnceInv, UNCHANGED reviews, TypeOK',
           NEW c \in Clients, at[c] \in Requests, \A d \in Clients \ {c} : at'[d] = at[d]
    PROVE  OnceInv'
  <1>1. SpokenIsOver'
    <2> SUFFICES ASSUME NEW i \in DOMAIN reviews PROVE at'[reviews[i].by] \in {"posted", "failed"}
      BY DEF SpokenIsOver
    <2>1. reviews[i].by \in Clients
      BY ReviewsTyped DEF OnceInv
    <2>2. reviews[i].by # c
      BY DEF OnceInv, SpokenIsOver, Requests
    <2> QED
      BY <2>1, <2>2 DEF OnceInv, SpokenIsOver
  <1>2. PostsOnce'
    BY DEF OnceInv, PostsOnce, Of
  <1> QED
    BY <1>1, <1>2 DEF OnceInv

LEMMA OnceNext == OnceInv /\ [Next]_vars => OnceInv'
  <1> SUFFICES ASSUME OnceInv, [Next]_vars PROVE OnceInv'
    OBVIOUS
  <1> USE DEF OnceInv
  <1>1. CASE Push
    <2>1. TypeOK'
      <3>1. head' \in 0..Pushes
        BY <1>1, ClientAssumption DEF Push, TypeOK
      <3>2. still' \in [Clients -> BOOLEAN]
        BY <1>1 DEF Push
      <3> QED
        BY <1>1, <3>1, <3>2 DEF Push, TypeOK
    <2>2. SpokenIsOver' /\ PostsOnce'
      BY <1>1 DEF Push, SpokenIsOver, PostsOnce, Of
    <2> QED
      BY <2>1, <2>2
  <1>2. ASSUME NEW c \in Clients, get_pull_request(c) PROVE OnceInv'
    <2>1. TypeOK'
      <3>1. /\ at' \in [Clients -> Requests \cup {"posted", "failed"}]
            /\ attempt' \in [Clients -> 1..Attempts]
        BY <1>2, ClientAssumption DEF get_pull_request, TypeOK, Proceed, Requests
      <3>2. ctx' \in [Clients -> [head_sha : 0..Pushes, files : Seq([version : 0..Pushes, index : Nat])]]
        BY <1>2 DEF get_pull_request, TypeOK
      <3>3. still' \in [Clients -> BOOLEAN]
        BY <1>2 DEF get_pull_request, TypeOK
      <3> QED
        BY <1>2, <3>1, <3>2, <3>3 DEF get_pull_request, TypeOK, github
    <2>2. at[c] \in Requests /\ UNCHANGED reviews /\ \A d \in Clients \ {c} : at'[d] = at[d]
      BY <1>2 DEF get_pull_request, Proceed, TypeOK, Requests, github
    <2> QED
      BY <2>1, <2>2, Quiet
  <1>3. ASSUME NEW c \in Clients, list_files(c) PROVE OnceInv'
    <2> DEFINE batch == Batch(page[c])
               files == ctx[c].files \o batch
               Files == [version : 0..Pushes, index : Nat]
               FileSeq == Seq(Files)
               cut == SubSeq(files, 1, IF Len(files) > MaxFiles THEN MaxFiles ELSE Len(files))
    <2>1. batch \in FileSeq
      BY BatchType DEF TypeOK
    <2>2. files \in FileSeq
      <3>1. ctx[c].files \in FileSeq
        BY DEF TypeOK
      <3> QED
        BY <2>1, <3>1
    <2>3. cut \in FileSeq
      <3> HIDE DEF Files, files
      <3>1. files \in Seq(Files) /\ Len(files) \in Nat /\ MaxFiles \in Nat
        BY <2>2, ClientAssumption, LenProperties
      <3> DEFINE m == IF Len(files) > MaxFiles THEN MaxFiles ELSE Len(files)
      <3>2. m \in 0..Len(files)
        BY <3>1
      <3> HIDE DEF m
      <3>3. \A i \in 1..m : files[i] \in Files
        <4> TAKE i \in 1..m
        <4>1. i \in 1..Len(files)
          BY <3>1, <3>2
        <4> QED
          BY <3>1, <4>1
      <3>4. m \in Int /\ 1 \in Int
        BY <3>1, <3>2
      <3>5. SubSeq(files, 1, m) \in Seq(Files)
        BY <3>3, <3>4, SubSeqProperties
      <3> QED
        BY <3>5 DEF m
    <2>4. PICK fs \in FileSeq, where \in {"files", "review"} :
             /\ ctx' = [ctx EXCEPT ![c].files = fs] /\ Proceed(c, where)
             /\ page' \in [Clients -> Nat \ {0}]
      <3>0. page \in [Clients -> Nat \ {0}]
        BY DEF TypeOK
      <3>1. CASE LastPage(batch, Len(files))
        <4>1. ctx' = [ctx EXCEPT ![c].files = cut] /\ Proceed(c, "review") /\ UNCHANGED page
          BY <1>3, <3>1 DEF list_files
        <4> HIDE DEF FileSeq, cut
        <4> QED
          BY <2>3, <3>0, <4>1
      <3>2. CASE ~LastPage(batch, Len(files))
        <4>1. ctx' = [ctx EXCEPT ![c].files = files]
              /\ Proceed(c, "files") /\ page' = [page EXCEPT ![c] = @ + 1]
          BY <1>3, <3>2 DEF list_files
        <4>2. page' \in [Clients -> Nat \ {0}]
          BY <3>0, <4>1
        <4> HIDE DEF FileSeq, files
        <4> QED
          BY <2>2, <4>1, <4>2
      <3> QED
        BY <3>1, <3>2
    <2>5. ctx' \in [Clients -> [head_sha : 0..Pushes, files : FileSeq]]
      <3> HIDE DEF FileSeq
      <3>1. ctx \in [Clients -> [head_sha : 0..Pushes, files : FileSeq]]
        BY DEF TypeOK, FileSeq
      <3> QED
        BY <2>4, <3>1
    <2>6. TypeOK'
      <3>1. /\ at' \in [Clients -> Requests \cup {"posted", "failed"}]
            /\ attempt' \in [Clients -> 1..Attempts]
        BY <2>4, ClientAssumption DEF TypeOK, Proceed, Requests
      <3> QED
        BY <1>3, <2>4, <2>5, <3>1 DEF list_files, TypeOK, github
    <2>7. at[c] \in Requests /\ UNCHANGED reviews /\ \A d \in Clients \ {c} : at'[d] = at[d]
      BY <1>3, <2>4 DEF list_files, Proceed, TypeOK, Requests, github
    <2> QED
      BY <2>6, <2>7, Quiet
  <1>4. ASSUME NEW c \in Clients, NEW exc \in Exceptions, Fails(c, exc) PROVE OnceInv'
    <2>1. at[c] \in Requests /\ with_retry(c, exc) /\ UNCHANGED <<github, ctx, page, payload, still>>
      BY <1>4 DEF Fails
    <2>2. TypeOK'
      BY <2>1, RetryMoves DEF TypeOK, github
    <2> QED
      BY <2>1, <2>2, Quiet, RetryMoves DEF github
  <1>5. ASSUME NEW c \in Clients, NEW heard \in BOOLEAN, post_review(c, heard) PROVE OnceInv'
    <2>1. PICK where \in {"posted", "failed"} : at' = [at EXCEPT ![c] = where]
      BY <1>5, LostEnds DEF post_review, Proceed
    <2>2. PICK says \in {"inline", "appendix", "body"} :
             reviews' = Append(reviews, [by |-> c, commit |-> ctx[c].head_sha, says |-> says])
      BY <1>5 DEF post_review, Review
    <2>3. TypeOK'
      <3>1. attempt' \in [Clients -> 1..Attempts]
        <4>1. CASE heard
          <5>1. attempt' = [attempt EXCEPT ![c] = 1]
            BY <1>5, <4>1 DEF post_review, Proceed
          <5>2. attempt \in [Clients -> 1..Attempts] /\ 1 \in 1..Attempts
            BY ClientAssumption DEF TypeOK
          <5> QED
            BY <5>1, <5>2
        <4>2. CASE ~heard
          BY <1>5, <4>2, RetryMoves DEF post_review, Requests
        <4> QED
          BY <4>1, <4>2
      <3>2. reviews' \in Seq([by : Clients, commit : 0..Pushes, says : {"inline", "appendix", "body"}])
        BY <2>2 DEF TypeOK
      <3> QED
        BY <1>5, <2>1, <3>1, <3>2 DEF post_review, TypeOK
    <2>4. /\ DOMAIN reviews = 1..Len(reviews) /\ Len(reviews) \in Nat
          /\ DOMAIN reviews' = 1..(Len(reviews) + 1)
          /\ \A i \in DOMAIN reviews : reviews'[i] = reviews[i] /\ reviews[i].by \in Clients
          /\ reviews'[Len(reviews) + 1].by = c
      <3>1. /\ reviews \in Seq([by : Clients, commit : 0..Pushes, says : {"inline", "appendix", "body"}])
            /\ \A i \in DOMAIN reviews : reviews[i].by \in Clients
        BY ReviewsTyped
      <3> QED
        BY <2>2, <3>1
    <2>5. \A i \in DOMAIN reviews : reviews[i].by # c
      BY <1>5 DEF post_review, SpokenIsOver
    <2>6. SpokenIsOver'
      <3>1. \A d \in Clients : at'[d] = IF d = c THEN where ELSE at[d]
        BY <2>1 DEF TypeOK
      <3>2. \A i \in DOMAIN reviews : at'[reviews'[i].by] \in {"posted", "failed"}
        BY <2>4, <2>5, <3>1 DEF SpokenIsOver
      <3>3. at'[reviews'[Len(reviews) + 1].by] \in {"posted", "failed"}
        BY <2>4, <3>1
      <3>4. \A i \in DOMAIN reviews' : i \in DOMAIN reviews \/ i = Len(reviews) + 1
        BY <2>4
      <3> QED
        BY <3>2, <3>3, <3>4 DEF SpokenIsOver
    <2>7. PostsOnce'
      BY <2>4, <2>5 DEF PostsOnce, Of
    <2> QED
      BY <2>3, <2>6, <2>7
  <1>6. CASE UNCHANGED vars
    BY <1>6 DEF vars, github, TypeOK, SpokenIsOver, PostsOnce, Of
  <1> QED
    BY <1>1, <1>2, <1>3, <1>4, <1>5, <1>6 DEF Next, Step

\* A post is made at most once: for any number of clients, of attempts the policy
\* allows and of lost answers, post_review leaves at most one review behind.
THEOREM AtMostOneReview == Spec => [](TypeOK /\ PostsOnce)
  <1>1. OnceInv => TypeOK /\ PostsOnce
    BY DEF OnceInv
  <1> QED
    BY OnceInit, OnceNext, <1>1, PTL DEF Spec

-----------------------------------------------------------------------------
(* What was posted *)

\* Every step is one client's, which had not ended, or a push: what the others
\* have stays, GitHub forgets no review, and an ended client keeps its context.
LEMMA OthersStay ==
    ASSUME TypeOK, NEW c \in Clients, Step(c)
    PROVE  /\ at[c] \in Requests /\ UNCHANGED <<head, size, payload>>
           /\ \A d \in Clients \ {c} :
                 /\ at'[d] = at[d] /\ ctx'[d] = ctx[d]
                 /\ page'[d] = page[d] /\ still'[d] = still[d]
  <1>1. CASE get_pull_request(c)
    BY <1>1 DEF get_pull_request, Proceed, TypeOK, Requests, github
  <1>2. CASE list_files(c)
    BY <1>2 DEF list_files, Proceed, TypeOK, Requests, github
  <1>3. ASSUME NEW heard \in BOOLEAN, post_review(c, heard)
        PROVE  /\ at[c] \in Requests /\ UNCHANGED <<head, size, payload, ctx, page, still>>
               /\ \A d \in Clients \ {c} : at'[d] = at[d]
    BY <1>3, LostEnds DEF post_review, Proceed, TypeOK, Requests
  <1>4. ASSUME NEW exc \in Exceptions, Fails(c, exc)
        PROVE  /\ at[c] \in Requests /\ UNCHANGED <<head, size, payload, ctx, page, still>>
               /\ \A d \in Clients \ {c} : at'[d] = at[d]
    BY <1>4, RetryMoves DEF Fails, github
  <1> QED
    BY <1>1, <1>2, <1>3, <1>4 DEF Step

\* GitHub only adds reviews.
LEMMA ReviewsGrow ==
    ASSUME TypeOK, [Next]_vars
    PROVE  \A i \in DOMAIN reviews : i \in DOMAIN reviews' /\ reviews'[i] = reviews[i]
  <1>1. ASSUME NEW c \in Clients, NEW heard \in BOOLEAN, post_review(c, heard)
        PROVE  \A i \in DOMAIN reviews : i \in DOMAIN reviews' /\ reviews'[i] = reviews[i]
    <2> DEFINE Kept == [by : Clients, commit : 0..Pushes, says : {"inline", "appendix", "body"}]
    <2>1. reviews \in Seq(Kept)
      BY DEF TypeOK
    <2>2. PICK r : reviews' = Append(reviews, r)
      BY <1>1 DEF post_review
    <2> HIDE DEF Kept
    <2> QED
      BY <2>1, <2>2
  <1>2. ASSUME NEW c \in Clients, ~(\E heard \in BOOLEAN : post_review(c, heard)), Step(c)
        PROVE  UNCHANGED reviews
    BY <1>2 DEF Step, get_pull_request, list_files, Fails, github
  <1> QED
    BY <1>1, <1>2 DEF Next, Push, vars, github, Step

\* A client that posts, and hears of it, leaves the review behind that it should.
LEMMA PostSays ==
    ASSUME TypeOK, NEW c \in Clients, NEW heard \in BOOLEAN, post_review(c, heard)
    PROVE  \E i \in DOMAIN reviews' :
              /\ reviews'[i].by = c /\ reviews'[i].commit = ctx'[c].head_sha
              /\ payload'[c].comments => reviews'[i].says \in {"inline", "appendix"}
  <1> DEFINE Kept == [by : Clients, commit : 0..Pushes, says : {"inline", "appendix", "body"}]
             r == Review(c, at[c])
  <1>1. reviews \in Seq(Kept)
    BY DEF TypeOK
  <1>2. reviews' = Append(reviews, r) /\ UNCHANGED <<ctx, payload>>
    BY DEF post_review
  <1>3. /\ r.by = c /\ r.commit = ctx[c].head_sha
        /\ payload[c].comments => r.says \in {"inline", "appendix"}
    BY DEF Review
  <1> HIDE DEF Kept, r
  <1>4. Len(reviews) + 1 \in DOMAIN reviews' /\ reviews'[Len(reviews) + 1] = r
    BY <1>1, <1>2
  <1> QED
    BY <1>2, <1>3, <1>4

LEMMA PostedNext == TypeOK /\ PostedSaysAll /\ [Next]_vars => PostedSaysAll'
  <1> SUFFICES ASSUME TypeOK, PostedSaysAll, [Next]_vars, NEW d \in Clients, at'[d] = "posted"
               PROVE  \E i \in Of(d)' : /\ reviews'[i].commit = ctx'[d].head_sha
                                        /\ payload'[d].comments =>
                                              reviews'[i].says \in {"inline", "appendix"}
    BY DEF PostedSaysAll
  <1>1. ASSUME at[d] = "posted", ctx'[d] = ctx[d], payload'[d] = payload[d]
        PROVE  \E i \in Of(d)' : /\ reviews'[i].commit = ctx'[d].head_sha
                                 /\ payload'[d].comments =>
                                       reviews'[i].says \in {"inline", "appendix"}
    <2>1. PICK i \in Of(d) : /\ reviews[i].commit = ctx[d].head_sha
                             /\ payload[d].comments => reviews[i].says \in {"inline", "appendix"}
      BY <1>1 DEF PostedSaysAll
    <2>2. i \in DOMAIN reviews' /\ reviews'[i] = reviews[i] /\ reviews[i].by = d
      BY <2>1, ReviewsGrow DEF Of
    <2> QED
      BY <1>1, <2>1, <2>2 DEF Of
  <1>2. ASSUME NEW c \in Clients, Step(c), c # d
        PROVE  at[d] = "posted" /\ ctx'[d] = ctx[d] /\ payload'[d] = payload[d]
    BY <1>2, OthersStay
  <1>3. ASSUME Step(d)
        PROVE  \E heard \in BOOLEAN : post_review(d, heard)
    <2>1. ~get_pull_request(d) /\ ~list_files(d)
      BY DEF get_pull_request, list_files, Proceed, TypeOK
    <2>2. ASSUME NEW exc \in Exceptions, Fails(d, exc) PROVE FALSE
      BY <2>2 DEF Fails, with_retry, Proceed, TypeOK, Requests
    <2> QED
      BY <1>3, <2>1, <2>2 DEF Step
  <1>4. CASE UNCHANGED vars \/ Push
    BY <1>1, <1>4 DEF vars, github, Push
  <1> QED
    BY <1>1, <1>2, <1>3, <1>4, PostSays DEF Next, Of

\* What post_review returned from is true: GitHub has the client's review, of the
\* commit that was read, and the findings are in it even when the inline comments
\* were refused with 422 and the summary was posted instead.
THEOREM ReturnedIsPosted == Spec => []PostedSaysAll
  <1>1. Init => PostedSaysAll
    BY DEF Init, PostedSaysAll
  <1>2. OnceInv => TypeOK
    BY DEF OnceInv
  <1> QED
    BY <1>1, <1>2, OnceInit, OnceNext, PostedNext, PTL DEF Spec

-----------------------------------------------------------------------------
(* What was listed *)

\* fs are the first n files of version v, in their order.
Lists(fs, v, n) == Len(fs) = n /\ \A i \in 1..n : fs[i] = File(v, i)

\* How many files a context is to hold.
Wanted(v) == IF size[v] > MaxFiles THEN MaxFiles ELSE size[v]

\* What the pages before the current one hold.
Before(c) == (page[c] - 1) * PageSize

\* Where a client stands: before the listing it has nothing; during it, and if
\* nobody pushed since it read the head, it has the files of the pages before, which
\* exist and are not enough; after it, it has what it wants.
Listing(c) ==
    /\ at[c] = "pull" => page[c] = 1 /\ ctx[c].files = <<>>
    /\ at[c] = "files" /\ still[c] =>
          /\ ctx[c].head_sha = head
          /\ Lists(ctx[c].files, head, Before(c))
          /\ Before(c) <= size[head] /\ Before(c) < MaxFiles
    /\ at[c] \in {"review", "summary", "posted"} /\ still[c] =>
          Lists(ctx[c].files, ctx[c].head_sha, Wanted(ctx[c].head_sha))

\* A page continues the listing where the last one ended, and a page that is not
\* full reaches the last file.
LEMMA PageContinues ==
    ASSUME TypeOK, NEW p \in Nat \ {0}, NEW n \in Nat, n = (p - 1) * PageSize, n <= size[head]
    PROVE  /\ Len(Batch(p)) \in Nat
           /\ \A i \in 1..Len(Batch(p)) : Batch(p)[i] = File(head, n + i)
           /\ \/ Len(Batch(p)) = PageSize /\ n + PageSize <= size[head]
              \/ Len(Batch(p)) < PageSize /\ n + Len(Batch(p)) = size[head]
  <1> DEFINE m == IF size[head] >= p * PageSize THEN PageSize
                  ELSE IF size[head] > (p - 1) * PageSize THEN size[head] - (p - 1) * PageSize
                  ELSE 0
  <1>1. size[head] \in Nat /\ PageSize \in Nat \ {0}
    BY ClientAssumption DEF TypeOK
  <1>2. p * PageSize = n + PageSize
    <2>1. \A k \in Nat : (k + 1) * PageSize = k * PageSize + PageSize
      BY <1>1
    <2>2. p - 1 \in Nat /\ (p - 1) + 1 = p
      OBVIOUS
    <2> QED
      BY <2>1, <2>2
  <1>3. m \in Nat
    BY <1>1, <1>2
  <1>4. \/ m = PageSize /\ n + PageSize <= size[head]
        \/ m < PageSize /\ n + m = size[head]
    BY <1>1, <1>2
  <1>5. Batch(p) = [i \in 1..m |-> File(head, n + i)]
    BY DEF Batch
  <1> HIDE DEF m
  <1>6. Len(Batch(p)) = m
    BY <1>3, <1>5
  <1> QED
    BY <1>3, <1>4, <1>5, <1>6

\* A listing and the files that come next are a longer listing.
LEMMA ListsConcat ==
    ASSUME NEW S, NEW fs \in Seq(S), NEW gs \in Seq(S), NEW v, NEW n \in Nat, Lists(fs, v, n),
           \A i \in 1..Len(gs) : gs[i] = File(v, n + i)
    PROVE  Lists(fs \o gs, v, n + Len(gs))
  <1>1. Len(gs) \in Nat /\ Len(fs) = n /\ Len(fs \o gs) = n + Len(gs)
    <2>1. Len(fs) = n
      BY DEF Lists
    <2>2. Len(gs) \in Nat
      OBVIOUS
    <2>3. Len(fs \o gs) = Len(fs) + Len(gs)
      OBVIOUS
    <2> QED BY <2>1, <2>2, <2>3
  <1>2. ASSUME NEW i \in 1..(n + Len(gs)) PROVE (fs \o gs)[i] = File(v, i)
    <2>1. CASE i <= n
      BY <1>1, <2>1 DEF Lists
    <2>2. CASE i > n
      <3>1. i - n \in 1..Len(gs) /\ (fs \o gs)[i] = gs[i - n]
        BY <1>1, <2>2
      <3>2. n + (i - n) = i
        BY <1>1
      <3> QED
        BY <3>1, <3>2
    <2> QED
      BY <1>1, <2>1, <2>2
  <1> QED
    BY <1>1, <1>2 DEF Lists

\* The beginning of a listing is one.
LEMMA ListsCut ==
    ASSUME NEW S, NEW fs \in Seq(S), NEW v, NEW n \in Nat, Lists(fs, v, n), NEW m \in 0..n
    PROVE  Lists(SubSeq(fs, 1, m), v, m)
  BY DEF Lists

\* The file lists of clients are sequences.
LEMMA FilesTyped ==
    ASSUME TypeOK, NEW c \in Clients
    PROVE  /\ ctx[c].files \in Seq([version : 0..Pushes, index : Nat])
           /\ page[c] \in Nat \ {0} /\ Before(c) \in Nat
           /\ PageSize \in Nat \ {0} /\ MaxFiles \in Nat
           /\ \A v \in 0..Pushes : size[v] \in Nat
           /\ head \in 0..Pushes /\ ctx[c].head_sha \in 0..Pushes
  <1>1. ctx[c] \in [head_sha : 0..Pushes, files : Seq([version : 0..Pushes, index : Nat])]
    BY DEF TypeOK
  <1>2. page[c] \in Nat \ {0} /\ PageSize \in Nat \ {0} /\ MaxFiles \in Nat
        /\ head \in 0..Pushes
    BY ClientAssumption DEF TypeOK
  <1>3. \A v \in 0..Pushes : size[v] \in Nat
    BY ClientAssumption DEF TypeOK
  <1>4. Before(c) \in Nat
    BY <1>2 DEF Before
  <1> QED
    BY <1>1, <1>2, <1>3, <1>4

\* A page of list_files, the last or not, keeps the client on its way.
LEMMA ListFilesKeeps ==
    ASSUME TypeOK, NEW c \in Clients, Listing(c), list_files(c)
    PROVE  Listing(c)'
  <1> DEFINE batch == Batch(page[c])
             files == ctx[c].files \o batch
             n == Before(c)
             Files == [version : 0..Pushes, index : Nat]
  <1>0. UNCHANGED <<head, size, still>>
    BY DEF list_files, github
  <1>1. CASE ~still[c]
    <2>1. at'[c] \in {"files", "review"} /\ still'[c] = FALSE
      BY <1>0, <1>1 DEF list_files, Proceed, TypeOK
    <2> QED
      BY <2>1 DEF Listing
  <1>2. CASE still[c]
    <2>1. /\ ctx[c].head_sha = head /\ Lists(ctx[c].files, head, n)
          /\ n <= size[head] /\ n < MaxFiles /\ at[c] = "files"
      BY <1>2 DEF Listing, list_files
    <2>2. /\ ctx[c].files \in Seq(Files) /\ page[c] \in Nat \ {0} /\ n \in Nat
          /\ PageSize \in Nat \ {0} /\ MaxFiles \in Nat /\ size[head] \in Nat
      BY FilesTyped
    <2>3. batch \in Seq(Files)
      BY <2>2, BatchType
    <2>4. n = (page[c] - 1) * PageSize
      BY DEF Before
    <2>5. /\ Len(batch) \in Nat
          /\ \A i \in 1..Len(batch) : batch[i] = File(head, n + i)
          /\ \/ Len(batch) = PageSize /\ n + PageSize <= size[head]
             \/ Len(batch) < PageSize /\ n + Len(batch) = size[head]
      BY <2>1, <2>2, <2>4, PageContinues
    <2>6. Lists(files, head, n + Len(batch)) /\ Len(files) = n + Len(batch) /\ files \in Seq(Files)
      <3> HIDE DEF batch, Files, n
      <3>1. Lists(files, head, n + Len(batch))
        BY <2>1, <2>2, <2>3, <2>5, ListsConcat
      <3> QED
        BY <2>2, <2>3, <3>1 DEF Lists
    <2>7. /\ ctx \in [Clients -> [head_sha : 0..Pushes, files : Seq(Files)]]
          /\ at \in [Clients -> Requests \cup {"posted", "failed"}]
          /\ page \in [Clients -> Nat \ {0}]
      BY DEF TypeOK
    <2>8. CASE LastPage(batch, Len(files))
      <3> DEFINE m == IF Len(files) > MaxFiles THEN MaxFiles ELSE Len(files)
                 cut == SubSeq(files, 1, m)
      <3>1. ctx' = [ctx EXCEPT ![c].files = cut] /\ Proceed(c, "review")
        BY <2>8 DEF list_files
      <3>2. m \in 0..(n + Len(batch)) /\ m = Wanted(head)
        <4> DEFINE k == Len(batch)
        <4>1. Len(files) = n + k /\ k \in Nat
          BY <2>5, <2>6
        <4>2. \/ k = PageSize /\ n + PageSize <= size[head] /\ n + k >= MaxFiles
              \/ k < PageSize /\ n + k = size[head]
          <5> HIDE DEF batch, files, n
          <5> QED
            BY <2>2, <2>5, <2>6, <2>8 DEF LastPage
        <4> HIDE DEF batch, files, n, k
        <4>3. m \in 0..(n + k)
          BY <2>2, <4>1
        <4>4. m = Wanted(head)
          BY <2>2, <4>1, <4>2 DEF Wanted
        <4> QED
          BY <4>3, <4>4 DEF k
      <3>3. Lists(cut, head, m)
        <4> HIDE DEF batch, files, n, m, Files
        <4> QED
          BY <2>2, <2>5, <2>6, <3>2, ListsCut
      <3> HIDE DEF cut, m, Files
      <3>4. ctx'[c].files = cut /\ ctx'[c].head_sha = head /\ at'[c] = "review"
        BY <2>1, <2>7, <3>1 DEF Proceed
      <3>5. Wanted(head)' = Wanted(head)
        BY <1>0 DEF Wanted
      <3> QED
        BY <1>0, <3>2, <3>3, <3>4, <3>5 DEF Listing, Wanted
    <2>9. CASE ~LastPage(batch, Len(files))
      <3>1. /\ ctx' = [ctx EXCEPT ![c].files = files] /\ Proceed(c, "files")
            /\ page' = [page EXCEPT ![c] = @ + 1]
        BY <2>9 DEF list_files
      <3>2. Len(batch) = PageSize /\ n + PageSize <= size[head] /\ n + PageSize < MaxFiles
        <4> HIDE DEF batch, files, n
        <4> QED
          BY <2>2, <2>5, <2>6, <2>9 DEF LastPage
      <3> HIDE DEF Files, files, batch
      <3>3. ctx'[c].files = files /\ ctx'[c].head_sha = head /\ at'[c] = "files"
            /\ page'[c] = page[c] + 1
        BY <2>1, <2>7, <3>1 DEF Proceed
      <3>4. Before(c)' = n + PageSize
        BY <2>2, <3>3 DEF Before
      <3> HIDE DEF n
      <3> QED
        BY <1>0, <2>6, <3>2, <3>3, <3>4 DEF Listing
    <2> QED
      BY <2>8, <2>9
  <1> QED
    BY <1>1, <1>2 DEF TypeOK

\* Every client is where Listing says.
ContextInv == \A c \in Clients : Listing(c)

LEMMA ContextInit == Init => ContextInv
  <1> SUFFICES ASSUME Init, NEW c \in Clients PROVE Listing(c)
    BY DEF ContextInv
  <1>1. at[c] = "pull" /\ page[c] = 1 /\ ctx[c] = [head_sha |-> 0, files |-> <<>>]
    BY DEF Init
  <1> QED
    BY <1>1 DEF Listing

LEMMA ContextNext == TypeOK /\ ContextInv /\ [Next]_vars => ContextInv'
  <1> SUFFICES ASSUME TypeOK, ContextInv, [Next]_vars, NEW d \in Clients PROVE Listing(d)'
    BY DEF ContextInv
  <1>0. Listing(d)
    BY DEF ContextInv
  <1>1. CASE Push
    BY <1>0, <1>1 DEF Push, Listing
  <1>2. ASSUME NEW c \in Clients, Step(c), c # d PROVE Listing(d)'
    <2>1. /\ at'[d] = at[d] /\ ctx'[d] = ctx[d] /\ page'[d] = page[d] /\ still'[d] = still[d]
          /\ head' = head /\ size' = size
      BY <1>2, OthersStay
    <2> QED
      BY <1>0, <2>1 DEF Listing, Lists, Before, Wanted
  <1>3. CASE get_pull_request(d)
    <2>1. /\ page[d] = 1 /\ ctx[d].files = <<>> /\ head \in 0..Pushes
          /\ size[head] \in Nat /\ MaxFiles \in Nat /\ PageSize \in Nat
      BY <1>0, <1>3, FilesTyped DEF Listing, get_pull_request
    <2>2. /\ ctx'[d].files = <<>> /\ ctx'[d].head_sha = head /\ still'[d]
          /\ at'[d] = IF MaxFiles > 0 THEN "files" ELSE "review"
          /\ page' = page /\ head' = head /\ size' = size
      BY <1>3, <2>1 DEF get_pull_request, Proceed, TypeOK, github
    <2>3. Before(d)' = 0
      BY <2>1, <2>2 DEF Before
    <2>4. \A v : Lists(<<>>, v, 0)
      BY DEF Lists
    <2>5. MaxFiles = 0 => Wanted(head)' = 0
      BY <2>1, <2>2 DEF Wanted
    <2> QED
      BY <2>1, <2>2, <2>3, <2>4, <2>5 DEF Listing, Wanted
  <1>4. CASE list_files(d)
    BY <1>0, <1>4, ListFilesKeeps
  <1>5. ASSUME NEW heard \in BOOLEAN, post_review(d, heard) PROVE Listing(d)'
    <2>1. at'[d] \in {"posted", "failed"}
      BY <1>5, LostEnds DEF post_review, Proceed, TypeOK
    <2>2. UNCHANGED <<head, size, ctx, page, still>> /\ at[d] \in {"review", "summary"}
      BY <1>5 DEF post_review
    <2> QED
      BY <1>0, <2>1, <2>2 DEF Listing, Wanted
  <1>6. ASSUME NEW exc \in Exceptions, Fails(d, exc) PROVE Listing(d)'
    <2>1. UNCHANGED <<head, size, ctx, page, still>> /\ with_retry(d, exc)
      BY <1>6 DEF Fails, github
    <2>2. PICK where : \/ at' = at
                       \/ /\ at' = [at EXCEPT ![d] = where]
                          /\ where = "failed" \/ (where = "summary" /\ at[d] = "review")
      BY <2>1 DEF with_retry, Proceed
    <2>3. \/ at'[d] \in {at[d], "failed"}
          \/ at[d] = "review" /\ at'[d] = "summary"
      BY <2>2 DEF TypeOK
    <2> QED
      BY <1>0, <2>1, <2>3 DEF Listing, Lists, Before, Wanted
  <1>7. CASE UNCHANGED vars
    BY <1>0, <1>7 DEF vars, github, Listing, Lists, Before, Wanted
  <1> QED
    BY <1>1, <1>2, <1>3, <1>4, <1>5, <1>6, <1>7 DEF Next, Step

\* A context is complete, for every page size, limit and number of files: the
\* pages overlap nowhere and leave nothing out, an exactly full last page costs one
\* more request and no file, and max_files cuts where it should.
THEOREM ContextsAreComplete == Spec => []ContextComplete
  <1>1. TypeOK /\ ContextInv => ContextComplete
    <2> SUFFICES ASSUME TypeOK, ContextInv, NEW c \in Clients,
                        at[c] \in {"review", "summary", "posted"}, still[c]
                 PROVE  /\ Len(ctx[c].files) = Wanted(ctx[c].head_sha)
                        /\ \A i \in DOMAIN ctx[c].files : ctx[c].files[i] = File(ctx[c].head_sha, i)
      BY DEF ContextComplete, Wanted
    <2>1. Lists(ctx[c].files, ctx[c].head_sha, Wanted(ctx[c].head_sha))
      BY DEF ContextInv, Listing
    <2>2. DOMAIN ctx[c].files = 1..Len(ctx[c].files)
      BY FilesTyped
    <2> QED
      BY <2>1, <2>2 DEF Lists
  <1>2. OnceInv => TypeOK
    BY DEF OnceInv
  <1> QED
    BY <1>1, <1>2, OnceInit, OnceNext, ContextInit, ContextNext, PTL DEF Spec

=============================================================================
