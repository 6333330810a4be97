----------------------------- MODULE GitHubClient -----------------------------
(***************************************************************************)
(* The GitHub client (forge/github.py) over with_retry (reliability/       *)
(* retry.py): build_context, which reads a pull request and then its files *)
(* page by page, and post_review with its fallback to a summary.           *)
(*                                                                         *)
(* A request may be lost on the way there or its answer on the way back;   *)
(* the pull request may be pushed to between any two requests.  The        *)
(* breaker around a request is CircuitBreaker; here it is open or not.     *)
(* GitHub itself is external.                                              *)
(***************************************************************************)
EXTENDS Naturals, Sequences

CONSTANTS Clients,   \* jobs that talk to GitHub about the pull request
          Sizes,     \* how many files a version of the pull request may have
          PageSize,  \* per_page
          MaxFiles,  \* max_files
          Attempts,  \* RetryPolicy.attempts
          Pushes     \* bound: pushes to the pull request

ASSUME ClientAssumption ==
    /\ PageSize \in Nat \ {0} /\ MaxFiles \in Nat /\ Attempts \in Nat \ {0}
    /\ Sizes \subseteq Nat /\ Pushes \in Nat

VARIABLES
    head,     \* GitHub: how often the pull request was pushed to
    size,     \* GitHub: the number of its files at each version
    reviews,  \* GitHub: the reviews it has taken, in order
    at,       \* at[c]: the request the client awaits, or how it ended
    attempt,  \* attempt[c]: of the loop in with_retry, from 1
    ctx,      \* ctx[c]: the PullRequestContext, its head_sha and files
    page,     \* page[c]: the page list_files is at
    payload,  \* payload[c]: what the findings are, and whether GitHub would take them inline
    still     \* history: nobody pushed since get_pull_request answered

github == <<head, size, reviews>>
vars   == <<github, at, attempt, ctx, page, payload, still>>

\* A file of a version of the pull request.
File(v, i) == [version |-> v, index |-> i]

\* The exceptions a request may end in: RetryableGitHubError, GitHubError with
\* status 422, GitHubError otherwise, CircuitOpen.
Exceptions == {"retryable", "invalid", "refused", "circuit_open"}

\* The four requests.
Requests == {"pull", "files", "review", "summary"}

Init ==
    /\ head = 0
    /\ size \in [0..Pushes -> Sizes]
    /\ reviews = <<>>
    /\ at = [c \in Clients |-> "pull"]
    /\ attempt = [c \in Clients |-> 1]
    /\ ctx = [c \in Clients |-> [head_sha |-> 0, files |-> <<>>]]
    /\ page = [c \in Clients |-> 1]
    /\ payload \in [Clients -> [comments : BOOLEAN, lands : BOOLEAN]]
    /\ still = [c \in Clients |-> TRUE]

-----------------------------------------------------------------------------
(* One request *)

\* The client has its answer and goes on to another request, or ends.
Proceed(c, where) ==
    /\ at' = [at EXCEPT ![c] = where]
    /\ attempt' = [attempt EXCEPT ![c] = 1]

\* Mutant: an exception that may be retried is.
GivesUpOnOthers(exc) == exc \in {"invalid", "refused"}

\* give_up_on = (GitHubError,), of which RetryableGitHubError is a subclass.
GivesUpOn(exc) == exc \in {"retryable", "invalid", "refused"}

\* retry_on = (RetryableGitHubError,)
RetriesOn(exc) == exc = "retryable"

\* with_retry: what a failed attempt leads to.
with_retry(c, exc) ==
    IF GivesUpOn(exc) \/ ~RetriesOn(exc) \/ attempt[c] = Attempts
    THEN Proceed(c, IF exc = "invalid" /\ at[c] = "review" /\ payload[c].comments
                    THEN "summary" ELSE "failed")
    ELSE attempt' = [attempt EXCEPT ![c] = @ + 1] /\ UNCHANGED at

\* A request that changes nothing at GitHub fails.  Only a review with comments
\* is answered with 422, and only if GitHub does not take them.
Fails(c, exc) ==
    /\ at[c] \in Requests
    /\ exc = "invalid" => at[c] = "review" /\ payload[c].comments /\ ~payload[c].lands
    /\ with_retry(c, exc)
    /\ UNCHANGED <<github, ctx, page, payload, still>>

-----------------------------------------------------------------------------
(* build_context *)

get_pull_request(c) ==
    /\ at[c] = "pull"
    /\ ctx' = [ctx EXCEPT ![c].head_sha = head]
    /\ Proceed(c, IF MaxFiles > 0 THEN "files" ELSE "review")
    /\ still' = [still EXCEPT ![c] = TRUE]
    /\ UNCHANGED <<github, page, payload>>

\* GitHub's answer to a page: the files of the version it has now.
Batch(p) ==
    [i \in 1..(IF size[head] >= p * PageSize THEN PageSize
               ELSE IF size[head] > (p - 1) * PageSize THEN size[head] - (p - 1) * PageSize
               ELSE 0) |-> File(head, (p - 1) * PageSize + i)]

\* Mutant: a full page is taken for the last.
LastPageEarly(batch, listed) == Len(batch) <= PageSize

\* list_files stops at an empty or short page, or when it has enough.
LastPage(batch, listed) == Len(batch) < PageSize \/ listed >= MaxFiles

\* Mutant: an empty page sends the listing back to its start.
list_filesStartsOver(c) ==
    /\ at[c] = "files"
    /\ LET batch == Batch(page[c])
       IN IF batch = <<>>
          THEN /\ ctx' = [ctx EXCEPT ![c].files = <<>>]
               /\ page' = [page EXCEPT ![c] = 1]
               /\ UNCHANGED <<at, attempt>>
          ELSE /\ ctx' = [ctx EXCEPT ![c].files = @ \o batch]
               /\ Proceed(c, IF LastPage(batch, Len(ctx'[c].files)) THEN "review" ELSE "files")
               /\ page' = [page EXCEPT ![c] = @ + 1]
    /\ UNCHANGED <<github, payload, still>>

\* One page of list_files.
list_files(c) ==
    /\ at[c] = "files"
    /\ LET batch == Batch(page[c])
           files == ctx[c].files \o batch
       IN IF LastPage(batch, Len(files))
          THEN /\ ctx' = [ctx EXCEPT ![c].files =
                            SubSeq(files, 1, IF Len(files) > MaxFiles THEN MaxFiles ELSE Len(files))]
               /\ Proceed(c, "review")
               /\ UNCHANGED page
          ELSE /\ ctx' = [ctx EXCEPT ![c].files = files]
               /\ Proceed(c, "files")
               /\ page' = [page EXCEPT ![c] = @ + 1]
    /\ UNCHANGED <<github, payload, still>>

-----------------------------------------------------------------------------
(* post_review *)

\* Mutant: the summary is posted as it is.
ReviewBare(c, request) ==
    [by |-> c, commit |-> ctx[c].head_sha,
     says |-> IF request = "review" /\ payload[c].comments THEN "inline" ELSE "body"]

\* The review as GitHub keeps it: where its findings are.
Review(c, request) ==
    [by |-> c, commit |-> ctx[c].head_sha,
     says |-> IF request = "summary" THEN "appendix"
              ELSE IF payload[c].comments THEN "inline" ELSE "body"]

\* GitHub takes the review; the answer arrives or is lost.
post_review(c, heard) ==
    /\ at[c] \in {"review", "summary"}
    /\ at[c] = "review" /\ payload[c].comments => payload[c].lands
    /\ reviews' = Append(reviews, Review(c, at[c]))
    /\ IF heard THEN Proceed(c, "posted") ELSE with_retry(c, "retryable")
    /\ UNCHANGED <<head, size, ctx, page, payload, still>>

\* Somebody pushes to the pull request.
Push ==
    /\ head < Pushes
    /\ head' = head + 1
    /\ still' = [c \in Clients |-> FALSE]
    /\ UNCHANGED <<size, reviews, at, attempt, ctx, page, payload>>

Step(c) ==
    \/ get_pull_request(c) \/ list_files(c)
    \/ \E heard \in BOOLEAN : post_review(c, heard)
    \/ \E exc \in Exceptions : Fails(c, exc)

Next == Push \/ \E c \in Clients : Step(c)

\* A request ends, in an answer or, after httpx's timeout, in an exception.
Spec == Init /\ [][Next]_vars /\ \A c \in Clients : WF_vars(Step(c))

-----------------------------------------------------------------------------
(* Properties *)

\* The type of every variable.
TypeOK ==
    /\ head \in 0..Pushes
    /\ size \in [0..Pushes -> Sizes]
    /\ reviews \in Seq([by : Clients, commit : 0..Pushes, says : {"inline", "appendix", "body"}])
    /\ at \in [Clients -> Requests \cup {"posted", "failed"}]
    /\ attempt \in [Clients -> 1..Attempts]
    /\ ctx \in [Clients -> [head_sha : 0..Pushes, files : Seq([version : 0..Pushes, index : Nat])]]
    /\ page \in [Clients -> Nat \ {0}]
    /\ payload \in [Clients -> [comments : BOOLEAN, lands : BOOLEAN]]
    /\ still \in [Clients -> BOOLEAN]

\* The reviews GitHub has of a client.
Of(c) == {i \in DOMAIN reviews : reviews[i].by = c}

\* post_review leaves at most one review on the pull request, whatever gets lost:
\* a POST is not idempotent, and it is never sent again after an answer that may
\* only have been lost.
PostsOnce == \A c \in Clients : \A i, j \in Of(c) : i = j

\* When post_review returns, GitHub has the review, for the commit that was read,
\* and what was found is in it, inline or in the appendix of the fallback.
PostedSaysAll ==
    \A c \in Clients : at[c] = "posted" =>
        \E i \in Of(c) : /\ reviews[i].commit = ctx[c].head_sha
                         /\ payload[c].comments => reviews[i].says \in {"inline", "appendix"}

\* A context is complete: if nobody pushed meanwhile, it holds the files of its
\* head in their order, none missing and none twice, up to max_files; at a page
\* that is exactly full as well.
ContextComplete ==
    \A c \in Clients : at[c] \in {"review", "summary", "posted"} /\ still[c] =>
        /\ Len(ctx[c].files) = IF size[ctx[c].head_sha] > MaxFiles THEN MaxFiles
                               ELSE size[ctx[c].head_sha]
        /\ \A i \in DOMAIN ctx[c].files : ctx[c].files[i] = File(ctx[c].head_sha, i)

\* Every client gets to an end: the listing stops, whatever is pushed meanwhile.
ClientsEnd == \A c \in Clients : <>(at[c] \in {"posted", "failed"})

=============================================================================
