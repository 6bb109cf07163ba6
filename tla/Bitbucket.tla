------------------------------ MODULE Bitbucket -----------------------------
(***************************************************************************)
(* Bitbucket's Comments and the two calls of the CommentPoster seam        *)
(* (bitbucket/poster.zig): post and findExisting.  The server itself is    *)
(* external; what an answer means to the caller is postImpl's and          *)
(* findImpl's classification.  An answer pairs the reply the caller sees   *)
(* with the Comments the server holds afterwards, so a lost response is an *)
(* `ambiguous` reply whose Comment may exist.  A POST the caller has given *)
(* up on is not delivered later.                                           *)
(***************************************************************************)
EXTENDS Drafts, FiniteSets

CONSTANTS
    PostErrors,  \* how a POST may fail: ApiErrors, and Transport for a lost one
    CheckErrors  \* how reading the Comments may fail

ApiError == {"Unauthorized", "Forbidden", "RateLimited", "ServerError",
             "BadRequest", "NotFound", "Conflict", "UnexpectedStatus",
             "MalformedResponse"}
Transport == "Transport"
NoError == "none"

ASSUME ErrorsAssumption == PostErrors \cup CheckErrors \subseteq ApiError \cup {Transport}

\* A Comment: its author is this account; `by` is the Draft it was made from.
Comment == [by: TempId, body: Body, parent: CommentId \cup {NoComment},
            anchor: Anchor \cup {NoAnchor}]

Reply == [outcome: {"posted", "found", "missing", "rejected", "ambiguous"},
          id: CommentId \cup {NoComment}, err: ApiError \cup {NoError},
          after: Delay \cup {NoDelay}]

Published(c) == [outcome |-> "posted", id |-> c, err |-> NoError, after |-> NoDelay]
Found(c) == [outcome |-> "found", id |-> c, err |-> NoError, after |-> NoDelay]
Missing == [outcome |-> "missing", id |-> NoComment, err |-> NoError, after |-> NoDelay]
Ambiguous == [outcome |-> "ambiguous", id |-> NoComment, err |-> NoError, after |-> NoDelay]
Rejected(e, after) == [outcome |-> "rejected", id |-> NoComment, err |-> e, after |-> after]

\* The ApiErrors of E as replies; only 429 and 5xx carry a Retry-After.
Rejections(E) ==
    {Rejected(e, after) : e \in E \cap {"RateLimited", "ServerError"},
                          after \in Delay \cup {NoDelay}}
    \cup {Rejected(e, NoDelay) : e \in (E \cap ApiError) \ {"RateLimited", "ServerError"}}

\* The Comments after Draft d, of TempId t, is created under parent.
Created(comments, t, d, parent) ==
    {[x \in DOMAIN comments \cup {c} |->
        IF x = c THEN [by |-> t, body |-> d.body, parent |-> parent,
                       anchor |-> IF parent = NoComment THEN d.anchor ELSE NoAnchor]
        ELSE comments[x]]
     : c \in {n \in CommentId \ DOMAIN comments :
                \A k \in CommentId \ DOMAIN comments : n <= k}}

NewId(before, after) == CHOOSE c \in DOMAIN after : c \notin DOMAIN before

Answer(reply, comments) == [reply |-> reply, comments |-> comments]

\* postImpl: an id, a classified rejection of a request that had no effect, a
\* 2xx whose body cannot be parsed, or a transport failure.
post(comments, t, d, parent) ==
    LET created == Created(comments, t, d, parent)
    IN  {Answer(Published(NewId(comments, after)), after) : after \in created}
        \cup {Answer(r, comments) : r \in Rejections(PostErrors \ {"MalformedResponse"})}
        \cup {Answer(r, after) : r \in Rejections(PostErrors \cap {"MalformedResponse"}),
                                 after \in created}
        \cup {Answer(Ambiguous, after) : e \in PostErrors \cap {Transport},
                                         after \in created \cup {comments}}

\* findImpl: same body, and the same parent or, for a root, the same scope.
Matches(c, d, parent) ==
    /\ c.body = d.body
    /\ c.parent = parent
    /\ parent = NoComment => c.anchor = d.anchor

findExisting(comments, d, parent) ==
    LET hits == {c \in DOMAIN comments : Matches(comments[c], d, parent)}
    IN  (IF hits = {} THEN {Missing}
         ELSE {Found(c) : c \in {h \in hits : \A k \in hits : h <= k}})
        \cup Rejections(CheckErrors)
        \cup {Ambiguous : e \in CheckErrors \cap {Transport}}

\* The Comments that were made from Draft t.
CommentsBy(comments, t) == {c \in DOMAIN comments : comments[c].by = t}

=============================================================================
