-------------------------------- MODULE Pages --------------------------------
(***************************************************************************)
(* Reading page by page, in a loop like consumePaginatedApi of             *)
(* worker/internal/providers/notification_service.go, while requests       *)
(* change what is read: the queries with a next token of the registries    *)
(* on PostgreSQL and on DynamoDB. A row is an owner and an item: a list    *)
(* and a recipient, a notification and the status of a recipient, a user   *)
(* and a notification; the listings of everything have one owner. Owners   *)
(* and items are numbers in the order the query returns them in.           *)
(***************************************************************************)
EXTENDS Naturals, FiniteSets

CONSTANTS
    Owners,      \* lists, notifications or users
    Items,       \* their items
    Wanted,      \* the items that pass the filter of a request
    Limit,       \* maxResults, the size of a page
    MaxWrites    \* bound on the changes of the rows during a walk

ASSUME PagesAssumption ==
    /\ Owners \subseteq Nat /\ Owners # {}
    /\ Items \subseteq Nat /\ Wanted \subseteq Items
    /\ Limit \in Nat \ {0}
    /\ MaxWrites \in Nat

----------------------------------------------------------------------------
(* The queries: check, what is looked at before a page ("rows": whether    *)
(* the owner has rows, "list": whether there is such a list); owned,       *)
(* whether a page behind a token has the rows of the owner only; filters,  *)
(* whether the request can filter; scans, whether the limit counts the     *)
(* rows that are looked at, not those that pass the filter; ties, whether  *)
(* the order leaves that of some rows open; retakes, whether the query     *)
(* takes the token it gave                                                 *)

Plain ==
    [check |-> "none", owned |-> TRUE, filters |-> FALSE, scans |-> FALSE,
     ties |-> FALSE, retakes |-> TRUE]

\* With a token: (name, recipient) > (@name, @recipient)
GetRecipients == [Plain EXCEPT !.check = "rows", !.owned = FALSE]

GetDistributionLists == Plain

\* With a token: (user_id, id) < (@user_id, @id)
GetUserNotifications == [Plain EXCEPT !.owned = FALSE, !.filters = TRUE]

GetNotifications == Plain

\* By user alone, while the token compares user and channel
GetRecipientNotificationStatuses == [Plain EXCEPT !.filters = TRUE, !.ties = TRUE]

GetTemplates == Plain

\* The name in the token is compared with that of the request by address
GetTemplatesByName == [Plain EXCEPT !.filters = TRUE, !.retakes = FALSE]

\* DynamoDB: Query and Scan with Limit and ExclusiveStartKey
DynamoPage == [Plain EXCEPT !.scans = TRUE]

DynamoRecipients == [DynamoPage EXCEPT !.check = "list"]
DynamoDistributionLists == DynamoPage
DynamoUserNotifications == [DynamoPage EXCEPT !.filters = TRUE]
DynamoNotifications == DynamoPage
DynamoRecipientStatuses == [DynamoPage EXCEPT !.filters = TRUE]

\* The name is part of the key, so that others are not looked at
DynamoTemplates == DynamoPage

Queries ==
    {GetRecipients, GetDistributionLists, GetUserNotifications, GetNotifications,
     GetRecipientNotificationStatuses, GetTemplates, GetTemplatesByName,
     DynamoRecipients, DynamoDistributionLists, DynamoUserNotifications,
     DynamoNotifications, DynamoRecipientStatuses, DynamoTemplates}

----------------------------------------------------------------------------

NoToken == [set |-> FALSE, after |-> 0]
Tokens == {NoToken} \cup {[set |-> TRUE, after |-> i] : i \in Items}

VARIABLES
    query,    \* the query of the walk
    owner,    \* whose rows it reads
    held,     \* held[o]: the items of o, as the copy of the table that answers has them
    step,     \* the next call of the walk
    token,    \* nextToken: the item the page starts after
    got,      \* the items read so far
    twice,    \* those it read more than once
    always,   \* the items it wants and that were there since the walk began
    ever,     \* those that were there at some time since
    alone,    \* no owner later in the order had rows since
    writes    \* how many times the rows changed

walkVars == <<query, owner, step, token, got, twice>>
ghostVars == <<always, ever, alone>>
pageVars == <<walkVars, held, ghostVars, writes>>

Shown == IF query.filters THEN Wanted ELSE Items

WalkTypeOK ==
    /\ query \in Queries
    /\ owner \in Owners
    /\ held \in [Owners -> SUBSET Items]
    /\ step \in {"check", "page", "done", "failed"}
    /\ token \in Tokens
    /\ got \subseteq Items
    /\ twice \subseteq got
    /\ always \subseteq ever /\ ever \subseteq Shown
    /\ alone \in BOOLEAN
    /\ writes \in 0..MaxWrites

----------------------------------------------------------------------------
(* A page *)

Rows == {row \in Owners \X Items : row[2] \in held[row[1]]}

\* Mutants of Selected: a page starts at the item of the token, or the token is
\* not heeded
SelectedFrom ==
    {row \in Rows : row[1] = owner /\ (token.set => row[2] >= token.after)}
SelectedAgain == {row \in Rows : row[1] = owner}

\* The rows of the owner, with a token those after its item; of a query that is not
\* owned also the rows of every later owner
Selected ==
    {row \in Rows :
        /\ \/ row[1] = owner /\ (token.set => row[2] > token.after)
           \/ ~query.owned /\ token.set /\ row[1] > owner
        /\ query.scans \/ row[2] \in Shown}

\* Where the order is by user, the channels of a user are two items in any order
Rank(item) == IF query.ties THEN item \div 2 ELSE item

\* Mutant of IsPage: without ORDER BY
IsPageUnordered(page) ==
    /\ page \subseteq Selected
    /\ Cardinality(page) <= Limit
    /\ page = Selected \/ Cardinality(page) = Limit

\* ORDER BY and LIMIT: a page is full unless the rows end. One of DynamoDB also
\* ends where the size of an answer does
IsPage(page) ==
    /\ page \subseteq Selected
    /\ Cardinality(page) <= Limit
    /\ page = Selected \/ Cardinality(page) = Limit \/ (query.scans /\ page # {})
    /\ \A row \in page, other \in Selected \ page : Rank(row[2]) <= Rank(other[2])

\* There is a next token, also if there is nothing left to read
More(page) == page # Selected \/ Cardinality(page) = Limit

\* DynamoDB applies the filter to the rows of the page
Read(page) == {row[2] : row \in page} \cap Shown

\* Items that two rows of the page hold
Shared(page) == {i \in Shown : \E a, b \in page : a # b /\ a[2] = i /\ b[2] = i}

\* What the caller has after a page
Data(page) == got \cup Read(page)

----------------------------------------------------------------------------

WalkInit ==
    /\ query \in Queries
    /\ owner \in Owners
    /\ held \in [Owners -> SUBSET Items]
    /\ step = IF query.check = "none" THEN "page" ELSE "check"
    /\ token = NoToken
    /\ got = {} /\ twice = {}
    /\ always = held[owner] \cap Shown /\ ever = always
    /\ alone = (\A o \in Owners : o > owner => held[o] = {})
    /\ writes = 0

\* A request changes the rows of an owner, or the copy that answers is another one
Write(o) ==
    /\ step \in {"check", "page"}
    /\ writes < MaxWrites
    /\ \E I \in SUBSET Items \ {held[o]} : held' = [held EXCEPT ![o] = I]
    /\ always' = always \cap held'[owner]
    /\ ever' = ever \cup (held'[owner] \cap Shown)
    /\ alone' = (alone /\ \A p \in Owners : p > owner => held'[p] = {})
    /\ writes' = writes + 1
    /\ UNCHANGED walkVars

\* A call fails, or is refused: an unknown list, a token that is not taken
Fail ==
    /\ step \in {"check", "page"}
    /\ step' = "failed"
    /\ UNCHANGED <<query, owner, held, token, got, twice, ghostVars, writes>>

\* The list is looked for before each page
Check ==
    /\ step = "check"
    /\ query.check = "rows" => held[owner] # {}
    /\ step' = "page"
    /\ UNCHANGED <<query, owner, held, token, got, twice, ghostVars, writes>>

\* The page, and the token of its last row if there is more
Page ==
    /\ step = "page"
    /\ token.set => query.retakes
    /\ \E page \in SUBSET Selected :
          /\ IsPage(page)
          /\ got' = Data(page)
          /\ twice' = twice \cup (got \cap Read(page)) \cup Shared(page)
          /\ IF More(page)
             THEN \E last \in page :
                     /\ \A row \in page : Rank(row[2]) <= Rank(last[2])
                     /\ token' = [set |-> TRUE, after |-> last[2]]
                     /\ step' = IF query.check = "none" THEN "page" ELSE "check"
             ELSE step' = "done" /\ UNCHANGED token
    /\ UNCHANGED <<query, owner, held, ghostVars, writes>>

WalkNext == Check \/ Page \/ Fail \/ \E o \in Owners : Write(o)

WalkSpec == WalkInit /\ [][WalkNext]_pageVars
FairWalkSpec == WalkSpec /\ WF_pageVars(Check \/ Page \/ Fail)

----------------------------------------------------------------------------
(* Properties *)

\* The order determines that of the rows there were
Ordered == \A i, j \in ever : i # j => Rank(i) # Rank(j)

\* The pages are made of rows of the owner
Own == query.owned \/ alone

\* A walk that ends has read everything that was there all the time, whatever else came
\* and went, whatever the filter, and even if rows of later owners were in its pages -
\* unless a recipient has two channels and the order is by recipient
\* (service/internal/registry/postgres/notification.go:186-215).
DoneIsComplete == step = "done" /\ Ordered => always \subseteq got

\* The pages of a walk over rows of its owner do not overlap: the worker does not send
\* twice to a recipient it reads.
NothingTwice == Own /\ Ordered => twice = {}

\* A walk over rows of its owner ends.
WalkEnds == <>(step \in {"done", "failed"} \/ ~Own)

\* What the pages of a list hold are recipients of the list, and what those of a user hold
\* are the user's. Two queries of PostgreSQL keep this only for the last owner.
OnlyItsItems == got \subseteq ever

=============================================================================
