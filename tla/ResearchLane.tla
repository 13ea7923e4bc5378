----------------------------- MODULE ResearchLane -----------------------------
(***************************************************************************)
(* The research lane (research/pipeline.py): a question is searched for    *)
(* with a ladder of backends, of what they find the best pages are         *)
(* fetched, each by a ladder of its own, and a page that is asked for by   *)
(* its address is fetched alone.                                           *)
(***************************************************************************)
EXTENDS Integers, Sequences, FiniteSets, FiniteSetsExt, SequencesExt

CONSTANTS
  Url,
  Host,                \* the labels of every address's host; none if it cannot be read
  Ported,              \* addresses that name a port too
  LeadsTo,             \* of those that redirect, the address it leads to
  Excluded,            \* hosts that are not to be used
  Spam,                \* addresses that only the single engines drop
  Social,              \* domains that only Brave's page drops
  Primary,             \* domains of the first tier
  NoPage,              \* no address
  Enough,              \* rows that make a search good: 3
  MaxResults,          \* rows a search returns at most
  MaxPages,            \* pages a question is answered with
  MaxSearches          \* categories times variants of the question

VARIABLES
  searches,            \* searches yet to make
  rung,                \* the backend that is asked next
  pool,                \* what was found
  plan,                \* what is yet to be looked at
  page,                \* the page that is being fetched
  way,                 \* by which way
  text,                \* what the direct way brought, when that is not enough
  pages                \* what became of every page

finding == <<searches, rung, pool>>
fetching == <<page, way, text>>
vars == <<finding, plan, fetching, pages>>

\* A question, or one page.
Init ==
  /\ rung = 1 /\ pool = {}
  /\ \/ searches \in 1..MaxSearches /\ plan = {}
     \/ searches = 0 /\ \E u \in Url : plan = {u}
  /\ page = NoPage /\ way = "direct" /\ text = "none"
  /\ pages = [u \in Url |-> "unseen"]

-------------------------------------------------------------------------------
\* Of the host's labels the last two, with the port if there is one: what is listed
\* in other ways than with two labels and without a port is not recognised.
Domain(u) ==
  LET labels == Host[u]
      n == Len(labels)
  IN  [labels |-> IF n > 2 THEN SubSeq(labels, n - 1, n) ELSE labels, port |-> u \in Ported]

NoDomain(u) == Host[u] = <<>>

IsOne(u, domains) == Domain(u).labels \in domains /\ ~Domain(u).port

First == {u \in Url : IsOne(u, Primary)}

-------------------------------------------------------------------------------
\* What the backends may return.

Allowed == {u \in Url : ~IsOne(u, Excluded)}
UpTo(n, S) == {s \in SUBSET S : Cardinality(s) <= n}

SearxSingle == UpTo(MaxResults, Allowed \ Spam)
BraveHtml == UpTo(MaxResults, {u \in Allowed : ~NoDomain(u) /\ ~IsOne(u, Social)})

FallbackSearch == UpTo(MaxResults, {u \in Allowed : ~NoDomain(u)})

\* The direct backends fill in when the merged answer is too short.
SearxQuery ==
  LET Better(out, fb) == IF Cardinality(out) < Enough /\ Cardinality(fb) > Cardinality(out) THEN fb ELSE out
  IN  {Better(out, fb) : out \in UpTo(MaxResults, Allowed), fb \in FallbackSearch}

\* Four engines, each of which may be believed when it has little; then the news,
\* Brave, Bing with Mojeek, and all engines of SearXNG at once.
Thin == 1..4
Backend(i) ==
  IF i \in Thin \cup {5} THEN SearxSingle
  ELSE IF i = 6 THEN BraveHtml
  ELSE IF i = 7 THEN FallbackSearch
  ELSE SearxQuery
LastRung == 8

\* The best of what was found are looked at, twice as many as are needed.
Best(S, n) ==
  {s \in kSubset(IF Cardinality(S) < n THEN Cardinality(S) ELSE n, S) :
     \A u \in s, v \in S \ s : v \in First => u \in First}

SearchEnds(found) ==
  /\ pool' = pool \cup found
  /\ searches' = searches - 1 /\ rung' = 1
  /\ IF searches = 1 THEN plan' \in Best(pool', 2 * MaxPages) ELSE UNCHANGED plan

Search ==
  /\ searches > 0
  /\ \E rows \in Backend(rung) :
       \/ /\ Cardinality(rows) >= Enough \/ (rung \in Thin /\ rows # {})
          /\ SearchEnds(rows)
       \/ /\ Cardinality(rows) < Enough /\ rung < LastRung
          /\ rung' = rung + 1 /\ UNCHANGED <<searches, pool, plan>>
       \/ /\ Cardinality(rows) < Enough /\ rung = LastRung
          /\ SearchEnds({})
  /\ UNCHANGED <<fetching, pages>>

-------------------------------------------------------------------------------
\* Fetching.

Good == {u \in Url : pages[u] \in {"page", "copy", "wall"}}

Looked(d) == {u \in Url : Domain(u) = d /\ pages[u] # "unseen"}

\* The page is done with; a question has enough when MaxPages were fetched.
PageEnds(how) ==
  /\ pages' = [pages EXCEPT ![page] = how]
  /\ page' = NoPage /\ way' = "direct" /\ text' = "none"

Take ==
  /\ searches = 0 /\ page = NoPage /\ Cardinality(Good) < MaxPages
  /\ \E u \in plan :
       /\ u \in First \/ plan \cap First = {}
       /\ plan' = plan \ {u}
       /\ page' = IF Cardinality(Looked(Domain(u))) >= 2 THEN NoPage ELSE u
  /\ UNCHANGED <<finding, way, text, pages>>

\* scrape: a page that says little and looks like a wall is tried by other ways too.
\* All ways follow redirects, wherever they lead.
Direct ==
  /\ page # NoPage /\ way = "direct"
  /\ IF IsOne(page, Excluded)
       THEN PageEnds("refused")
       ELSE \/ PageEnds("page") \/ PageEnds("failed")
            \/ \E t \in {"none", "wall", "error"} :
                 text' = t /\ way' = "reader" /\ UNCHANGED <<page, pages>>
  /\ UNCHANGED <<finding, plan>>

Then == [reader |-> "browser", browser |-> "archive", archive |-> "last"]

\* _fallback_scrape: the first of the reader, the browser and the archive that has
\* any text; it has to be longer than the wall's.
Fallback ==
  /\ way \in DOMAIN Then
  /\ \/ PageEnds("copy")
     \/ text = "wall" /\ PageEnds("wall")
     \/ way' = Then[way] /\ UNCHANGED <<page, text, pages>>
  /\ UNCHANGED <<finding, plan>>

\* No way is left: Firecrawl, where it is allowed, for pages that could not be had
\* at all. The browser of the task's slot needs a module the repository lacks.
LastWay ==
  /\ way = "last"
  /\ \/ text = "error" /\ PageEnds("copy")
     \/ PageEnds(IF text = "wall" THEN "wall" ELSE "failed")
  /\ UNCHANGED <<finding, plan>>

Next == Search \/ Take \/ Direct \/ Fallback \/ LastWay

Spec == Init /\ [][Next]_vars

-------------------------------------------------------------------------------
TypeOK ==
  /\ searches \in 0..MaxSearches /\ rung \in 1..LastRung
  /\ pool \subseteq Url /\ plan \subseteq Url
  /\ page \in Url \cup {NoPage}
  /\ way \in {"direct", "last"} \cup DOMAIN Then
  /\ text \in {"none", "wall", "error"}
  /\ pages \in [Url -> {"unseen", "page", "copy", "wall", "failed", "refused"}]

Listed(u, e) == IsSuffix(e, Host[u])
Refused(u) == u \notin Ported /\ \E e \in Excluded : Len(e) = 2 /\ Listed(u, e)

\* What was read as the page of an address.
Read(u) == IF u \in DOMAIN LeadsTo THEN LeadsTo[u] ELSE u

\* What is found by any backend or fetched by any way and belongs to an excluded host
\* is one that _domain does not recognise: it names a port, or its host is listed with
\* three labels; or something else was asked for that redirects to it. At most two
\* pages of a domain are tried and no more kept than asked for; a page of another tier
\* is tried only when the primary ones have had their turn; and a question ends with
\* too few pages only when all it looks at were tried or belong to a domain that was
\* tried twice.
ResearchIsSound ==
  /\ \A u \in pool : ~Refused(u)
  /\ \A u \in Url :
       /\ pages[u] \in {"page", "copy", "wall", "failed"} \/ (u = page /\ way # "direct") =>
            \A e \in Excluded :
              Listed(Read(u), e) => Len(e) # 2 \/ Read(u) \in Ported \/ (Read(u) # u /\ ~Refused(u))
       /\ Cardinality(Looked(Domain(u))) <= 2
  /\ Cardinality(Good) <= MaxPages
  /\ pool # {} =>
       LET TurnOver(v) == pages[v] # "unseen" \/ Cardinality(Looked(Domain(v))) = 2 IN
       /\ \A u \in pool \ First, v \in pool \cap First : pages[u] # "unseen" => TurnOver(v)
       /\ searches = 0 /\ page = NoPage /\ plan = {} /\ Cardinality(Good) < MaxPages =>
            \/ \A v \in pool : TurnOver(v)
            \/ Cardinality({v \in pool : TurnOver(v)}) >= 2 * MaxPages
===============================================================================
