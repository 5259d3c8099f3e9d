----------------------------- MODULE Retrieval -----------------------------
(***************************************************************************)
(* What the workspace search returns and what is made of it:               *)
(* retrieval/service.py, and agent/service.py around its use.              *)
(*                                                                         *)
(* Scores are in hundredths of a percent, similarities and keyword scores  *)
(* in percent.  A text is what the query finds in it: the words of the     *)
(* query, and whether the query occurs as a phrase (it may do so inside    *)
(* longer words, without any word of it).  A search reads pages, blocks,   *)
(* vectors and files one after the other while others change them, so that *)
(* what it reads need not fit together: each reading is arbitrary.  It     *)
(* writes nothing, so that its reads are one step.                         *)
(***************************************************************************)
EXTENDS Integers, Sequences, FiniteSets, FiniteSetsExt

CONSTANTS
    Pages, Blocks, Files,
    PageOf,         \* the page of a block, of a file (or NoPage), of itself
    NoPage,
    KeyOrder,       \* kind, title, snippet and ids: breaks ties of the score
    IdOrder,        \* the ids of pages: breaks ties among related pages
    Words,          \* classes of the query's words, found all or not at all
    Coverage,       \* percentage of the query's words in a set of classes
    Titles,         \* what may be read: titles of pages and names of files,
    Bodies,         \* texts of blocks, of files, of each page's best chunk,
    Similarities,   \* how near the chunks of titles and blocks are,
    Outcomes,       \* the candidates of a search for related pages
    Limits,         \* how many results may be asked for
    MaxPassages     \* passages of a page (the code takes at most 8)

Sources == Pages \union Blocks \union Files
Texts == [words : SUBSET Words, phrase : BOOLEAN]

ASSUME ConstantsAssumption ==
    /\ IsFiniteSet(Sources) /\ NoPage \notin Sources
    /\ Pages \cap Blocks = {} /\ Files \cap (Pages \union Blocks) = {}
    /\ PageOf \in [Sources -> Pages \union {NoPage}]
    /\ \A p \in Pages : PageOf[p] = p
    /\ \A b \in Blocks : PageOf[b] # NoPage
    /\ KeyOrder \in [Sources -> Nat]
    /\ \A s, t \in Sources : KeyOrder[s] = KeyOrder[t] => s = t
    /\ IdOrder \in [Pages -> Nat]
    /\ \A p, q \in Pages : IdOrder[p] = IdOrder[q] => p = q
    /\ Coverage \in [SUBSET Words -> 0..100]
    /\ Titles \subseteq [Pages \union Files -> Texts]
    /\ Bodies \subseteq [Sources -> Texts]
    /\ Similarities \subseteq [Pages \union Blocks -> 0..100]
    /\ \A c \in Outcomes : DOMAIN c \subseteq Sources /\ \A s \in DOMAIN c : c[s] \in Nat
    /\ Limits \subseteq Nat /\ MaxPassages \in Nat

VARIABLES
    step,           \* how far the operation has come
    limit,          \* results asked for
    candidates,     \* search: every candidate with its score
    lexical,        \* keyword score of each candidate's title and snippet
    score,          \* of the sources kept, raised and rescored
    context,        \* search: the sources returned, best first
    first,          \* agent: the sources shown before the answer
    shown,          \* agent: the sources shown at the end
    required,       \* agent: direct_answer_requires_evidence of the segment
    resumed,        \* agent: a later segment, without the question's search
    evidence,       \* history: a tool has returned something of the workspace
    refused,        \* agent: the answer was replaced by "not enough information"
    page,           \* related: the page asked about
    passages,       \* related: passages still to be searched
    byPage,         \* related: what is known of each page found
    found,          \* history: what every search for a passage returned
    gone,           \* related: pages deleted since they were found
    items           \* related: the answer

search == <<candidates, lexical, score, context>>
agent == <<first, shown, required, resumed, evidence, refused>>
related == <<page, passages, byPage, found, gone, items>>
vars == <<step, limit, search, agent, related>>

Nothing == <<>>     \* the empty sequence, and the function without arguments

Unknown == [score |-> 0, strongest |-> NoPage, blockScore |-> 0, block |-> NoPage]

Init ==
    /\ step = "idle" /\ limit = 0
    /\ candidates = Nothing /\ lexical = Nothing /\ score = Nothing /\ context = Nothing
    /\ first = Nothing /\ shown = Nothing
    /\ required = FALSE /\ resumed = FALSE /\ evidence = FALSE /\ refused = FALSE
    /\ page = NoPage /\ passages = 0 /\ byPage = [p \in Pages |-> Unknown] /\ found = {}
    /\ gone = {} /\ items = Nothing

-----------------------------------------------------------------------------
(* Scores.                                                                 *)

Joined(texts) == [words |-> UNION {t.words : t \in texts},
                  phrase |-> \E t \in texts : t.phrase]

KeywordScore(title, text) ==
    LET all == Joined({title, text})
    IN Min({100, Coverage[all.words]
                 + (IF all.phrase THEN 50 ELSE 0)
                 + (IF title.words = Words THEN 35 ELSE 0)})

Near(similarity) == IF similarity < 35 THEN 0 ELSE similarity

Weighted(similarity, keyword, bonus) ==
    55 * similarity + 45 * keyword
    + (IF similarity > 0 \/ keyword > 0 THEN bonus ELSE 0)

BlocksOf(p) == {b \in Blocks : PageOf[b] = p}

(* A reading r of the workspace: titles and names, texts, the blocks with  *)
(* a text, the similarity of the chunks, the text of a page's best chunk.  *)
PageBody(r, p) == Joined({r.body[b] : b \in BlocksOf(p) \cap r.written})

PageSimilarity(r, p) == Near(Max({r.near[c] : c \in {p} \union BlocksOf(p)}))

PageScore(r, p) ==
    LET keyword == KeywordScore(r.title[p], PageBody(r, p))
    IN Weighted(PageSimilarity(r, p), keyword, 500)
       + (IF keyword > 0 /\ r.title[p].phrase THEN 2500 ELSE 0)

BlockScore(r, b) ==
    Weighted(Near(r.near[b]), KeywordScore(r.title[PageOf[b]], r.body[b]), 200)

FileScore(r, f) == 45 * KeywordScore(r.title[f], r.body[f])

Candidates(r) ==
    LET value == [s \in Sources |-> IF s \in Pages THEN PageScore(r, s)
                                    ELSE IF s \in Files THEN FileScore(r, s)
                                    ELSE IF s \in r.written THEN BlockScore(r, s)
                                    ELSE 0]
    IN [s \in {t \in Sources : value[t] > 0} |-> value[s]]

(* The snippet of a page is its best chunk or, without one, its body.      *)
Lexical(r) ==
    [s \in Sources |->
        IF s \in Files THEN KeywordScore(r.title[s], r.body[s])
        ELSE KeywordScore(r.title[PageOf[s]],
                          IF s \in Blocks \/ PageSimilarity(r, s) > 0
                          THEN r.body[s] ELSE PageBody(r, s))]

(* Faulty variant: the blocks keep their own score.                        *)
CompactedUnraised(c) ==
    [s \in DOMAIN c \ {PageOf[b] : b \in DOMAIN c \cap Blocks} |-> c[s]]

(* A page is not listed beside its own blocks, which inherit its score.    *)
Compacted(c) ==
    LET covered == {PageOf[b] : b \in DOMAIN c \cap Blocks}
        Raised(s) == IF s \in Blocks /\ PageOf[s] \in DOMAIN c
                     THEN Max({c[s], c[PageOf[s]]}) ELSE c[s]
    IN [s \in DOMAIN c \ covered |-> Raised(s)]

Before(c, order, s, t) ==
    \/ c[s] > c[t]
    \/ c[s] = c[t] /\ order[s] < order[t]

Ranked(c, order) ==
    [i \in 1..Cardinality(DOMAIN c) |->
        CHOOSE s \in DOMAIN c : Cardinality({t \in DOMAIN c : Before(c, order, t, s)}) = i - 1]

Best(sequence, n) == SubSeq(sequence, 1, Min({n, Len(sequence)}))

(* The members of S, in the order of the sequence.                         *)
Kept(sequence, S) ==
    LET places == {i \in DOMAIN sequence : sequence[i] \in S}
    IN  [k \in 1..Cardinality(places) |->
            sequence[CHOOSE i \in places : Cardinality({j \in places : j < i}) = k - 1]]

(* _select_answer_sources: everything without a lexical match, else what   *)
(* reaches half of the strongest match, and 15 percent.                    *)
Selected(sources, match) ==
    LET scores == {match[sources[i]] : i \in DOMAIN sources}
        near == {s \in Sources : match[s] >= 15 /\ 2 * match[s] >= Max(scores)}
    IN IF \A x \in scores : x = 0 THEN sources ELSE Kept(sources, near)

-----------------------------------------------------------------------------
(* A search, of the API or of the agent.                                   *)

Readings == [title : Titles, body : Bodies, near : Similarities, written : SUBSET Blocks]

StartSearch ==
    /\ step = "idle"
    /\ limit' \in Limits
    /\ step' = IF limit' = 0 THEN "searched" ELSE "search"  \* or an empty query
    /\ UNCHANGED <<search, agent, related>>

Search ==
    /\ step = "search"
    /\ \E r \in Readings :
        /\ candidates' = Candidates(r)
        /\ lexical' = Lexical(r)
    /\ score' = Compacted(candidates')
    /\ context' = Best(Ranked(score', KeyOrder), limit)
    /\ step' = "searched"
    /\ UNCHANGED <<limit, agent, related>>

-----------------------------------------------------------------------------
(* A question to the agent: the sources, reads by tools, the answer.       *)

(* A request to create a page is not searched for: the context is empty.   *)
(* Unless nothing is left of its title, the provider is not asked either:  *)
(* the page is proposed at once.                                           *)
SkipSearch ==
    /\ step = "idle"
    /\ step' \in {"searched", "create"}
    /\ UNCHANGED <<limit, search, agent, related>>

(* Faulty variant: asks for evidence only if the model is given no source. *)
ShowSourcesUnchosen ==
    /\ step \in {"searched", "create"}
    /\ first' = Selected(context, lexical)
    /\ shown' = first'
    /\ required' = (context = Nothing)
    /\ step' = IF step = "create" THEN "proposed" ELSE "ask"
    /\ UNCHANGED <<limit, resumed, evidence, refused, search, related>>

ShowSources ==
    /\ step \in {"searched", "create"}
    /\ first' = Selected(context, lexical)
    /\ shown' = first'
    /\ required' = (first' = Nothing)
    /\ step' = IF step = "create" THEN "proposed" ELSE "ask"
    /\ UNCHANGED <<limit, resumed, evidence, refused, search, related>>

ReadTool ==
    /\ step = "ask"
    /\ \E something \in BOOLEAN :
          /\ required' = (required /\ ~something)
          /\ evidence' = (evidence \/ something)
    /\ UNCHANGED <<step, limit, first, shown, resumed, refused, search, related>>

ProposeChange ==
    /\ step = "ask"
    /\ step' = "proposed"
    /\ UNCHANGED <<limit, search, agent, related>>

(* A further segment starts from the saved messages: there is no question  *)
(* to search for, none of its sources, and nothing requires evidence.      *)
Resumes ==
    /\ step' = "ask"
    /\ required' = FALSE /\ resumed' = TRUE
    /\ UNCHANGED <<limit, first, shown, evidence, refused, search, related>>

Decided == step = "proposed" /\ Resumes

(* The client was lost, and another one takes the run up again.            *)
Reconnected == step \in {"search", "searched", "create", "ask", "answered"} /\ Resumes

Respond ==
    /\ step = "ask"
    /\ refused' = required
    /\ step' = "answered"
    /\ UNCHANGED <<limit, first, shown, required, resumed, evidence, search, related>>

(* rescore_sources_by_answer gives the sources back as they are when the   *)
(* answer is short (the refusal is not) or cannot be embedded.             *)
KeepScores ==
    /\ shown' = context
    /\ UNCHANGED score

(* A source that cannot be embedded keeps its score, like one unlike the   *)
(* answer.                                                                 *)
Rescored(likeness) ==
    [s \in DOMAIN score |->
        IF s \in DOMAIN likeness /\ likeness[s] >= 25 THEN score[s] + 35 * likeness[s]
        ELSE score[s]]

Rescore ==
    /\ \E likeness \in [{context[i] : i \in DOMAIN context} -> {0, 24, 25, 90}] :
        score' = Rescored(likeness)
    /\ shown' = Selected(context, lexical)

(* Only the question's own segment has sources to rescore.                 *)
FinishAnswer ==
    /\ step = "answered"
    /\ IF resumed THEN UNCHANGED <<shown, score>> ELSE KeepScores \/ Rescore
    /\ step' = "done"
    /\ UNCHANGED <<limit, candidates, lexical, context, first, required, resumed,
                   evidence, refused, related>>

-----------------------------------------------------------------------------
(* Related pages: one search for each passage of the page asked about.     *)

StartRelated ==
    /\ step = "idle"
    /\ limit' \in Limits /\ page' \in Pages /\ passages' \in 0..MaxPassages
    /\ step' = IF limit' = 0 \/ passages' = 0 THEN "listed" ELSE "passages"
    /\ UNCHANGED <<byPage, found, gone, items, search, agent>>

(* Faulty variant: a block counts only where it is the strongest source.   *)
ImprovedTogether(known, c, s) ==
    IF c[s] > known.score
    THEN [score |-> c[s], strongest |-> s,
          blockScore |-> IF s \in Blocks THEN c[s] ELSE known.blockScore,
          block |-> IF s \in Blocks THEN s ELSE known.block]
    ELSE known

(* What one source adds to what is known of its page: the first strongest  *)
(* source, and the first strongest of its blocks.                          *)
Improved(known, c, s) ==
    LET stronger == c[s] > known.score
        block == s \in Blocks /\ c[s] > known.blockScore
    IN [score |-> IF stronger THEN c[s] ELSE known.score,
        strongest |-> IF stronger THEN s ELSE known.strongest,
        blockScore |-> IF block THEN c[s] ELSE known.blockScore,
        block |-> IF block THEN s ELSE known.block]

Gathered(c, sources) ==
    LET after[i \in 0..Len(sources)] ==
          IF i = 0 THEN byPage
          ELSE LET s == sources[i] IN
               IF PageOf[s] = NoPage \/ c[s] < 2500 THEN after[i - 1]
               ELSE [after[i - 1] EXCEPT ![PageOf[s]] = Improved(@, c, s)]
    IN after[Len(sources)]

(* A passage is searched for outside its page, at a depth of              *)
(* max(8 * limit, 24).                                                     *)
SearchPassage ==
    /\ step = "passages" /\ passages > 0
    /\ \E outcome \in Outcomes :
        LET c == Compacted([s \in {t \in DOMAIN outcome : PageOf[t] # page} |-> outcome[s]])
            result == Best(Ranked(c, KeyOrder), Max({8 * limit, 24}))
        IN /\ byPage' = Gathered(c, result)
           /\ found' = found \union {<<result[i], c[result[i]]>> : i \in DOMAIN result}
    /\ passages' = passages - 1
    /\ UNCHANGED <<step, limit, page, gone, items, search, agent>>

Destinations ==
    LET c == [p \in {q \in Pages : byPage[q].score > 0} |-> byPage[p].score]
    IN Best(Ranked(c, IdOrder), limit)

Evidence(p) == IF byPage[p].block # NoPage THEN byPage[p].block ELSE byPage[p].strongest

(* Each destination is read again, and left out if it is gone by then.     *)
ListRelated ==
    /\ step = "passages" /\ passages = 0
    /\ gone' \in SUBSET {Destinations[i] : i \in DOMAIN Destinations}
    /\ LET shownPages == Kept(Destinations, Pages \ gone')
       IN items' = [i \in DOMAIN shownPages |->
                      [page |-> shownPages[i], evidence |-> Evidence(shownPages[i])]]
    /\ step' = "listed"
    /\ UNCHANGED <<limit, page, passages, byPage, found, search, agent>>

Next ==
    \/ StartSearch \/ Search \/ SkipSearch
    \/ ShowSources \/ ReadTool \/ ProposeChange \/ Decided \/ Reconnected
    \/ Respond \/ FinishAnswer
    \/ StartRelated \/ SearchPassage \/ ListRelated

Spec == Init /\ [][Next]_vars

-----------------------------------------------------------------------------
(* Properties.                                                             *)

Elements(sequence) == {sequence[i] : i \in DOMAIN sequence}

(* Hiding a page behind its blocks, raising them to its score and cutting  *)
(* the list lose nothing that matters: a candidate is missing from the     *)
(* result only if one of its page's blocks stands for it, or if the result *)
(* is full of sources that are at least as good; and no page is listed     *)
(* beside its own blocks.                                                  *)
NothingBetterIsLeftOut ==
    step \in {"searched", "create", "ask", "proposed", "answered"} =>
        /\ \A s \in DOMAIN candidates \ Elements(context) :
            \/ s \in Pages /\ \E b \in Elements(context) \cap Blocks :
                                  PageOf[b] = s /\ score[b] >= candidates[s]
            \/ /\ Len(context) = limit
               /\ \A t \in Elements(context) : score[t] >= candidates[s]
        /\ \A s, t \in Elements(context) : s # t /\ PageOf[s] = PageOf[t] /\ s \in Pages
                                              => t \in Files
        /\ Len(context) <= limit /\ Cardinality(Elements(context)) = Len(context)

(* An answer to a question stands beside a source or rests on something a  *)
(* tool returned, or it is refused: also when the model was given sources  *)
(* of which none is near enough to be shown, when a tool returned nothing, *)
(* and whatever becomes of the sources after the answer.  Only an answer in*)
(* a later segment, after a decision or a reconnect, goes unchecked.       *)
(* Conversely, only an answer with neither is refused; and at the end the  *)
(* sources shown are those shown at first or, if the answer could not be   *)
(* compared with them, all that the model was given: none of the first goes*)
(* away.                                                                   *)
AnswersAreGrounded ==
    step = "done" =>
        /\ resumed \/ refused \/ evidence \/ shown # Nothing
        /\ refused => first = Nothing /\ ~evidence
        /\ shown \in {first, context} /\ Elements(first) \subseteq Elements(shown)

(* Related pages are the best found by any passage, whichever passage and  *)
(* whichever source it was: a page that is missing was too weak, is gone,  *)
(* or `limit` others were at least as good.  What is shown of a page is    *)
(* its best block, if any was found.                                       *)
Strength(F, p, S) ==
    Max({0} \union {g[2] : g \in {h \in F : PageOf[h[1]] = p /\ h[1] \in S /\ h[2] >= 2500}})

RelatedShowsTheBest ==
    step = "listed" =>
        /\ \A p \in Pages \ (gone \union {items[i].page : i \in DOMAIN items}) :
            LET best == Strength(found, p, Sources)
            IN \/ best = 0
               \/ Cardinality({q \in Pages \ {p} : Strength(found, q, Sources) >= best})
                      >= limit
        /\ \A i \in DOMAIN items :
            LET p == items[i].page
                kind == IF Strength(found, p, Blocks) > 0 THEN Blocks ELSE Sources
            IN /\ p # page /\ PageOf[items[i].evidence] = p
               /\ items[i].evidence \in kind
               /\ <<items[i].evidence, Strength(found, p, kind)>> \in found
        /\ \A i, j \in DOMAIN items : i < j =>
            /\ items[i].page # items[j].page
            /\ Strength(found, items[i].page, Sources)
                   >= Strength(found, items[j].page, Sources)
=============================================================================
