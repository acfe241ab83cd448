----------------------------- MODULE MCSourcing -----------------------------
(* Three products: one of a target category with two queries, one that is    *)
(* searched by its picture or its title, and one without a usable keyword.   *)
EXTENDS Sourcing

Word(w, zh) == [words |-> <<w>>, zh |-> zh, spec |-> FALSE, noise |-> FALSE]

MCProduct == [image |-> FALSE, queries |-> <<>>, sizes |-> <<>>, counts |-> <<>>, measured |-> FALSE,
              market |-> <<>>,
              title |-> [categories |-> <<>>, material |-> <<>>, features |-> <<>>, openings |-> <<>>]]
MCTarget == [MCProduct EXCEPT !.image = TRUE, !.queries = <<Word("box", TRUE), Word("shed", TRUE)>>]
MCPlain  == [MCProduct EXCEPT !.image = TRUE, !.sizes = <<750>>,
               !.market = <<[word |-> Word("bin", FALSE), translations |-> <<Word("box", TRUE)>>]>>,
               !.title.openings = <<Word("large bin", FALSE)>>]
MCProducts == {MCTarget, MCPlain, MCProduct}

Seen == [ok |-> TRUE, keywords |-> <<Word("case", TRUE)>>, category |-> Word("box", TRUE),
         title |-> Word("big box", TRUE)]
MCUnderstandings == {Seen, [Seen EXCEPT !.ok = FALSE]}

Answer(page, offers) == [page |-> page, ok |-> page = "offers", offers |-> offers]
MCAnswers == {Answer("tmd", <<>>), Answer("login", <<>>), Answer("offers", <<>>),
              Answer("offers", <<"o1">>), Answer("offers", <<"o2", "o3">>)}

MCSales == [o1 |-> 5, o2 |-> 4, o3 |-> 3, m1 |-> 2, m2 |-> 1]

Page(o, fields) == [marker |-> None, url |-> {o}, canonical |-> {}, signs |-> 3, of |-> o, text |-> {"moq"},
                    objects |-> <<[fields |-> fields, ids |-> {o}]>>]
MCOfferPages(o) == {Page(o, NeededFields), [Page("o3", {}) EXCEPT !.url = {o, "o3"}],
                    [Page(o, {}) EXCEPT !.marker = "CAPTCHA"]}

MCImportTerms == [o3 |-> {"box"}]
=============================================================================
