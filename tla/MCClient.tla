------------------------------ MODULE MCClient ------------------------------
(* Every screen, one of its queries and one or two of its controls at a time. *)
EXTENDS Client, Screens
LOCAL INSTANCE FiniteSets
LOCAL INSTANCE FiniteSetsExt

(* What is looked at: a screen, one query it shows or none, and one or two  *)
(* of its controls that write what the query reads. Of the areas that       *)
(* differ in names only, and so behave alike, one is run.                   *)
Nothing == Query(<<"nothing">>, {})
InOrder(S) == FoldSet(LAMBDA x, s : Append(s, x), <<>>, S)
Relevant(c, q) == \E change \in Changes(c) : Touches(change, q)
Area(s, q, cs) == [screen |-> s, query |-> q, controls |-> cs]
EveryArea ==
    UNION {UNION {{Area(s, q, InOrder({c, d})) :
                           c \in {x \in s.offers : Relevant(x, q)},
                           d \in {x \in s.offers : Relevant(x, q)}}
                       : q \in s.shows \cup {Nothing}} : s \in AllScreens}
    \cup UNION {{Area(s, Nothing, <<c>>) : c \in s.offers} : s \in AllScreens}
    \cup UNION {{Area(s, q, <<>>) : q \in {x \in s.shows : ~\E c \in s.offers : Relevant(c, x)}}
                : s \in AllScreens}
Outline(change, q) ==
    <<Touches(change, q), Tells(change, q),
      change.whole, change.puts, change.writes \cap {"ticket", "message"} # {}>>
Shape(a) ==
    <<a.query.polls, a.query.key # <<>> /\ a.query.key[1] = "tickets",
      a.query.reads \cap {"ticket", "message"} # {}, a.screen.refills = a.query.key,
      {[c EXCEPT !.does = [n \in DOMAIN c.does |-> Outline(c.does[n], a.query)]] :
          c \in {a.controls[n] : n \in DOMAIN a.controls}},
      Cardinality(UNION {{a.controls[n].does[k].name : k \in DOMAIN a.controls[n].does} :
                      n \in DOMAIN a.controls}), Len(a.controls)>>
EachShapeOnce ==
    InOrder({CHOOSE a \in EveryArea : Shape(a) = shape : shape \in {Shape(a) : a \in EveryArea}})

const_Areas == EachShapeOnce

(* What the theorems assume of one area holds of every area of the client:  *)
(* each hook tells the queries that read what it writes.                    *)
ASSUME EveryAreaHolds == \A a \in EveryArea : AreaHolds(a)
=============================================================================
