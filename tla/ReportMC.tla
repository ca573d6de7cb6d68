------------------------------- MODULE ReportMC -------------------------------
EXTENDS FeatureReport

CONSTANTS p, q, u, s, t, f, g, h, anchor

ProfilesInOrder == <<p, q, u>>
DeclaredHere == (p :> {s, t}) @@ (q :> {s}) @@ (u :> {s})
TestsHere == {[profile |-> x, scenarios |-> DeclaredHere[x]] : x \in {p, q, u}}

\* h is in the registry and not in the matrix.
RulesHere ==
  (f :> [assertion |-> "spans", policy |-> "wire-sufficient"])
    @@ (g :> [assertion |-> "links", policy |-> "requires-immutable-source"])
    @@ (h :> [assertion |-> "spans", policy |-> "wire-sufficient"])

Claim(scope, features) ==
  [scope |-> scope, basis |-> "observed", features |-> features, sources |-> {}]
Corroborated(scope, features) ==
  [scope |-> scope, basis |-> "corroborated", features |-> features, sources |-> {anchor}]

Small == <<Claim({}, <<f>>)>>
Large == <<Claim({}, <<f>>), Corroborated({t}, <<g>>)>>
Foreign == <<Claim({}, <<f, h>>)>>
Twice == <<Claim({}, <<f>>), Claim({t}, <<f>>)>>

SmallTexts ==
  LET text(verb, segments) == [verb |-> verb, capital |-> FALSE, slash |-> verb # "", segments |-> segments]
  IN <<text("", <<"a">>), text("", <<"b">>), text("", <<"c">>), text("get", <<"a", "{id}">>),
       text("get", <<"a", ":id">>)>>

Node(name, status, children) ==
  Span([name |-> name, kind |-> 0, status |-> status, http |-> 0, scope |-> 0,
        children |-> children])

Shape(roots) == ParseScenarioShape(<<Trace(0, roots)>>)

Leaf(name) == Node(name, 0, <<>>)
Plain == Shape(<<Leaf(1)>>)
Other == Shape(<<Leaf(2)>>)

\* Shapes with choices at the roots and below, counts, names that normalize to
\* one, more roots and children than the limits allow, and several traces.
Interesting ==
  <<Shape(<<OneOf(<<Leaf(1), Leaf(2)>>), OneOf(<<Leaf(2), Leaf(3)>>)>>),
    Shape(<<OneOf(<<Leaf(1), Node(3, 2, <<Leaf(1)>>)>>), Leaf(3)>>),
    Shape(<<Node(1, 0, <<OneOf(<<Leaf(1), Leaf(2)>>)>>), Node(1, 2, <<Leaf(2)>>)>>),
    Shape(<<Node(1, 0, <<Repeat(2, Leaf(2)), Leaf(3)>>), Leaf(4)>>),
    Shape(<<Node(1, 0, <<OneOf(<<Leaf(2), Leaf(3)>>), Leaf(1)>>), Leaf(5)>>),
    Shape(<<Leaf(4), Leaf(5), Node(4, 2, <<Leaf(1)>>)>>),
    Shape(<<Optional(OneOf(<<Leaf(2), Node(3, 0, <<Leaf(1)>>)>>)), Leaf(1)>>),
    Shape(<<Node(1, 0, <<Node(2, 0, <<OneOf(<<Leaf(1), Leaf(3)>>)>>)>>)>>),
    Shape(<<Node(1, 0, <<Node(2, 0, <<Leaf(3)>>), Leaf(2)>>), OneOf(<<Leaf(1), Leaf(3)>>)>>),
    ParseScenarioShape(<<OneOf(<<Trace(0, <<Leaf(1)>>), Trace(2, <<Leaf(3)>>)>>),
                         Trace(0, <<Leaf(2)>>)>>),
    ParseScenarioShape(<<Trace(0, <<Leaf(1)>>), Trace(0, <<Node(2, 0, <<Leaf(3)>>)>>)>>),
    ParseScenarioShape(<<Between(1, 2, Trace(0, <<Leaf(2)>>))>>)>>

TreeOf(claims, shapes) ==
  [claims |-> (p :> claims) @@ (q :> Small) @@ (u :> Small), shapes |-> shapes]

NoShapes == [key \in {} |-> Plain]
Only(shape) == <<p, s>> :> shape
Both(left, right) == (<<p, s>> :> left) @@ (<<q, s>> :> right)

TreesHere ==
  {TreeOf(Large, Only(Plain)), TreeOf(Small, Only(Plain)), TreeOf(Large, Only(Other)),
   TreeOf(Large, NoShapes), TreeOf(Twice, NoShapes), TreeOf(Foreign, NoShapes)}

WorldsHere ==
  {[tree |-> TreeOf(claims, shapes), budget |-> 2] :
     claims \in {Small, Large}, shapes \in {Only(Plain), Both(Plain, Other)}}
    \cup {[tree |-> TreeOf(Small, Both(Interesting[i], Interesting[j])), budget |-> 0] :
            <<i, j>> \in {<<i, j>> \in (DOMAIN Interesting) \X (DOMAIN Interesting) : i <= j}}
=============================================================================
