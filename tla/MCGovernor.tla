------------------------------ MODULE MCGovernor ------------------------------
(***************************************************************************)
(* Instances of Governor for TLC: many policies under a few requests, and  *)
(* two of them under many requests.  Masks have three bits, so 4 is the    *)
(* highest bit and 8 does not fit.                                         *)
(***************************************************************************)
EXTENDS Governor, TLC

\* The ones of a number of up to four bits; -1 is ones throughout.
Ones(n) ==
  IF n < 0 THEN Positions \cup {Sign} ELSE {i \in 0..3 : (n \div 2^i) % 2 = 1}

N(n) == Number(Ones(n))

MCNumerals == ("4" :> Ones(4)) @@ ("9" :> Ones(9))

X(stem) == Text(stem, "exact")

\* An explicit null or None, where a field that is left out would be accepted.
Null == <<"null">>

Pairs(names, values) ==
  LET entries == names \X values IN
  {Object(<<>>)} \cup {Object(<<e>>) : e \in entries}
    \cup {Object(<<e[1], e[2]>>) :
            e \in {e \in entries \X entries : e[1][1] # e[2][1]}}

Config(intents, allowUnknown, required) ==
  [intents |-> intents, allowUnknown |-> allowUnknown, required |-> required]

Main == Config(Object(<<<<Text("EXPORT", "lower"), N(5)>>,
                        <<X("READ"), N(0)>>>>), Missing, Missing)

Open == Config(Object(<<>>), Boolean(TRUE), N(4))

Bound == Object(<<<<X("main"), Main>>, <<X("open"), Open>>>>)

Vocabulary == Object(<<<<Text("AUTHN", "lower"), N(1)>>,
                       <<X("ATTEST"), N(4)>>>>)

Policy(evidenceBits, scopes) ==
  [version |-> X("v1"), defaultScope |-> X("main"),
   evidenceBits |-> evidenceBits, scopes |-> scopes]

BasePolicy == Policy(Vocabulary, Bound)

\* Policies that differ in one part from the base.
EvidencePolicies ==
  {Policy(e, Bound) : e \in {Missing} \cup
     Pairs({X("AUTHN"), Text("AUTHN", "lower"), X("ATTEST"), X("4"),
            Text("ATTEST", "padded"), EmptyText},
           {N(0), N(1), N(3), N(4), N(8), Fraction})}

RulePolicies ==
  {Policy(Vocabulary, Object(<<<<X("main"), Config(i, Missing, Missing)>>>>)) :
     i \in {Missing} \cup
       Pairs({X("EXPORT"), Text("EXPORT", "lower"), X("READ"),
              Text("READ", "padded")},
             {N(0), N(4), N(8), Boolean(TRUE)})}

ScopePolicies ==
  {[Policy(Vocabulary, Object(<<<<name, Config(Main.intents, a, d)>>>>))
      EXCEPT !.defaultScope = default] :
     name \in {X("main"), Text("main", "padded")},
     default \in {X("main"), Text("main", "lower"), Missing},
     a \in {Missing, Null, Boolean(TRUE), Boolean(FALSE), N(1)},
     d \in {Missing, Null, N(0), N(4), N(8), X("4")}}
  \cup {[BasePolicy EXCEPT !.version = v] : v \in {Missing, EmptyText, N(1)}}
  \cup {[BasePolicy EXCEPT !.scopes = v] : v \in {Missing, Object(<<>>)}}

MCEdits == {Policy(Object(<<>>), Object(<<<<X("main"), Open>>>>))}

FewPolicies == {BasePolicy} \cup MCEdits

ManyPolicies ==
  EvidencePolicies \cup RulePolicies \cup ScopePolicies \cup FewPolicies

Request(intent, scope, version, evidence) ==
  [intent_id |-> intent, intent |-> Missing, action |-> Missing,
   scope |-> scope, version |-> version, evidence |-> evidence]

FewRequests ==
  {Request(i, Missing, Missing, e) :
     i \in {X("EXPORT"), X("READ"), X("OTHER")},
     e \in {Missing, N(4), N(5), Text("AUTHN", "lower"),
            List(<<X("ATTEST"), X("AUTHN")>>)}}

Intents == {X("EXPORT"), Text("EXPORT", "padded"), X("READ"), X("OTHER"),
            EmptyText, Text("", "padded"), Missing, N(0), Boolean(TRUE),
            NaN, List(<<>>)}

Scopes == {Missing, EmptyText, X("main"), Text("main", "lower"), X("open"),
           Text("open", "padded"), N(1), Boolean(FALSE), NaN, List(<<>>)}

Versions == {Missing, EmptyText, X("v1"), X("v2"), Boolean(FALSE), List(<<>>)}

Items == {X("AUTHN"), Text("ATTEST", "padded"), X("OTHER"), X("4"), N(1)}

Presentations ==
  {N(n) : n \in -1..8}
    \cup {Missing, Fraction, NaN, Boolean(TRUE), Object(<<>>), EmptyText,
          Text("4", "padded"), X("9"), X("AUTHN"), Text("ATTEST", "lower"),
          X("OTHER"), List(<<>>)}
    \cup {List(<<i>>) : i \in Items} \cup {List(<<i, j>>) : i, j \in Items}

\* Another field of the request holds an intent.
Aliased ==
  {[Request(i, Missing, Missing, N(5)) EXCEPT !.intent = j, !.action = k] :
     i \in {Missing, EmptyText, X("READ")}, j \in {Missing, X("EXPORT")},
     k \in {Missing, X("OTHER")}}

ManyRequests ==
  {Request(i, s, v, N(5)) : i \in Intents, s \in Scopes, v \in Versions}
    \cup {Request(i, s, Missing, e) :
            i \in {X("EXPORT"), X("READ"), X("OTHER")},
            s \in {Missing, X("open")}, e \in Presentations}
    \cup Aliased

MCRequests ==
  [p \in ManyPolicies |-> IF p \in FewPolicies THEN ManyRequests ELSE FewRequests]

\* Requests whose intent_id is a list or an object.
NonTextRequests ==
  [p \in FewPolicies |->
    {[Request(i, Missing, Missing, N(5)) EXCEPT !.intent = X("EXPORT")] :
       i \in {List(<<>>), Object(<<>>), List(<<X("EXPORT")>>)}}]

=============================================================================
