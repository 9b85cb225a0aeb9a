---------------------------- MODULE ModuleProofs ----------------------------
(***************************************************************************)
(* Proofs about the parts of a module: Calls, how functions are declared   *)
(* and found, Body, the code generated for them, Expr, the folding of      *)
(* expressions, and the three together.                                    *)
(*                                                                         *)
(* For any declarations, calls and scopes, the scopes and the module's     *)
(* list hold every function once, an overload set never holds two          *)
(* functions that cannot be told apart, an accepted module has all its     *)
(* functions defined, a signature stays as calls were bound against it,    *)
(* and a call of an overloaded name is bound to the best of the functions  *)
(* that take its arguments, whatever their order.                          *)
(*                                                                         *)
(* For bodies of any length and nesting, the code runs as the body is      *)
(* written, and every block ends with its only terminator.                 *)
(*                                                                         *)
(* For integers of any widths and expressions of any size, folding does    *)
(* not change the value of an expression, and the operands of an operator  *)
(* are of one kind and width, the named known cases apart.                 *)
(***************************************************************************)
EXTENDS MCModule, FoldTheorems, SequenceTheorems

-----------------------------------------------------------------------------
(* What the variables hold                                                 *)

Types    == (UNION {{d.items[i].type : i \in DOMAIN d.items} : d \in Declarations})
            \cup {Compound(o) : o \in Objects}
Defaults == (UNION {{d.items[i].default : i \in DOMAIN d.items} : d \in Declarations})
            \cup {NoDefault}
Param     == [type : Types, mode : Modes, default : Defaults]
Signature == [params : Seq(Param), varargs : BOOLEAN, ret : {d.ret : d \in Declarations}]
Function  == [owner : Owners, name : Names, sig : Signature, external : BOOLEAN, has_body : BOOLEAN]
Kinds     == {"none", "var", "func", "overload"}
Keys      == Owners \X Names

(* Every function is found under its own name, once, and only there.       *)
ScopeInv ==
  /\ funcs \in Seq(Function)
  /\ scope \in [Keys -> [kind : Kinds, funcs : Seq(Nat)]]
  /\ \A k \in Keys : \A n \in DOMAIN scope[k].funcs :
       LET i == scope[k].funcs[n]
       IN  i \in DOMAIN funcs /\ k = <<funcs[i].owner, funcs[i].name>>
  /\ \A i \in DOMAIN funcs :
       \E n \in DOMAIN scope[<<funcs[i].owner, funcs[i].name>>].funcs :
         scope[<<funcs[i].owner, funcs[i].name>>].funcs[n] = i
  /\ \A k \in Keys : \A m, n \in DOMAIN scope[k].funcs :
       scope[k].funcs[m] = scope[k].funcs[n] => m = n
  /\ \A k \in Keys : /\ scope[k].kind \in {"none", "var"} <=> scope[k].funcs = <<>>
                     /\ scope[k].kind = "func" => Len(scope[k].funcs) = 1

(* The module lists every name of a function once.                         *)
ListInv ==
  /\ declarations \in Seq(Keys)
  /\ \A k \in Keys : scope[k].funcs # <<>> => k \in ToSet(declarations)
  /\ \A k \in ToSet(declarations) : scope[k] # Undeclared
  /\ Cardinality(ToSet(declarations)) = Len(declarations)

(* One thing is read at a time: a declaration, a body, or neither.         *)
TextInv ==
  /\ reading \in 0..Len(funcs)
  /\ reading # 0 => ~funcs[reading].external /\ text = NoText /\ ~ended
  /\ DOMAIN signature = {"params", "default_seen", "ok", "reports"}
  /\ signature.params \in Seq(Param)
  /\ text # NoText => /\ text \in Declarations /\ ~ended /\ call = NoCall
                      /\ ahead \in 1..(Entries + 1) /\ Len(signature.params) < ahead
  /\ accepted \in BOOLEAN /\ ended \in BOOLEAN

CallInv ==
  /\ call.outcome \in {"none", "bound", "refused", "ambiguous", "no match"}
  /\ call.set # <<>> => reading # 0
  /\ BestOverload

CInv == ScopeInv /\ ListInv /\ TextInv /\ SetsAreDistinct /\ AllDefined /\ CallInv

-----------------------------------------------------------------------------
(* Declarations                                                            *)

LEMMA ItemSequence ==
  ASSUME NEW d \in Declarations
  PROVE  Len(d.items) \in Nat /\ DOMAIN d.items = 1..Len(d.items)
<1>1. d.items \in Seq(Range(d.items))
  BY DeclarationsAssumption
<1> QED
  BY <1>1

(* With the ellipsis a list has one entry more.                            *)
LEMMA OneMore ==
  ASSUME NEW s, NEW b, Len(s) \in Nat
  PROVE  Len(s) + (IF b THEN 1 ELSE 0) \in {Len(s), Len(s) + 1}
OBVIOUS

(* What is known of the parameters as they are written.                    *)
LEMMA TypesAreWritten ==
  /\ \A t \in Types : t.kind \in WrittenKinds
  /\ \A d \in Declarations : \A i \in 1..Len(d.items) :
       d.items[i].type \in Types /\ d.items[i].default \in Defaults /\ d.items[i].mode \in Modes
<1>1. \A o \in Objects : Compound(o).kind \in WrittenKinds
  BY DEF Compound, WrittenKinds
<1>2. \A d \in Declarations : DOMAIN d.items = 1..Len(d.items)
  BY ItemSequence
<1>3. ASSUME NEW d \in Declarations, NEW i \in 1..Len(d.items)
      PROVE  d.items[i].type \in Types /\ d.items[i].default \in Defaults
  BY <1>2 DEF Types, Defaults
<1>4. \A t \in Types : t.kind \in WrittenKinds
  BY <1>1, DeclarationsAssumption DEF Types
<1> QED
  BY <1>2, <1>3, <1>4, DeclarationsAssumption

(* A signature that was read to its end.                                   *)
LEMMA SigType ==
  ASSUME NEW d \in Declarations, signature.params \in Seq(Param)
  PROVE  Sig(d) \in Signature
<1>1. Receiver(d.owner) \in Seq(Param)
  <2>1. CASE d.owner = Module
    BY <2>1 DEF Receiver
  <2>2. CASE d.owner # Module
    <3>1. d.owner \in Objects
      BY <2>2, DeclarationsAssumption DEF Owners
    <3>2. [type |-> Compound(d.owner), mode |-> "ref", default |-> NoDefault] \in Param
      BY <3>1 DEF Param, Types, Modes, Defaults
    <3> QED
      BY <2>2, <3>2 DEF Receiver
  <2> QED
    BY <2>1, <2>2
<1>2. Receiver(d.owner) \o signature.params \in Seq(Param)
  <2> DEFINE r == Receiver(d.owner)
  <2>1. r \in Seq(Param) /\ signature.params \in Seq(Param)
    BY <1>1
  <2> HIDE DEF r
  <2>2. r \o signature.params \in Seq(Param)
    BY <2>1, ConcatProperties
  <2> QED
    BY <2>2 DEF r
<1>3. d.varargs \in BOOLEAN
  BY DeclarationsAssumption
<1> QED
  BY <1>2, <1>3 DEF Sig, Signature

(* The steps that read a declaration do not touch what is declared.        *)
LEMMA BeginText ==
  ASSUME CInv, NEW d \in Declarations, BeginDecl(d)
  PROVE  CInv'
<1>. /\ funcs' = funcs /\ scope' = scope /\ declarations' = declarations
     /\ reading' = reading /\ accepted' = accepted /\ ended' = ended
     /\ text' = d /\ ahead' = 1 /\ signature' = NoSignature /\ call' = NoCall
     /\ reading = 0 /\ ~ended
  BY DEF BeginDecl, symbols
<1>1. ScopeInv'
  <2>1. funcs' = funcs /\ scope' = scope
    OBVIOUS
  <2>2. ScopeInv
    BY DEF CInv
  <2> QED
    BY ONLY <2>1, <2>2 DEF ScopeInv
<1>10. ListInv'
  BY DEF CInv, ListInv, ToSet, Undeclared, Meaning
<1>2. TextInv'
  <2>1. Entries' \in Nat
    <3>1. Len(d.items) \in Nat
      BY ItemSequence
    <3>2. Entries' \in {Len(d.items), Len(d.items) + 1}
      BY <3>1, OneMore, Zenon DEF Entries
    <3> QED
      BY <3>1, <3>2
  <2>2. /\ DOMAIN signature' = {"params", "default_seen", "ok", "reports"}
        /\ signature'.params \in Seq(Param) /\ Len(signature'.params) = 0
    <3>1. signature'.params = <<>> /\ DOMAIN signature' = {"params", "default_seen", "ok", "reports"}
      BY DEF NoSignature
    <3> QED
      BY <3>1
  <2>3. ahead' \in 1..(Entries' + 1)
    <3>1. \A n \in Nat : 1 \in 1..(n + 1)
      OBVIOUS
    <3> QED
      BY <2>1, <3>1, Zenon
  <2>4. Len(signature'.params) < ahead'
    BY <2>2
  <2> QED
    BY <2>2, <2>3, <2>4 DEF CInv, TextInv
<1>3. SetsAreDistinct' /\ AllDefined'
  BY DEF CInv, SetsAreDistinct, FuncsOf, AllDefined, IsForwardDecl
<1>4. CallInv'
  BY DEF CallInv, NoCall, BestOverload
<1> QED
  BY <1>1, <1>10, <1>2, <1>3, <1>4 DEF CInv

(* The next entry of a list, or the report that a comma is missing.        *)
LEMMA ReadText ==
  ASSUME CInv, ReadSignature
  PROVE  CInv'
<1>. /\ funcs' = funcs /\ scope' = scope /\ declarations' = declarations
     /\ reading' = reading /\ accepted' = accepted /\ ended' = ended
     /\ text' = text /\ call' = call /\ text # NoText
     /\ ReportName \/ SkipParam \/ ReadParam \/ ReadEllipsis
  BY DEF ReadSignature, symbols
<1>1. ScopeInv'
  BY DEF CInv, ScopeInv
<1>10. ListInv'
  BY DEF CInv, ListInv, ToSet, Undeclared, Meaning
<1>2. TextInv'
  <2>1. /\ text \in Declarations /\ ahead \in 1..(Entries + 1) /\ Len(signature.params) < ahead
        /\ signature.params \in Seq(Param) /\ Entries' = Entries
        /\ DOMAIN signature = {"params", "default_seen", "ok", "reports"}
    BY DEF CInv, TextInv, Entries
  <2>2. Len(text.items) \in Nat /\ Entries \in Nat /\ Len(text.items) =< Entries
    <3>1. Len(text.items) \in Nat
      BY <2>1, ItemSequence
    <3>2. Entries \in {Len(text.items), Len(text.items) + 1}
      BY <3>1, OneMore, Zenon DEF Entries
    <3> QED
      BY <3>1, <3>2
  <2>3. /\ ahead' \in 1..(Entries + 1) /\ Len(signature'.params) < ahead'
        /\ signature'.params \in Seq(Param)
        /\ DOMAIN signature' = {"params", "default_seen", "ok", "reports"}
    <3>1. CASE ReportName
      BY <2>1, <2>2, <3>1 DEF ReportName
    <3>2. CASE SkipParam
      BY <2>1, <2>2, <3>2 DEF SkipParam, AtItem
    <3>3. CASE ReadParam
      <4>1. PICK p \in Param : /\ signature'.params = Append(signature.params, p)
                               /\ DOMAIN signature' = DOMAIN signature
                               /\ ahead <= Len(text.items) /\ ahead' = ahead + 1
        <5> DEFINE item  == text.items[ahead]
                   tried == item.default # NoDefault /\ ~IsRefLike(item) /\ SupportsFuncParamDefaultType(item.type)
                   taken == tried /\ item.fault # "default"
                   p == [type |-> item.type, mode |-> item.mode, default |-> IF taken THEN item.default ELSE NoDefault]
        <5>1. ahead <= Len(text.items) /\ ahead' = ahead + 1 /\ ahead \in 1..Len(text.items)
          BY <2>1, <2>2, <3>3 DEF ReadParam, AtItem
        <5>2. item.type \in Types /\ item.mode \in Modes /\ item.default \in Defaults /\ NoDefault \in Defaults
          BY <2>1, <5>1, TypesAreWritten DEF Defaults
        <5>3. p \in Param
          <6> HIDE DEF item, taken
          <6> QED
            BY <5>2 DEF Param
        <5>4. signature'.params = Append(signature.params, p) /\ DOMAIN signature' = DOMAIN signature
          BY <2>1, <3>3 DEF ReadParam
        <5> QED
          BY <5>1, <5>3, <5>4
      <4> QED
        BY <2>1, <2>2, <4>1
    <3>4. CASE ReadEllipsis
      BY <2>1, <2>2, <3>4 DEF ReadEllipsis, AtEllipsis
    <3> QED
      BY <3>1, <3>2, <3>3, <3>4
  <2> QED
    BY <2>1, <2>3 DEF CInv, TextInv
<1>3. SetsAreDistinct' /\ AllDefined'
  BY DEF CInv, SetsAreDistinct, FuncsOf, AllDefined, IsForwardDecl
<1>4. CallInv'
  BY DEF CInv, CallInv, TextInv, NoCall, BestOverload
<1> QED
  BY <1>1, <1>10, <1>2, <1>3, <1>4 DEF CInv

(* Where no call was just read there is nothing to ask of it.              *)
LEMMA NoCallIsRight ==
  ASSUME call' = NoCall
  PROVE  CallInv'
BY DEF CallInv, NoCall, BestOverload

(* The end of a declaration, whatever becomes of it.                       *)
LEMMA FinishedText ==
  ASSUME CInv, FinishDecl
  PROVE  /\ text \in Declarations /\ reading = 0 /\ ~ended /\ ended' = ended /\ call' = NoCall
         /\ text' = NoText /\ Sig(text) \in Signature
         /\ DOMAIN signature' = {"params", "default_seen", "ok", "reports"}
         /\ signature'.params \in Seq(Param)
<1>1. text # NoText /\ text' = NoText /\ signature' = NoSignature /\ call' = call /\ ended' = ended
  BY DEF FinishDecl, SignatureRead
<1>2. text \in Declarations /\ reading = 0 /\ ~ended /\ call = NoCall /\ signature.params \in Seq(Param)
  BY <1>1 DEF CInv, TextInv
<1>3. signature'.params = <<>> /\ DOMAIN signature' = {"params", "default_seen", "ok", "reports"}
  BY <1>1 DEF NoSignature
<1> QED
  BY <1>1, <1>2, <1>3, SigType

(* A declaration that is dropped changes nothing but the verdict.          *)
LEMMA RefuseText ==
  ASSUME CInv, FinishDecl, RefuseDecl(text)
  PROVE  CInv'
<1>. /\ funcs' = funcs /\ scope' = scope /\ declarations' = declarations /\ reading' = reading
     /\ accepted' \in BOOLEAN
  BY DEF RefuseDecl, ErrorIf
<1>1. ScopeInv'
  BY DEF CInv, ScopeInv
<1>2. ListInv'
  BY DEF CInv, ListInv, ToSet, Undeclared, Meaning
<1>3. TextInv'
  BY FinishedText DEF CInv, TextInv
<1>4. SetsAreDistinct' /\ AllDefined'
  BY FinishedText DEF CInv, SetsAreDistinct, FuncsOf, AllDefined, IsForwardDecl
<1>5. CallInv'
  BY FinishedText, NoCallIsRight
<1> QED
  BY <1>1, <1>2, <1>3, <1>4, <1>5 DEF CInv

-----------------------------------------------------------------------------
(* The end of the module                                                   *)

LEMMA EndText ==
  ASSUME CInv, EndModule
  PROVE  CInv'
<1>. /\ funcs' = funcs /\ scope' = scope /\ declarations' = declarations /\ reading' = reading
     /\ text' = text /\ signature' = signature /\ ahead' = ahead
     /\ text = NoText /\ reading = 0 /\ call' = NoCall /\ ended' \in BOOLEAN
  BY DEF EndModule, symbols, lexer
<1>1. ScopeInv'
  BY DEF CInv, ScopeInv
<1>2. ListInv'
  BY DEF CInv, ListInv, ToSet, Undeclared, Meaning
<1>3. TextInv'
  BY DEF CInv, TextInv, EndModule, ErrorIf
<1>4. SetsAreDistinct'
  BY DEF CInv, SetsAreDistinct, FuncsOf
<1>5. AllDefined'
  <2>1. ASSUME NEW i \in DOMAIN funcs, accepted', IsForwardDecl(funcs[i])
        PROVE  FALSE
    <3> DEFINE k == <<funcs[i].owner, funcs[i].name>>
    <3>1. k \in Keys
      <4>1. funcs[i] \in Function
        BY DEF CInv, ScopeInv
      <4> QED
        BY <4>1 DEF Function, Keys
    <3>2. PICK n \in DOMAIN scope[k].funcs : scope[k].funcs[n] = i
      BY DEF CInv, ScopeInv
    <3>3. scope[k].funcs # <<>> /\ i \in ToSet(scope[k].funcs)
      BY <3>2 DEF ToSet
    <3>4. k \in ToSet(declarations)
      BY <3>1, <3>3 DEF CInv, ListInv
    <3> HIDE DEF k
    <3>5. \A j \in ToSet(scope[k].funcs) : ~IsForwardDecl(funcs[j])
      BY <2>1, <3>4 DEF EndModule, ErrorIf
    <3> QED
      BY <2>1, <3>3, <3>5
  <2> QED
    BY <2>1 DEF AllDefined, IsForwardDecl
<1>6. CallInv'
  BY NoCallIsRight
<1> QED
  BY <1>1, <1>2, <1>3, <1>4, <1>5, <1>6 DEF CInv

-----------------------------------------------------------------------------
(* Functions that are changed but keep their names and parameters          *)

SameFuncs ==
  /\ funcs' \in Seq(Function) /\ Len(funcs') = Len(funcs)
  /\ scope' = scope /\ declarations' = declarations
  /\ \A i \in DOMAIN funcs : /\ funcs'[i].owner = funcs[i].owner /\ funcs'[i].name = funcs[i].name
                             /\ funcs'[i].sig.ret = funcs[i].sig.ret
                             /\ funcs'[i].sig.varargs = funcs[i].sig.varargs
                             /\ Len(funcs'[i].sig.params) = Len(funcs[i].sig.params)
                             /\ \A n \in 1..Len(funcs[i].sig.params) :
                                  funcs'[i].sig.params[n].type = funcs[i].sig.params[n].type

(* Then every function is where it was, and no two become alike.           *)
LEMMA SameFuncsKeep ==
  ASSUME CInv, SameFuncs
  PROVE  ScopeInv' /\ ListInv' /\ SetsAreDistinct'
<1>1. DOMAIN funcs' = DOMAIN funcs /\ scope' = scope /\ declarations' = declarations
  BY DEF CInv, ScopeInv, SameFuncs
<1>2. ScopeInv'
  <2>1. \A i \in DOMAIN funcs : <<funcs'[i].owner, funcs'[i].name>> = <<funcs[i].owner, funcs[i].name>>
    BY DEF SameFuncs
  <2>2. /\ \A k \in Keys : \A n \in DOMAIN scope[k].funcs :
             LET i == scope[k].funcs[n]
             IN  i \in DOMAIN funcs' /\ k = <<funcs'[i].owner, funcs'[i].name>>
        /\ \A i \in DOMAIN funcs' :
             \E n \in DOMAIN scope[<<funcs'[i].owner, funcs'[i].name>>].funcs :
               scope[<<funcs'[i].owner, funcs'[i].name>>].funcs[n] = i
    BY <1>1, <2>1 DEF CInv, ScopeInv
  <2> QED
    BY <1>1, <2>2 DEF CInv, ScopeInv, SameFuncs
<1>3. ListInv'
  BY <1>1 DEF CInv, ListInv, ToSet, Undeclared, Meaning
<1>4. SetsAreDistinct'
  <2>1. ASSUME NEW k \in Keys, NEW i \in FuncsOf(k), NEW j \in FuncsOf(k), i # j
        PROVE  /\ funcs'[i].sig.ret = funcs'[j].sig.ret
               /\ ~MatchesOverloadDeclIdentity(funcs'[i].sig, funcs'[j].sig)
    <3>1. i \in DOMAIN funcs /\ j \in DOMAIN funcs
      BY <2>1 DEF CInv, ScopeInv, FuncsOf, ToSet
    <3>2. /\ funcs[i].sig.ret = funcs[j].sig.ret
          /\ ~MatchesOverloadDeclIdentity(funcs[i].sig, funcs[j].sig)
      BY <2>1 DEF CInv, SetsAreDistinct, ScopeInv
    <3> QED
      BY <3>1, <3>2 DEF SameFuncs, MatchesOverloadDeclIdentity, AlikeIn
  <2>2. DOMAIN scope' = Keys /\ \A k \in Keys : FuncsOf(k)' = FuncsOf(k)
    BY <1>1 DEF CInv, ScopeInv, FuncsOf
  <2> QED
    BY <2>1, <2>2 DEF SetsAreDistinct
<1> QED
  BY <1>2, <1>3, <1>4

(* A function gets its body, and keeps everything else.                    *)
LEMMA EndOfBody ==
  ASSUME CInv, EndBody
  PROVE  /\ CInv'
         /\ \A i \in DOMAIN funcs : /\ funcs'[i].sig = funcs[i].sig
                                    /\ funcs[i].has_body => funcs'[i] = funcs[i]
<1>1. /\ scope' = scope /\ declarations' = declarations /\ text' = text /\ signature' = signature
      /\ ahead' = ahead /\ accepted' = accepted /\ ended' = ended /\ call' = NoCall
      /\ reading # 0 /\ reading' = 0
      /\ funcs' = [funcs EXCEPT ![reading] = [@ EXCEPT !.has_body = TRUE]]
  BY DEF EndBody, lexer
<1>2. /\ reading \in DOMAIN funcs /\ text = NoText /\ ~ended
      /\ funcs \in Seq(Function) /\ DOMAIN funcs = 1..Len(funcs) /\ Len(funcs) \in Nat
  BY <1>1 DEF CInv, TextInv, ScopeInv
<1>3. ASSUME NEW i \in DOMAIN funcs
      PROVE  /\ funcs'[i] \in Function
             /\ funcs'[i].owner = funcs[i].owner /\ funcs'[i].name = funcs[i].name
             /\ funcs'[i].sig = funcs[i].sig
             /\ funcs[i].has_body => funcs'[i] = funcs[i]
  <2>1. funcs[i] \in Function
    BY <1>2
  <2>2. CASE i = reading
    <3>1. funcs'[i] = [funcs[i] EXCEPT !.has_body = TRUE]
      BY <1>1, <1>2, <2>2
    <3> QED
      BY <2>1, <3>1 DEF Function
  <2>3. CASE i # reading
    BY <1>1, <1>2, <2>1, <2>3
  <2> QED
    BY <2>2, <2>3
<1>4. funcs' \in Seq(Function) /\ Len(funcs') = Len(funcs)
  <2>1. DOMAIN funcs' = 1..Len(funcs) /\ \A i \in 1..Len(funcs) : funcs'[i] \in Function
    BY <1>1, <1>2, <1>3
  <2>2. funcs' = [i \in 1..Len(funcs) |-> funcs'[i]]
    BY <1>1, <1>2
  <2> QED
    BY <1>2, <2>1, <2>2
<1>5. SameFuncs
  BY <1>1, <1>2, <1>3, <1>4 DEF SameFuncs
<1>6. TextInv'
  BY <1>1, <1>2, <1>4 DEF CInv, TextInv
<1>7. AllDefined' /\ CallInv'
  BY <1>1, <1>2, NoCallIsRight DEF AllDefined
<1> QED
  BY <1>3, <1>5, <1>6, <1>7, SameFuncsKeep DEF CInv

(* The earlier declaration is one of the functions of the name; without    *)
(* one, none of an overload set has the same types.                        *)
LEMMA EarlierIs ==
  ASSUME ScopeInv, NEW d \in Declarations
  PROVE  /\ Earlier(d) # 0 => Earlier(d) \in FuncsOf(<<d.owner, d.name>>) /\ Earlier(d) \in DOMAIN funcs
         /\ Existing(d).kind = "func" => Earlier(d) # 0
         /\ Earlier(d) = 0 /\ Existing(d).kind = "overload" =>
              \A i \in FuncsOf(<<d.owner, d.name>>) : ~MatchesOverloadDeclIdentity(funcs[i].sig, Sig(d))
<1> DEFINE k == <<d.owner, d.name>>
           set == scope[k].funcs
<1>1. k \in Keys /\ Existing(d) = scope[k] /\ FuncsOf(k) = {set[n] : n \in DOMAIN set}
  BY DeclarationsAssumption DEF Keys, Existing, FuncsOf, ToSet
<1>2. /\ set \in Seq(Nat) /\ \A n \in DOMAIN set : set[n] \in DOMAIN funcs
      /\ scope[k].kind = "func" => Len(set) = 1
      /\ scope[k].kind \in Kinds
  BY <1>1 DEF ScopeInv
<1>3. /\ DOMAIN set \in SUBSET Nat
      /\ DOMAIN funcs = 1..Len(funcs) /\ Len(funcs) \in Nat
  <2>1. DOMAIN set = 1..Len(set) /\ Len(set) \in Nat
    BY <1>2
  <2> QED
    BY <2>1 DEF ScopeInv
<1>4. CASE scope[k].kind = "func"
  <2>1. Earlier(d) = set[1] /\ 1 \in DOMAIN set
    BY <1>1, <1>2, <1>4 DEF Earlier
  <2> QED
    BY <1>1, <1>2, <1>3, <1>4, <2>1
<1>5. CASE scope[k].kind = "overload"
  <2> DEFINE found == {n \in DOMAIN set : MatchesOverloadDeclIdentity(funcs[set[n]].sig, Sig(d))}
  <2>1. Earlier(d) = IF found = {} THEN 0 ELSE set[Min(found)]
    BY <1>1, <1>5 DEF Earlier, FindMatchingOverloadDecl
  <2>2. found \in SUBSET Nat
    BY <1>3
  <2>3. found # {} => Min(found) \in found
    <3> HIDE DEF found
    <3> QED
      BY <2>2, MinOf
  <2>4. CASE found = {}
    <3>1. Earlier(d) = 0 /\ \A n \in DOMAIN set : ~MatchesOverloadDeclIdentity(funcs[set[n]].sig, Sig(d))
      BY <2>1, <2>4
    <3> QED
      BY <1>1, <1>5, <3>1
  <2>5. CASE found # {}
    <3>1. Earlier(d) = set[Min(found)] /\ Min(found) \in DOMAIN set
      BY <2>1, <2>3, <2>5
    <3> HIDE DEF set, found
    <3>2. Earlier(d) \in FuncsOf(k) /\ Earlier(d) \in DOMAIN funcs
      BY <1>1, <1>2, <3>1
    <3>3. Earlier(d) # 0 /\ Existing(d).kind # "func"
      BY <1>1, <1>3, <1>5, <3>2
    <3> QED
      BY <3>2, <3>3
  <2> QED
    BY <2>4, <2>5
<1>6. CASE scope[k].kind \notin {"func", "overload"}
  <2>1. Earlier(d) = 0
    BY <1>1, <1>6 DEF Earlier
  <2> QED
    BY <1>1, <1>6, <2>1
<1> QED
  BY <1>4, <1>5, <1>6

(* What is left of a forward declaration when it is filled.                *)
LEMMA Merged ==
  ASSUME NEW d \in Declarations, NEW f \in Function, Sig(d) \in Signature, CheckForwardDeclMatch(f, d)
  PROVE  LET m == MergeForwardDeclFrom(f, d)
         IN  /\ m \in Function /\ m.owner = f.owner /\ m.name = f.name
             /\ m.external = d.external /\ m.has_body = f.has_body
             /\ m.sig.ret = f.sig.ret /\ m.sig.varargs = f.sig.varargs
             /\ Len(m.sig.params) = Len(f.sig.params)
             /\ \A n \in 1..Len(f.sig.params) :
                  /\ m.sig.params[n].type = f.sig.params[n].type
                  /\ m.sig.params[n].mode = f.sig.params[n].mode
                  /\ f.sig.params[n].default \in {NoDefault, m.sig.params[n].default}
<1> DEFINE old == f.sig.params
           new == Sig(d).params
           ps  == MergeDefaults(old, new)
           m   == MergeForwardDeclFrom(f, d)
<1>1. f.sig \in Signature /\ old \in Seq(Param) /\ new \in Seq(Param) /\ Len(old) = Len(new)
      /\ Len(old) \in Nat
  BY DEF Function, Signature, CheckForwardDeclMatch, MatchesSignature, AlikeIn
<1>2. ps = [i \in 1..Len(old) |-> [old[i] EXCEPT !.default = IF @ = NoDefault THEN new[i].default ELSE @]]
  BY DEF MergeDefaults
<1>3. ASSUME NEW n \in 1..Len(old)
      PROVE  /\ ps[n] \in Param
             /\ ps[n].type = old[n].type /\ ps[n].mode = old[n].mode
             /\ old[n].default \in {NoDefault, ps[n].default}
  <2>1. old[n] \in Param /\ new[n] \in Param
    BY <1>1
  <2>2. ps[n] = [old[n] EXCEPT !.default = IF old[n].default = NoDefault THEN new[n].default ELSE old[n].default]
    BY <1>2
  <2> HIDE DEF old, new, ps
  <2> QED
    BY <2>1, <2>2 DEF Param
<1>4. ps \in Seq(Param) /\ Len(ps) = Len(old)
  <2> HIDE DEF ps, old, new
  <2>1. \A n \in 1..Len(old) : ps[n] \in Param
    BY <1>3
  <2>2. ps = [n \in 1..Len(old) |-> ps[n]]
    BY <1>2
  <2> QED
    BY <1>1, <2>1, <2>2
<1>5. m = [f EXCEPT !.sig = [@ EXCEPT !.params = ps], !.external = d.external]
  BY DEF MergeForwardDeclFrom
<1>6. d.external \in BOOLEAN
  BY DeclarationsAssumption
<1>7. /\ m.sig = [f.sig EXCEPT !.params = ps] /\ m.external = d.external
      /\ m.owner = f.owner /\ m.name = f.name /\ m.has_body = f.has_body
  <2> HIDE DEF ps, m
  <2> QED
    BY <1>5 DEF Function
<1>8. /\ m.sig.params = ps /\ m.sig.ret = f.sig.ret /\ m.sig.varargs = f.sig.varargs
      /\ m.sig \in Signature
  <2> HIDE DEF ps, m, old
  <2> QED
    BY <1>1, <1>4, <1>7 DEF Signature
<1>9. m \in Function
  <2> HIDE DEF ps, m, old
  <2> QED
    BY <1>5, <1>6, <1>7, <1>8 DEF Function
<1> HIDE DEF ps, m, old, new
<1>10. /\ Len(m.sig.params) = Len(old)
       /\ \A n \in 1..Len(old) : /\ m.sig.params[n].type = old[n].type
                                 /\ m.sig.params[n].mode = old[n].mode
                                 /\ old[n].default \in {NoDefault, m.sig.params[n].default}
  BY <1>3, <1>4, <1>8
<1> QED
  BY <1>7, <1>8, <1>9, <1>10 DEF m, old

(* A forward declaration that is filled keeps what calls were bound        *)
(* against.                                                                *)
LEMMA FilledText ==
  ASSUME CInv, FinishDecl, FillForwardDecl(text)
  PROVE  /\ CInv'
         /\ \A i \in DOMAIN funcs : /\ SignatureKept(funcs[i].sig, funcs'[i].sig)
                                    /\ funcs[i].has_body => funcs'[i] = funcs[i]
<1> DEFINE d == text
           e == Earlier(text)
           m == MergeForwardDeclFrom(funcs[e], d)
<1>1. /\ scope' = scope /\ declarations' = declarations
      /\ reading' = (IF ReadsBody(d) THEN e ELSE 0) /\ accepted' \in BOOLEAN
      /\ ~Refused(d) /\ e # 0
      /\ funcs' = [funcs EXCEPT ![e] = m]
  BY DEF FillForwardDecl, ErrorIf
<1>2. /\ d \in Declarations /\ reading = 0 /\ ~ended /\ ended' = ended /\ call' = NoCall
      /\ text' = NoText /\ Sig(d) \in Signature
  BY FinishedText
<1>3. /\ e \in DOMAIN funcs /\ funcs \in Seq(Function)
      /\ DOMAIN funcs = 1..Len(funcs) /\ Len(funcs) \in Nat
  <2>1. ScopeInv /\ d \in Declarations /\ e # 0
    BY <1>1, <1>2 DEF CInv
  <2>2. e \in DOMAIN funcs
    BY <2>1, EarlierIs
  <2> QED
    BY <2>1, <2>2 DEF ScopeInv
<1>4. funcs[e] \in Function /\ IsForwardDecl(funcs[e]) /\ CheckForwardDeclMatch(funcs[e], d)
  BY <1>1, <1>3 DEF Refused
<1>5. /\ m \in Function /\ m.owner = funcs[e].owner /\ m.name = funcs[e].name
      /\ m.external = d.external /\ m.has_body = funcs[e].has_body
      /\ m.sig.ret = funcs[e].sig.ret /\ m.sig.varargs = funcs[e].sig.varargs
      /\ Len(m.sig.params) = Len(funcs[e].sig.params)
      /\ \A n \in 1..Len(funcs[e].sig.params) :
           /\ m.sig.params[n].type = funcs[e].sig.params[n].type
           /\ m.sig.params[n].mode = funcs[e].sig.params[n].mode
           /\ funcs[e].sig.params[n].default \in {NoDefault, m.sig.params[n].default}
  BY <1>2, <1>4, Merged
<1> HIDE DEF m, e, d
<1>6. funcs'[e] = m /\ \A i \in DOMAIN funcs \ {e} : funcs'[i] = funcs[i]
  BY <1>1, <1>3
<1>7. funcs' \in Seq(Function) /\ Len(funcs') = Len(funcs)
  <2>1. DOMAIN funcs' = 1..Len(funcs) /\ \A i \in 1..Len(funcs) : funcs'[i] \in Function
    BY <1>1, <1>3, <1>5, <1>6
  <2>2. funcs' = [i \in 1..Len(funcs) |-> funcs'[i]]
    BY <1>1, <1>3
  <2> QED
    BY <1>3, <2>1, <2>2
<1>8. SameFuncs
  BY <1>1, <1>3, <1>5, <1>6, <1>7 DEF SameFuncs
<1>9. TextInv'
  <2>1. reading' \in 0..Len(funcs') /\ (reading' # 0 => ~funcs'[reading'].external)
    <3>1. CASE ReadsBody(d)
      <4>1. reading' = e /\ ~d.external
        BY <1>1, <3>1 DEF ReadsBody
      <4> QED
        BY <1>3, <1>5, <1>6, <1>7, <4>1
    <3>2. CASE ~ReadsBody(d)
      BY <1>1, <1>3, <1>7, <3>2
    <3> QED
      BY <3>1, <3>2
  <2> QED
    BY <1>1, <1>2, <2>1, FinishedText DEF CInv, TextInv
<1>10. AllDefined' /\ CallInv'
  BY <1>2, NoCallIsRight DEF AllDefined
<1>11. ASSUME NEW i \in DOMAIN funcs
       PROVE  /\ SignatureKept(funcs[i].sig, funcs'[i].sig)
              /\ funcs[i].has_body => funcs'[i] = funcs[i]
  <2>1. CASE i = e
    BY <1>4, <1>5, <1>6, <2>1 DEF SignatureKept, AlikeIn, IsForwardDecl
  <2>2. CASE i # e
    BY <1>6, <2>2 DEF SignatureKept, AlikeIn
  <2> QED
    BY <2>1, <2>2
<1> QED
  BY <1>8, <1>9, <1>10, <1>11, SameFuncsKeep DEF CInv

-----------------------------------------------------------------------------
(* A function that was not there before                                    *)

LEMMA IdentityIsMutual ==
  ASSUME NEW s, NEW t, MatchesOverloadDeclIdentity(s, t)
  PROVE  MatchesOverloadDeclIdentity(t, s)
BY DEF MatchesOverloadDeclIdentity, AlikeIn

(* The elements of a sequence are finitely many.                           *)
LEMMA FiniteToSet ==
  ASSUME NEW S, NEW s \in Seq(S)
  PROVE  IsFiniteSet(ToSet(s))
<1>1. Len(s) \in Nat /\ DOMAIN s = 1..Len(s)
  OBVIOUS
<1>2. s \in Surjection(1..Len(s), ToSet(s))
  BY <1>1 DEF Surjection, ToSet
<1>3. IsFiniteSet(1..Len(s))
  BY <1>1, FS_Interval
<1> QED
  BY <1>2, <1>3, FS_Surjection DEF ExistsSurjection

(* A new function is found under its name and listed; it differs from      *)
(* those of its set, and they stay as they are.                            *)
LEMMA DeclaredText ==
  ASSUME CInv, FinishDecl, DeclareFunction(text)
  PROVE  /\ CInv'
         /\ \A i \in DOMAIN funcs : i \in DOMAIN funcs' /\ funcs'[i] = funcs[i]
<1> DEFINE d == text
           i == Len(funcs) + 1
           k == <<d.owner, d.name>>
           f == [owner |-> d.owner, name |-> d.name, sig |-> Sig(d),
                 external |-> d.external, has_body |-> FALSE]
           new == Append(scope[k].funcs, i)
<1>1. /\ d \in Declarations /\ reading = 0 /\ ~ended /\ ended' = ended /\ call' = NoCall
      /\ text' = NoText /\ Sig(d) \in Signature
  BY FinishedText
<1>2. /\ k \in Keys /\ d.owner \in Owners /\ d.name \in Names
      /\ d.external \in BOOLEAN /\ d.overload \in BOOLEAN
  BY <1>1, DeclarationsAssumption DEF Keys
<1>3. /\ funcs' = Append(funcs, f)
      /\ scope' = [scope EXCEPT ![k] = Meaning(IF d.overload THEN "overload" ELSE "func", new)]
      /\ declarations' = declarations \o Listed(d)
      /\ reading' = (IF ReadsBody(d) THEN i ELSE 0) /\ accepted' \in BOOLEAN
      /\ ~Refused(d) /\ Earlier(d) = 0
  BY DEF DeclareFunction, ErrorIf, Added
<1>4. f \in Function
  BY <1>1, <1>2 DEF Function
<1>5. /\ funcs \in Seq(Function) /\ Len(funcs) \in Nat /\ DOMAIN funcs = 1..Len(funcs)
      /\ scope \in [Keys -> [kind : Kinds, funcs : Seq(Nat)]]
      /\ scope[k].funcs \in Seq(Nat)
      /\ DOMAIN scope[k].funcs = 1..Len(scope[k].funcs) /\ Len(scope[k].funcs) \in Nat
  BY <1>2 DEF CInv, ScopeInv
<1>6. /\ funcs' \in Seq(Function) /\ Len(funcs') = i /\ DOMAIN funcs' = 1..i
      /\ funcs'[i] = f /\ \A j \in DOMAIN funcs : j \in DOMAIN funcs' /\ j # i /\ funcs'[j] = funcs[j]
  <2> HIDE DEF f
  <2> QED
    BY <1>3, <1>4, <1>5
<1>7. /\ new \in Seq(Nat) /\ Len(new) = Len(scope[k].funcs) + 1 /\ DOMAIN new = 1..Len(new)
      /\ new[Len(new)] = i
      /\ \A n \in DOMAIN scope[k].funcs : n \in DOMAIN new /\ n # Len(new) /\ new[n] = scope[k].funcs[n]
      /\ \A n \in DOMAIN new : n = Len(new) \/ n \in DOMAIN scope[k].funcs
  BY <1>5
<1>8. /\ scope'[k].funcs = new /\ scope'[k].kind = (IF d.overload THEN "overload" ELSE "func")
      /\ \A x \in Keys \ {k} : scope'[x] = scope[x]
      /\ scope' \in [Keys -> [kind : Kinds, funcs : Seq(Nat)]]
  <2>1. Meaning(IF d.overload THEN "overload" ELSE "func", new) \in [kind : Kinds, funcs : Seq(Nat)]
    BY <1>2, <1>7 DEF Meaning, Kinds
  <2> HIDE DEF new, k
  <2> QED
    BY <1>2, <1>3, <1>5, <2>1 DEF Meaning
<1>9. /\ scope[k].kind \in {"none", "overload"}
      /\ scope[k].kind = "none" => scope[k].funcs = <<>>
      /\ scope[k].kind = "overload" => d.overload
  <2>1. Existing(d) = scope[k] /\ scope[k].kind \in Kinds
    BY <1>2, <1>5 DEF Existing
  <2>2. scope[k].kind # "func" /\ scope[k].kind # "var"
    BY <1>1, <1>3, <2>1, EarlierIs DEF CInv, Refused
  <2> QED
    BY <1>2, <1>3, <2>1, <2>2 DEF CInv, ScopeInv, Refused, Kinds
<1> HIDE DEF f, new, k, i, d
<1>10. ScopeInv'
  <2>1. ASSUME NEW x \in Keys, NEW n \in DOMAIN scope'[x].funcs
        PROVE  LET j == scope'[x].funcs[n]
               IN  j \in DOMAIN funcs' /\ x = <<funcs'[j].owner, funcs'[j].name>>
    <3>1. CASE x = k /\ n = Len(new)
      <4>1. scope'[x].funcs[n] = i /\ <<funcs'[i].owner, funcs'[i].name>> = k /\ i \in DOMAIN funcs'
        BY <1>5, <1>6, <1>7, <1>8, <3>1 DEF f, k, i
      <4> QED
        BY <3>1, <4>1
    <3>2. CASE x # k \/ n # Len(new)
      <4>1. n \in DOMAIN scope[x].funcs /\ scope'[x].funcs[n] = scope[x].funcs[n]
        BY <1>7, <1>8, <2>1, <3>2
      <4>2. scope[x].funcs[n] \in DOMAIN funcs
            /\ x = <<funcs[scope[x].funcs[n]].owner, funcs[scope[x].funcs[n]].name>>
        BY <2>1, <4>1 DEF CInv, ScopeInv
      <4> QED
        BY <1>6, <4>1, <4>2
    <3> QED
      BY <3>1, <3>2
  <2>2. ASSUME NEW j \in DOMAIN funcs'
        PROVE  \E n \in DOMAIN scope'[<<funcs'[j].owner, funcs'[j].name>>].funcs :
                 scope'[<<funcs'[j].owner, funcs'[j].name>>].funcs[n] = j
    <3>1. CASE j = i
      <4>1. <<funcs'[j].owner, funcs'[j].name>> = k
        BY <1>6, <3>1 DEF f, k
      <4>2. Len(new) \in DOMAIN scope'[k].funcs /\ scope'[k].funcs[Len(new)] = j
        BY <1>5, <1>7, <1>8, <3>1
      <4> QED
        BY <4>1, <4>2
    <3>2. CASE j # i
      <4> DEFINE x == <<funcs[j].owner, funcs[j].name>>
      <4>1. j \in DOMAIN funcs /\ <<funcs'[j].owner, funcs'[j].name>> = x
        BY <1>5, <1>6, <3>2 DEF i
      <4>2. x \in Keys
        <5>1. funcs[j] \in Function
          BY <1>5, <4>1
        <5> QED
          BY <5>1 DEF Function, Keys
      <4>3. PICK n \in DOMAIN scope[x].funcs : scope[x].funcs[n] = j
        BY <4>1 DEF CInv, ScopeInv
      <4> HIDE DEF x
      <4>4. n \in DOMAIN scope'[x].funcs /\ scope'[x].funcs[n] = j
        BY <1>7, <1>8, <4>2, <4>3
      <4> QED
        BY <4>1, <4>4
    <3> QED
      BY <3>1, <3>2
  <2>3. ASSUME NEW x \in Keys, NEW m \in DOMAIN scope'[x].funcs, NEW n \in DOMAIN scope'[x].funcs,
               scope'[x].funcs[m] = scope'[x].funcs[n]
        PROVE  m = n
    <3>1. \A y \in DOMAIN scope[x].funcs : scope[x].funcs[y] \in DOMAIN funcs /\ scope[x].funcs[y] # i
      BY <1>6, <2>3 DEF CInv, ScopeInv
    <3>2. \A y, z \in DOMAIN scope[x].funcs : scope[x].funcs[y] = scope[x].funcs[z] => y = z
      BY <2>3 DEF CInv, ScopeInv
    <3>3. CASE x = k
      <4>1. m \in DOMAIN new /\ n \in DOMAIN new /\ new[m] = new[n]
        BY <1>8, <2>3, <3>3
      <4>2. \A y \in DOMAIN new : new[y] = i => y = Len(new)
        BY <1>7, <3>1, <3>3
      <4>3. CASE m = Len(new) \/ n = Len(new)
        BY <1>7, <4>1, <4>2, <4>3
      <4>4. CASE m # Len(new) /\ n # Len(new)
        BY <1>7, <3>2, <3>3, <4>1, <4>4
      <4> QED
        BY <4>3, <4>4
    <3>4. CASE x # k
      BY <1>8, <2>3, <3>2, <3>4
    <3> QED
      BY <3>3, <3>4
  <2>4. ASSUME NEW x \in Keys
        PROVE  /\ scope'[x].kind \in {"none", "var"} <=> scope'[x].funcs = <<>>
               /\ scope'[x].kind = "func" => Len(scope'[x].funcs) = 1
    <3>1. CASE x = k
      <4>1. Len(new) # 0 /\ (~d.overload => Len(new) = 1)
        BY <1>5, <1>7, <1>9
      <4>2. new # <<>>
        BY <4>1
      <4> QED
        BY <1>8, <3>1, <4>1, <4>2
    <3>2. CASE x # k
      BY <1>8, <3>2 DEF CInv, ScopeInv
    <3> QED
      BY <3>1, <3>2
  <2> QED
    BY <1>6, <1>8, <2>1, <2>2, <2>3, <2>4 DEF ScopeInv
<1>11. ListInv'
  <2>1. /\ declarations \in Seq(Keys) /\ Len(declarations) \in Nat
        /\ Cardinality(ToSet(declarations)) = Len(declarations)
        /\ IsFiniteSet(ToSet(declarations))
    BY FiniteToSet DEF CInv, ListInv
  <2>2. scope'[k] # Undeclared /\ \A x \in Keys \ {k} : scope'[x] = scope[x]
    BY <1>8 DEF Undeclared, Meaning
  <2>3. CASE scope[k].kind = "none"
    <3>1. scope[k] = Undeclared
      BY <1>2, <1>5, <1>9, <2>3 DEF Undeclared, Meaning
    <3>2. declarations' = Append(declarations, k)
      BY <1>2, <1>3, <2>1, <3>1 DEF Listed, Existing, k, d
    <3>3. k \notin ToSet(declarations)
      BY <3>1 DEF CInv, ListInv
    <3>4. /\ declarations' \in Seq(Keys) /\ Len(declarations') = Len(declarations) + 1
          /\ ToSet(declarations') = ToSet(declarations) \cup {k}
      BY <1>2, <2>1, <3>2 DEF ToSet
    <3>5. Cardinality(ToSet(declarations')) = Len(declarations')
      BY <2>1, <3>3, <3>4, FS_AddElement
    <3>6. \A x \in Keys : scope'[x].funcs # <<>> => x \in ToSet(declarations')
      BY <2>2, <3>4 DEF CInv, ListInv
    <3>7. \A x \in ToSet(declarations') : scope'[x] # Undeclared
      <4>1. \A x \in ToSet(declarations) : x \in Keys /\ scope[x] # Undeclared
        BY <2>1 DEF CInv, ListInv, ToSet
      <4> QED
        BY <2>2, <3>4, <4>1
    <3> QED
      BY <3>4, <3>5, <3>6, <3>7 DEF ListInv, Undeclared, Meaning
  <2>4. CASE scope[k].kind = "overload"
    <3>1. scope[k] # Undeclared /\ scope[k].funcs # <<>>
      BY <1>2, <2>4 DEF Undeclared, Meaning, CInv, ScopeInv
    <3>2. declarations' = declarations
      BY <1>2, <1>3, <2>1, <3>1 DEF Listed, Existing, k, d
    <3> QED
      BY <1>2, <2>2, <3>1, <3>2 DEF CInv, ListInv, Undeclared, Meaning, ToSet
  <2> QED
    BY <1>9, <2>3, <2>4
<1>12. TextInv'
  <2>1. reading' \in 0..Len(funcs') /\ (reading' # 0 => ~funcs'[reading'].external)
    <3>1. CASE ReadsBody(d)
      <4>1. reading' = i /\ ~d.external /\ funcs'[i].external = d.external
        BY <1>3, <1>6, <3>1 DEF ReadsBody, f
      <4> QED
        BY <1>5, <1>6, <4>1 DEF i
    <3>2. CASE ~ReadsBody(d)
      BY <1>3, <1>5, <1>6, <3>2 DEF i
    <3> QED
      BY <3>1, <3>2
  <2> QED
    BY <1>1, <1>3, <2>1, FinishedText DEF CInv, TextInv
<1>13. SetsAreDistinct'
  <2>1. ASSUME NEW b \in FuncsOf(k)
        PROVE  /\ b \in DOMAIN funcs /\ funcs[b].sig.ret = Sig(d).ret
               /\ ~MatchesOverloadDeclIdentity(funcs[b].sig, Sig(d))
    <3>1. b \in DOMAIN funcs /\ scope[k].funcs # <<>> /\ 1 \in DOMAIN scope[k].funcs
      BY <1>2, <1>5, <2>1 DEF CInv, ScopeInv, FuncsOf, ToSet
    <3>2. scope[k].kind = "overload" /\ Existing(d) = scope[k]
      BY <1>2, <1>9, <3>1 DEF Existing, k
    <3>3. ~MatchesOverloadDeclIdentity(funcs[b].sig, Sig(d))
      BY <1>1, <1>3, <2>1, <3>2, EarlierIs DEF CInv, k, d
    <3>4. funcs[scope[k].funcs[1]].sig.ret = Sig(d).ret
      BY <1>3, <3>2 DEF Refused, HasMatchingReturnType, d
    <3>5. scope[k].funcs[1] \in FuncsOf(k)
      BY <3>1 DEF FuncsOf, ToSet
    <3>6. funcs[b].sig.ret = funcs[scope[k].funcs[1]].sig.ret
      BY <1>2, <1>5, <2>1, <3>5 DEF CInv, SetsAreDistinct
    <3> QED
      BY <3>1, <3>3, <3>4, <3>6
  <2>2. \A x \in Keys : FuncsOf(x)' = IF x = k THEN FuncsOf(k) \cup {i} ELSE FuncsOf(x)
    <3>1. ToSet(scope'[k].funcs) = ToSet(scope[k].funcs) \cup {i}
      <4>1. Len(new) \in DOMAIN new
        BY <1>5, <1>7
      <4>2. \A y : y \in ToSet(new) <=> y \in ToSet(scope[k].funcs) \cup {i}
        BY <1>7, <4>1 DEF ToSet
      <4> QED
        BY <1>8, <4>2
    <3>2. \A x \in Keys \ {k} : ToSet(scope'[x].funcs) = ToSet(scope[x].funcs)
      BY <1>8
    <3> QED
      BY <3>1, <3>2 DEF FuncsOf
  <2>3. funcs'[i].sig = Sig(d)
    BY <1>6 DEF f
  <2>4. ASSUME NEW x \in Keys, NEW a \in FuncsOf(x), NEW b \in FuncsOf(x), a # b
        PROVE  /\ funcs'[a].sig.ret = funcs'[b].sig.ret
               /\ ~MatchesOverloadDeclIdentity(funcs'[a].sig, funcs'[b].sig)
    <3>1. a \in DOMAIN funcs /\ b \in DOMAIN funcs
      BY <2>4 DEF CInv, ScopeInv, FuncsOf, ToSet
    <3> QED
      BY <1>5, <1>6, <2>4, <3>1 DEF CInv, SetsAreDistinct
  <2>5. ASSUME NEW b \in FuncsOf(k)
        PROVE  /\ funcs'[i].sig.ret = funcs'[b].sig.ret
               /\ ~MatchesOverloadDeclIdentity(funcs'[i].sig, funcs'[b].sig)
               /\ ~MatchesOverloadDeclIdentity(funcs'[b].sig, funcs'[i].sig)
    <3>1. funcs'[b].sig = funcs[b].sig
      BY <1>6, <2>1
    <3> QED
      BY <2>1, <2>3, <3>1, IdentityIsMutual
  <2>6. ASSUME NEW x \in Keys, NEW a \in FuncsOf(x)', NEW b \in FuncsOf(x)', a # b
        PROVE  /\ funcs'[a].sig.ret = funcs'[b].sig.ret
               /\ ~MatchesOverloadDeclIdentity(funcs'[a].sig, funcs'[b].sig)
    BY <2>2, <2>4, <2>5, <2>6
  <2> QED
    BY <1>8, <2>6 DEF SetsAreDistinct
<1>14. AllDefined' /\ CallInv'
  BY <1>1, NoCallIsRight DEF AllDefined
<1> QED
  BY <1>6, <1>10, <1>11, <1>12, <1>13, <1>14 DEF CInv

-----------------------------------------------------------------------------
(* Scores                                                                  *)

Scores == Int \X Int \X Int

(* A cost is a number.                                                     *)
LEMMA CostType ==
  ASSUME NEW p, NEW arg
  PROVE  ArgCost(p, arg) \in Int
<1>1. \A b : Free(b) \in Int /\ Impossible \in Int
  BY DEF Free, Impossible
<1>2. CostOfSameKind(p.type, arg) \in Int
  BY <1>1 DEF CostOfSameKind
<1>3. CostOfOtherKind(p.type, arg) \in Int
  <2>1. CASE p.type.kind = "funcref"
    BY <1>1, <2>1 DEF CostOfOtherKind
  <2>2. CASE p.type.kind \in {"float", "slice", "cstring"}
    BY <1>1, <2>2 DEF CostOfOtherKind
  <2>3. CASE p.type.kind \notin {"funcref", "float", "slice", "cstring"}
    BY <1>1, <2>3 DEF CostOfOtherKind
  <2> QED
    BY <2>1, <2>2, <2>3
<1> QED
  BY <1>2, <1>3 DEF ArgCost, GetAssignTypeConversionCost

ArgCosts(sig, args, n) == MapThenSumSet(LAMBDA i : ArgCost(sig.params[i], args[i]), 1..n)

(* The sum over the arguments is a fold in an order nobody knows.          *)
IsSum(g, sig, args, n) ==
  g = [s \in SUBSET (1..n) |->
        IF s = {} THEN 0
        ELSE ArgCost(sig.params[CHOOSE x \in s : TRUE], args[CHOOSE x \in s : TRUE])
             + g[s \ {CHOOSE x \in s : TRUE}]]

(* Whatever the order, the sum is a number.                                *)
LEMMA SumType ==
  ASSUME NEW sig, NEW args, NEW n \in Nat
  PROVE  ArgCosts(sig, args, n) \in Int
<1> DEFINE C == [s \in SUBSET (1..n) |-> CHOOSE x \in s : TRUE]
           h == [x \in Int \X (1..n) |-> ArgCost(sig.params[x[2]], args[x[2]]) + x[1]]
<1>1. Choosing(C, n)
  BY DEF Choosing
<1>2. h \in [Int \X (1..n) -> Int]
  BY CostType
<1>3. PICK g \in [SUBSET (1..n) -> Int] : FoldingBy(C, g, n, 0, h)
  <2> DEFINE Z == Int
  <2>1. 0 \in Z /\ h \in [Z \X (1..n) -> Z]
    BY <1>2
  <2> HIDE DEF C, h, Z
  <2>2. \E g \in [SUBSET (1..n) -> Z] : FoldingBy(C, g, n, 0, h)
    BY <1>1, <2>1, FoldByExists
  <2> QED
    BY <2>2 DEF Z
<1>4. IsSum(g, sig, args, n)
  <2>1. ASSUME NEW s \in SUBSET (1..n), s # {}
        PROVE  g[s] = ArgCost(sig.params[CHOOSE x \in s : TRUE], args[CHOOSE x \in s : TRUE])
                      + g[s \ {CHOOSE x \in s : TRUE}]
    <3>1. C[s] = (CHOOSE x \in s : TRUE) /\ C[s] \in 1..n /\ g[s \ {C[s]}] \in Int
      BY <2>1
    <3>2. g[s] = h[<<g[s \ {C[s]}], C[s]>>]
      BY <1>3, <2>1 DEF FoldingBy
    <3>3. g[s] = ArgCost(sig.params[C[s]], args[C[s]]) + g[s \ {C[s]}]
      <4> HIDE DEF C
      <4> QED
        BY <3>1, <3>2
    <3> QED
      BY <3>1, <3>3
  <2>2. g[{}] = 0
    BY <1>3 DEF FoldingBy
  <2> HIDE DEF C, h
  <2> QED
    BY <2>1, <2>2 DEF IsSum
<1> DEFINE c == CHOOSE f : IsSum(f, sig, args, n)
<1>5. IsSum(c, sig, args, n)
  BY <1>4, Zenon
<1>6. ArgCosts(sig, args, n) = c[1..n]
  BY DEF ArgCosts, MapThenSumSet, MapThenFoldSet, IsSum
<1> HIDE DEF c
<1>7. c[{}] \in Int
  BY <1>5 DEF IsSum
<1>8. \A s \in SUBSET (1..n) : s # {} /\ c[s \ {C[s]}] \in Int => c[s] \in Int
  <2>1. ASSUME NEW s \in SUBSET (1..n), s # {}, c[s \ {C[s]}] \in Int
        PROVE  c[s] \in Int
    <3>1. c[s] = ArgCost(sig.params[C[s]], args[C[s]]) + c[s \ {C[s]}]
      BY <1>5, <2>1 DEF IsSum
    <3> QED
      BY <2>1, <3>1, CostType
  <2> QED
    BY <2>1
<1> HIDE DEF C
<1>9. c[1..n] \in Int
  BY <1>1, <1>7, <1>8, FoldStays
<1> QED
  BY <1>6, <1>9

(* A score is three numbers.                                               *)
LEMMA ScoreType ==
  ASSUME NEW sig, NEW args, Len(sig.params) \in Nat, Len(args) \in Nat
  PROVE  Score(sig, args) \in Scores
<1> DEFINE np == Len(sig.params)
           na == Len(args)
           m == Min({np, na})
<1>1. m \in Nat
  <2> HIDE DEF np, na
  <2>1. {np, na} \in SUBSET Nat /\ {np, na} # {}
    BY DEF np, na
  <2> QED
    BY <2>1, MinOf
<1>2. Max({0, np - na}) \in Int
  <2>1. \A x \in Int : Max({0, x}) \in Int
    <3> TAKE x \in Int
    <3>1. \E z \in {0, x} : \A y \in {0, x} : z >= y
      OBVIOUS
    <3> QED
      BY <3>1 DEF Max
  <2> QED
    BY <2>1
<1> HIDE DEF m
<1>3. ArgCosts(sig, args, m) \in Int
  BY <1>1, SumType
<1>4. Score(sig, args)
      = <<ArgCosts(sig, args, m), Max({0, np - na}), IF na > np THEN 1 ELSE 0>>
  BY Zenon DEF Score, ArgCosts, m
<1> HIDE DEF np, na
<1> QED
  BY <1>2, <1>3, <1>4 DEF Scores

(* The ranking is a total order.                                           *)
LEMMA BetterIsOrder ==
  ASSUME NEW s \in Scores, NEW t \in Scores, NEW u \in Scores
  PROVE  /\ ~Better(s, s)
         /\ Better(s, t) /\ Better(t, u) => Better(s, u)
         /\ Better(s, t) \/ Better(t, s) \/ s = t
<1>1. \A x, y \in Scores :
        Better(x, y) <=> \/ x[1] < y[1]
                         \/ x[1] = y[1] /\ x[2] < y[2]
                         \/ x[1] = y[1] /\ x[2] = y[2] /\ x[3] < y[3]
  BY DEF Better, Scores
<1>2. \A x \in Scores : x = <<x[1], x[2], x[3]>> /\ x[1] \in Int /\ x[2] \in Int /\ x[3] \in Int
  BY DEF Scores
<1> HIDE DEF Scores, Better
<1> QED
  BY <1>1, <1>2

-----------------------------------------------------------------------------
(* What the ranking lets pass can be bound: the costs and the conversions  *)
(* agree on what is possible.                                              *)

LEMMA CostMeansConversion ==
  ASSUME NEW dst, NEW e, dst.kind \in WrittenKinds, GetAssignTypeConversionCost(dst, e) >= 0
  PROVE  CheckAssignType(dst, e) # "refused"
<1>1. Impossible = -1 /\ \A b \in BOOLEAN : Free(b) >= 0 => b
  BY DEF Impossible, Free
<1>2. CASE dst.kind = e.type.kind
  <2>1. CostOfSameKind(dst, e) >= 0
    BY <1>2 DEF GetAssignTypeConversionCost
  <2>2. WrapsSameKind(dst, e, FALSE) \/ KeepsSameKind(dst, e, FALSE, TRUE)
    <3>1. CASE dst.kind = "int"
      BY <3>1 DEF WrapsSameKind, KeepsSameKind
    <3>2. CASE dst.kind = "float"
      BY <3>2 DEF WrapsSameKind, KeepsSameKind
    <3>3. CASE dst.kind = "bool" \/ dst.kind = "compound"
      BY <3>3 DEF KeepsSameKind
    <3>4. CASE dst.kind = "pointer"
      <4>1. CanAssignPointerImplicitly(dst, e.type)
        BY <2>1, <3>4, <1>1 DEF CostOfSameKind, Free
      <4> QED
        BY <3>4, <4>1 DEF KeepsSameKind
    <3>5. CASE dst.kind = "array"
      <4>1. dst.elem = e.type.elem /\ dst.length = e.type.length
        BY <2>1, <3>5, <1>1 DEF CostOfSameKind, Free
      <4> QED
        BY <3>5, <4>1 DEF KeepsSameKind
    <3>6. CASE dst.kind = "slice"
      <4>1. dst.elem = e.type.elem
        BY <2>1, <3>6, <1>1 DEF CostOfSameKind, Free
      <4> QED
        BY <3>6, <4>1 DEF KeepsSameKind
    <3>7. CASE dst.kind = "cstring"
      <4>1. IF dst.maxlen = 0 /\ e.type.maxlen > 0 THEN e.form = "var"
            ELSE dst.maxlen > 0 \/ dst.maxlen = e.type.maxlen
        BY <2>1, <3>7, <1>1 DEF CostOfSameKind, Free
      <4> QED
        BY <3>7, <4>1 DEF WrapsSameKind, KeepsSameKind
    <3>8. CASE dst.kind = "funcref"
      <4>1. CanAccept(dst, e.type)
        BY <2>1, <3>8, <1>1 DEF CostOfSameKind
      <4> QED
        BY <3>8, <4>1 DEF WrapsSameKind, KeepsSameKind
    <3> QED
      BY <3>1, <3>2, <3>3, <3>4, <3>5, <3>6, <3>7, <3>8 DEF WrittenKinds
  <2> QED
    BY <1>2, <2>2 DEF CheckAssignType, ConvertExprToType
<1>3. CASE dst.kind # e.type.kind
  <2>1. CostOfOtherKind(dst, e) >= 0
    BY <1>3 DEF GetAssignTypeConversionCost
  <2>2. WrapsOtherKind(dst, e, FALSE) \/ KeepsOtherKind(dst, e, FALSE, TRUE)
    <3>1. CASE dst.kind = "funcref"
      <4>1. IF e.type.kind = "overload" THEN FindMatchingSignature(dst.sig, e.type.sigs) = "unique"
                                        ELSE CanAccept(dst, e.type)
        BY <2>1, <3>1, <1>1 DEF CostOfOtherKind
      <4> QED
        BY <3>1, <4>1 DEF WrapsOtherKind
    <3>2. CASE dst.kind = "float"
      <4>1. e.type.kind = "int"
        BY <2>1, <3>2, <1>1 DEF CostOfOtherKind
      <4> QED
        BY <3>2, <4>1 DEF WrapsOtherKind
    <3>3. CASE dst.kind = "slice"
      <4>1. e.type.kind = "array" /\ dst.elem = e.type.elem /\ e.form = "var"
        BY <2>1, <3>3, <1>1 DEF CostOfOtherKind
      <4> QED
        BY <3>3, <4>1 DEF WrapsOtherKind
    <3>4. CASE dst.kind = "cstring"
      <4>1. e.type.kind = "pointer" /\ e.form = "string"
        BY <2>1, <3>4, <1>1 DEF CostOfOtherKind
      <4> QED
        BY <3>4, <4>1 DEF WrapsOtherKind, KeepsOtherKind
    <3>5. CASE dst.kind \notin {"funcref", "float", "slice", "cstring"}
      BY <2>1, <3>5, <1>1 DEF CostOfOtherKind
    <3> QED
      BY <3>1, <3>2, <3>3, <3>4, <3>5
  <2> QED
    BY <1>3, <2>2 DEF CheckAssignType, ConvertExprToType
<1> QED
  BY <1>2, <1>3

(* The arguments of a candidate can be bound to its parameters.            *)
LEMMA CandidateBinds ==
  ASSUME NEW sig \in Signature, NEW args, Len(args) \in Nat, IsCandidate(sig, args)
  PROVE  BindCallArguments(sig, args)
<1>1. ASSUME NEW i \in 1..Len(args)
      PROVE  IF i <= Len(sig.params) THEN Binds(sig.params[i], args[i]) ELSE ~args[i].uninit
  <2>1. CASE i <= Len(sig.params)
    <3> DEFINE p == sig.params[i]
               arg == args[i]
    <3>1. ~arg.uninit /\ Accepts(p, arg)
      BY <2>1 DEF IsCandidate
    <3>2. p.type \in Types
      <4>1. \A q \in Seq(Param) : i <= Len(q) => q[i] \in Param
        OBVIOUS
      <4>2. sig.params \in Seq(Param)
        BY DEF Signature
      <4>3. p \in Param
        BY <2>1, <4>1, <4>2
      <4> HIDE DEF p
      <4> QED
        BY <4>3 DEF Param
    <3> HIDE DEF p, arg
    <3>3. IsRefLike(p) => Binds(p, arg)
      BY <3>1 DEF Accepts, BindsRef, Binds
    <3>4. ~IsRefLike(p) => Binds(p, arg)
      BY <3>1, <3>2, TypesAreWritten, CostMeansConversion DEF Accepts, Binds
    <3>5. Binds(p, arg)
      BY <3>3, <3>4
    <3> QED
      BY <2>1, <3>5 DEF p, arg
  <2>2. CASE ~(i <= Len(sig.params))
    BY <2>2 DEF IsCandidate
  <2> QED
    BY <2>1, <2>2
<1> QED
  BY <1>1 DEF IsCandidate, BindCallArguments

-----------------------------------------------------------------------------
(* The ranking of the candidates                                           *)

Best == [func : Nat, score : Scores, ambiguous : BOOLEAN]

CandidatesIn(C, args) == {j \in C : IsCandidate(funcs[j].sig, args)}

(* What is known of the best after the functions of C were considered.     *)
BestSoFar(b, C, args) ==
  /\ b \in Best
  /\ b.func = 0 => CandidatesIn(C, args) = {}
  /\ b.func # 0 =>
       /\ b.func \in CandidatesIn(C, args)
       /\ b.score = Score(funcs[b.func].sig, args)
       /\ \A j \in CandidatesIn(C, args) : ~Better(Score(funcs[j].sig, args), b.score)
       /\ b.ambiguous <=> \E j \in CandidatesIn(C, args) :
                            j # b.func /\ Score(funcs[j].sig, args) = b.score

(* What every function symbol has.                                         *)
LEMMA FunctionType ==
  ASSUME ScopeInv
  PROVE  /\ DOMAIN funcs \in SUBSET (Nat \ {0})
         /\ \A i \in DOMAIN funcs : /\ funcs[i] \in Function /\ funcs[i].sig \in Signature
                                    /\ Len(funcs[i].sig.params) \in Nat
<1>1. \A s \in Seq(Function) : DOMAIN s \in SUBSET (Nat \ {0}) /\ \A i \in DOMAIN s : s[i] \in Function
  OBVIOUS
<1>2. \A f \in Function : f.sig \in Signature
  BY DEF Function
<1>3. \A s \in Signature : s.params \in Seq(Param)
  BY DEF Signature
<1>4. \A s \in Seq(Param) : Len(s) \in Nat
  OBVIOUS
<1>5. \A s \in Signature : Len(s.params) \in Nat
  BY <1>3, <1>4
<1> QED
  BY <1>1, <1>2, <1>5 DEF ScopeInv

(* The best so far stays a function and its score.                         *)
LEMMA ConsiderType ==
  ASSUME NEW args, Len(args) \in Nat, NEW i \in Nat, Len(funcs[i].sig.params) \in Nat, NEW b \in Best
  PROVE  Consider(args, b, i) \in Best
<1> DEFINE sc == Score(funcs[i].sig, args)
           cand == IsCandidate(funcs[i].sig, args)
<1>1. sc \in Scores
  BY ScoreType
<1>2. Consider(args, b, i) = CASE ~cand                                                     -> b
                               [] cand /\ (b.func = 0 \/ Better(sc, b.score))               ->
                                    [func |-> i, score |-> sc, ambiguous |-> FALSE]
                               [] cand /\ b.func # 0 /\ sc = b.score -> [b EXCEPT !.ambiguous = TRUE]
                               [] OTHER                                                     -> b
  BY DEF Consider
<1> HIDE DEF sc, cand
<1>3. [func |-> i, score |-> sc, ambiguous |-> FALSE] \in Best
  BY <1>1 DEF Best
<1>4. [b EXCEPT !.ambiguous = TRUE] \in Best
  BY DEF Best
<1>5. CASE cand /\ (b.func = 0 \/ Better(sc, b.score))
  BY <1>2, <1>3, <1>4, <1>5
<1>6. CASE ~(cand /\ (b.func = 0 \/ Better(sc, b.score)))
  BY <1>2, <1>4, <1>6
<1> QED
  BY <1>5, <1>6

(* Considering one more function keeps what is known.                      *)
LEMMA ConsiderKeeps ==
  ASSUME ScopeInv, NEW args, Len(args) \in Nat, NEW i \in DOMAIN funcs,
         NEW C \in SUBSET DOMAIN funcs, i \notin C,
         NEW b, BestSoFar(b, C, args)
  PROVE  BestSoFar(Consider(args, b, i), C \cup {i}, args)
<1> DEFINE S == [j \in DOMAIN funcs |-> Score(funcs[j].sig, args)]
           cand == IsCandidate(funcs[i].sig, args)
           Old == CandidatesIn(C, args)
           New == CandidatesIn(C \cup {i}, args)
           c == Consider(args, b, i)
<1>1. \A j \in DOMAIN funcs : S[j] = Score(funcs[j].sig, args) /\ S[j] \in Scores
  BY FunctionType, ScoreType
<1>2. i \in Nat /\ i # 0 /\ b \in Best /\ c \in Best
  BY FunctionType, ConsiderType DEF BestSoFar
<1>3. Old \in SUBSET DOMAIN funcs /\ i \notin Old /\ New = IF cand THEN Old \cup {i} ELSE Old
  BY DEF CandidatesIn
<1>4. /\ b.func = 0 => Old = {}
      /\ b.func # 0 => /\ b.func \in Old /\ b.score = S[b.func]
                       /\ \A j \in Old : ~Better(S[j], b.score)
                       /\ b.ambiguous <=> \E j \in Old : j # b.func /\ S[j] = b.score
  BY <1>1, <1>3 DEF BestSoFar
<1>5. /\ ~cand => c = b
      /\ cand /\ (b.func = 0 \/ Better(S[i], b.score)) =>
           \/ c.func = i /\ c.score = S[i] /\ ~c.ambiguous
           \/ b.func # 0 /\ S[i] = b.score
      /\ cand /\ b.func # 0 /\ ~Better(S[i], b.score) /\ S[i] = b.score =>
           c.func = b.func /\ c.score = b.score /\ c.ambiguous
      /\ cand /\ b.func # 0 /\ ~Better(S[i], b.score) /\ S[i] # b.score => c = b
  <2>1. [b EXCEPT !.ambiguous = TRUE].func = b.func /\ [b EXCEPT !.ambiguous = TRUE].score = b.score
        /\ [b EXCEPT !.ambiguous = TRUE].ambiguous
    BY <1>2 DEF Best
  <2> QED
    BY <1>1, <2>1 DEF Consider
<1>6. /\ b.score \in Scores
      /\ b.func # 0 => b.func # i
  BY <1>2, <1>3, <1>4 DEF Best
<1>7. /\ c.func = 0 => New = {}
      /\ c.func # 0 => /\ c.func \in New /\ c.score = S[c.func]
                       /\ \A j \in New : ~Better(S[j], c.score)
                       /\ c.ambiguous <=> \E j \in New : j # c.func /\ S[j] = c.score
  <2> HIDE DEF S, cand, Old, New, c
  <2>1. CASE ~cand
    BY <1>3, <1>4, <1>5, <2>1
  <2>2. CASE cand /\ b.func = 0
    <3>1. New = {i} /\ c.func = i /\ c.score = S[i] /\ ~c.ambiguous /\ ~Better(S[i], S[i])
      BY <1>1, <1>3, <1>4, <1>5, <2>2, BetterIsOrder
    <3> QED
      BY <1>2, <3>1
  <2>3. CASE cand /\ b.func # 0 /\ Better(S[i], b.score)
    <3>1. S[i] # b.score /\ ~Better(S[i], S[i])
      BY <1>1, <1>6, <2>3, BetterIsOrder
    <3>2. c.func = i /\ c.score = S[i] /\ ~c.ambiguous /\ New = Old \cup {i}
      BY <1>3, <1>5, <2>3, <3>1
    <3>3. ASSUME NEW j \in Old
          PROVE  ~Better(S[j], S[i]) /\ S[j] # S[i]
      <4>1. S[j] \in Scores /\ ~Better(S[j], b.score)
        BY <1>1, <1>3, <1>4, <2>3
      <4> QED
        BY <1>1, <1>6, <2>3, <4>1, BetterIsOrder
    <3> QED
      BY <1>2, <3>1, <3>2, <3>3
  <2>4. CASE cand /\ b.func # 0 /\ ~Better(S[i], b.score) /\ S[i] = b.score
    <3>1. c.func = b.func /\ c.score = b.score /\ c.ambiguous /\ New = Old \cup {i}
      BY <1>3, <1>5, <2>4
    <3> QED
      BY <1>4, <1>6, <2>4, <3>1
  <2>5. CASE cand /\ b.func # 0 /\ ~Better(S[i], b.score) /\ S[i] # b.score
    <3>1. c = b /\ New = Old \cup {i}
      BY <1>3, <1>5, <2>5
    <3> QED
      BY <1>4, <1>6, <2>5, <3>1
  <2> QED
    BY <2>1, <2>2, <2>3, <2>4, <2>5
<1>8. New \in SUBSET DOMAIN funcs
  BY <1>3
<1> HIDE DEF S
<1>9. c \in Best /\ New = CandidatesIn(C \cup {i}, args) /\ c = Consider(args, b, i)
  BY <1>2
<1> HIDE DEF New, c
<1> QED
  BY <1>1, <1>7, <1>8, <1>9 DEF BestSoFar

(* BestCandidate considers the functions of the set one after the other.   *)
IsRanking(g, args, set) ==
  g = [S \in SUBSET DOMAIN set |->
        IF S = {} THEN NoBest ELSE Consider(args, g[S \ {Max(S)}], set[Max(S)])]

Considered(set, n) == {set[m] : m \in 1..n}

(* There is such a fold, and BestCandidate is its last value.              *)
LEMMA RankingExists ==
  ASSUME ScopeInv, NEW args, Len(args) \in Nat, NEW set \in Seq(DOMAIN funcs)
  PROVE  \E g : /\ IsRanking(g, args, set)
                /\ BestCandidate(set, args) = g[DOMAIN set]
<1> DEFINE N == Len(set)
           h == [x \in Best \X (1..N) |-> Consider(args, x[1], set[x[2]])]
<1>1. N \in Nat /\ DOMAIN set = 1..N /\ \A n \in 1..N : set[n] \in DOMAIN funcs
  OBVIOUS
<1>2. h \in [Best \X (1..N) -> Best]
  <2>1. ASSUME NEW b \in Best, NEW n \in 1..N
        PROVE  Consider(args, b, set[n]) \in Best
    BY <1>1, FunctionType, ConsiderType
  <2> QED
    BY <2>1
<1>3. NoBest \in Best
  BY DEF NoBest, Best, Scores
<1>4. PICK g \in [SUBSET (1..N) -> Best] : Folding(g, N, Best, NoBest, h)
  <2> HIDE DEF h, N
  <2> QED
    BY <1>1, <1>2, <1>3, FoldExists
<1>5. IsRanking(g, args, set)
  <2>1. ASSUME NEW S \in SUBSET (1..N), S # {}
        PROVE  g[S] = Consider(args, g[S \ {Max(S)}], set[Max(S)])
    <3>1. Max(S) \in 1..N /\ S \ {Max(S)} \in SUBSET (1..N)
      BY <1>1, <2>1, MaxOf
    <3>2. g[S] = h[<<g[S \ {Max(S)}], Max(S)>>]
      BY <1>4, <2>1 DEF Folding
    <3> QED
      BY <3>1, <3>2
  <2>2. g[{}] = NoBest
    BY <1>4 DEF Folding
  <2> QED
    BY <1>1, <2>1, <2>2 DEF IsRanking
<1> DEFINE c == CHOOSE f : IsRanking(f, args, set)
<1>6. IsRanking(c, args, set)
  BY <1>5, Zenon
<1>7. BestCandidate(set, args) = c[DOMAIN set]
  BY DEF BestCandidate, FoldLeft, MapThenFoldSet, IsRanking
<1> QED
  BY <1>6, <1>7

(* After all functions of the set the best so far is the best of all.      *)
LEMMA RankingIsBest ==
  ASSUME ScopeInv, NEW args, Len(args) \in Nat, NEW set \in Seq(DOMAIN funcs),
         \A m, n \in DOMAIN set : set[m] = set[n] => m = n
  PROVE  BestSoFar(BestCandidate(set, args), ToSet(set), args)
<1> DEFINE N == Len(set)
<1>1. N \in Nat /\ DOMAIN set = 1..N /\ \A n \in 1..N : set[n] \in DOMAIN funcs
  OBVIOUS
<1>2. PICK g : IsRanking(g, args, set) /\ BestCandidate(set, args) = g[DOMAIN set]
  BY RankingExists
<1> DEFINE Known(n) == BestSoFar(g[1..n], Considered(set, n), args)
           Bad == {n \in 0..N : ~Known(n)}
<1>3. Known(0)
  <2>1. g[1..0] = NoBest /\ Considered(set, 0) = {}
    <3>1. 1..0 = {}
      OBVIOUS
    <3>2. g[{}] = NoBest
      BY <1>2 DEF IsRanking
    <3> QED
      BY <3>1, <3>2 DEF Considered
  <2>2. BestSoFar(NoBest, {}, args)
    BY DEF BestSoFar, NoBest, Best, Scores, CandidatesIn
  <2> QED
    BY <2>1, <2>2
<1>4. ASSUME NEW n \in 1..N, Known(n-1)
      PROVE  Known(n)
  <2>1. /\ 1..n \in SUBSET DOMAIN set /\ 1..n # {} /\ Max(1..n) = n /\ (1..n) \ {n} = 1..(n-1)
    BY <1>1, MaxOfInterval
  <2>2. g[1..n] = Consider(args, g[(1..n) \ {Max(1..n)}], set[Max(1..n)])
    BY <1>2, <2>1, Zenon DEF IsRanking
  <2>3. g[1..n] = Consider(args, g[1..(n-1)], set[n])
    BY <2>1, <2>2
  <2>4. /\ Considered(set, n) = Considered(set, n-1) \cup {set[n]}
        /\ Considered(set, n-1) \in SUBSET DOMAIN funcs /\ set[n] \in DOMAIN funcs
        /\ set[n] \notin Considered(set, n-1)
    BY <1>1 DEF Considered
  <2> HIDE DEF N
  <2> QED
    BY <1>4, <2>3, <2>4, ConsiderKeeps
<1>5. Known(N)
  <2> HIDE DEF Known
  <2>1. SUFFICES ASSUME Bad # {} PROVE FALSE
    BY <1>1
  <2> DEFINE m == Min(Bad)
  <2>2. m \in Bad /\ \A x \in Bad : m =< x
    <3>1. Bad \in SUBSET Nat
      BY <1>1
    <3> HIDE DEF Bad
    <3> QED
      BY <2>1, <3>1, MinOf
  <2>3. m \in 1..N /\ m-1 \in 0..N /\ m-1 \notin Bad
    BY <1>1, <1>3, <2>2
  <2> HIDE DEF m
  <2> QED
    BY <1>4, <2>2, <2>3
<1>6. Considered(set, N) = ToSet(set)
  BY <1>1 DEF Considered, ToSet
<1> QED
  BY <1>1, <1>2, <1>5, <1>6

-----------------------------------------------------------------------------
(* Calls                                                                   *)

(* What BestOverload says, of any call.                                    *)
BestFor(c) ==
  c.set # <<>> =>
    \/ c.outcome = "bound" /\ BestOf(c) = {c.func}
    \/ c.outcome = "ambiguous" /\ Cardinality(BestOf(c)) > 1
    \/ c.outcome = "no match" /\ Candidates(c) = {}

(* A call of an overloaded name is bound to the only best candidate, or    *)
(* refused because there are several or none.                              *)
LEMMA OverloadIsBest ==
  ASSUME CInv, NEW k \in Keys, scope[k].kind = "overload", NEW args, Len(args) \in Nat
  PROVE  BestFor(CallOf(scope[k], args)) /\ CallOf(scope[k], args).outcome \in {"bound", "ambiguous", "no match"}
<1> DEFINE set == scope[k].funcs
           best == BestCandidate(set, args)
           r == CallOf(scope[k], args)
           All == CandidatesIn(ToSet(set), args)
           S == [j \in DOMAIN funcs |-> Score(funcs[j].sig, args)]
<1>1. ScopeInv /\ set \in Seq(DOMAIN funcs) /\ ToSet(set) \in SUBSET DOMAIN funcs
  <2>1. set \in Seq(Nat) /\ \A n \in DOMAIN set : set[n] \in DOMAIN funcs
    BY DEF CInv, ScopeInv
  <2> HIDE DEF set
  <2> QED
    BY <2>1 DEF CInv, ToSet
<1>2. BestSoFar(best, ToSet(set), args)
  <2>1. \A m, n \in DOMAIN set : set[m] = set[n] => m = n
    BY <1>1 DEF ScopeInv
  <2> HIDE DEF set
  <2> QED
    BY <1>1, <2>1, RankingIsBest
<1>3. \A j \in DOMAIN funcs : S[j] = Score(funcs[j].sig, args) /\ S[j] \in Scores
  BY <1>1, FunctionType, ScoreType
<1>4. IsFiniteSet(ToSet(set))
  BY <1>1, FiniteToSet
<1>5. /\ r = CASE best.func = 0                   -> CallRecord(set, args, 0, "no match")
               [] best.func # 0 /\ best.ambiguous -> CallRecord(set, args, 0, "ambiguous")
               [] best.func # 0 /\ ~best.ambiguous ->
                    CallRecord(set, args, best.func, IfBound(BindCallArguments(funcs[best.func].sig, args)))
  <2>1. scope[k].kind # "func"
    BY DEF CInv
  <2> QED
    BY <2>1 DEF CallOf
<1>6. \A o, f : /\ CallRecord(set, args, f, o).outcome = o /\ CallRecord(set, args, f, o).func = f
                /\ Candidates(CallRecord(set, args, f, o)) = All
                /\ BestOf(CallRecord(set, args, f, o)) = {i \in All : \A j \in All : ~Better(S[j], S[i])}
  <2>1. All \in SUBSET DOMAIN funcs
    BY <1>1 DEF CandidatesIn
  <2>2. \A o, f : Candidates(CallRecord(set, args, f, o)) = All
    BY DEF Candidates, CallRecord, CandidatesIn
  <2>3. \A o, f : \A i \in DOMAIN funcs : ScoreIn(CallRecord(set, args, f, o), i) = S[i]
    BY DEF ScoreIn, CallRecord
  <2>4. \A o, f : BestOf(CallRecord(set, args, f, o)) = {i \in All : \A j \in All : ~Better(S[j], S[i])}
    <3> HIDE DEF All, S, set
    <3> QED
      BY <2>1, <2>2, <2>3 DEF BestOf
  <2> QED
    BY <2>2, <2>4 DEF CallRecord
<1>7. /\ best \in Best
      /\ best.func = 0 => All = {}
      /\ best.func # 0 => /\ best.func \in All /\ best.score = S[best.func]
                          /\ \A j \in All : ~Better(S[j], best.score)
                          /\ best.ambiguous <=> \E j \in All : j # best.func /\ S[j] = best.score
  BY <1>1, <1>2, <1>3 DEF BestSoFar, CandidatesIn
<1>8. All \in SUBSET DOMAIN funcs /\ IsFiniteSet(All) /\ (\A i \in All : IsCandidate(funcs[i].sig, args))
  BY <1>1, <1>4, FS_Subset DEF CandidatesIn
<1> DEFINE Top == {i \in All : \A j \in All : ~Better(S[j], S[i])}
<1>9. CASE best.func = 0
  BY <1>5, <1>6, <1>7, <1>9 DEF BestFor
<1>10. CASE best.func # 0 /\ best.ambiguous
  <2>1. PICK j \in All : j # best.func /\ S[j] = best.score
    BY <1>7, <1>10
  <2>2. j \in Top /\ best.func \in Top
    BY <1>7, <1>10, <2>1
  <2>3. IsFiniteSet(Top) /\ Cardinality({best.func, j}) = 2
    BY <1>8, <2>1, TwoElements, FS_Subset
  <2>4. Cardinality(Top) > 1
    <3>1. {best.func, j} \in SUBSET Top
      BY <2>2
    <3>2. Cardinality({best.func, j}) =< Cardinality(Top) /\ Cardinality(Top) \in Nat
      BY <2>3, <3>1, FS_Subset, FS_CardinalityType
    <3> QED
      BY <2>3, <3>2
  <2>5. r = CallRecord(set, args, 0, "ambiguous")
    BY <1>5, <1>10
  <2> HIDE DEF Top, set, r
  <2>6. r.outcome = "ambiguous" /\ Cardinality(BestOf(r)) > 1
    BY <1>6, <2>4, <2>5 DEF Top
  <2> QED
    BY <2>6 DEF BestFor, r, set
<1>11. CASE best.func # 0 /\ ~best.ambiguous
  <2>1. Top = {best.func}
    <3>1. best.func \in Top
      BY <1>7, <1>11
    <3>2. ASSUME NEW i \in Top
          PROVE  i = best.func
      <4>1. ~Better(S[i], S[best.func]) /\ ~Better(S[best.func], S[i])
        BY <1>7, <1>11, <3>2
      <4>2. S[i] \in Scores /\ S[best.func] \in Scores
        BY <1>3, <1>7, <1>8, <1>11
      <4>3. S[i] = S[best.func]
        BY <4>1, <4>2, BetterIsOrder
      <4> QED
        BY <1>7, <1>11, <4>3
    <3> QED
      BY <3>1, <3>2
  <2>2. BindCallArguments(funcs[best.func].sig, args)
    BY <1>1, <1>7, <1>8, <1>11, FunctionType, CandidateBinds
  <2>3. r = CallRecord(set, args, best.func, "bound")
    BY <1>5, <1>11, <2>2 DEF IfBound
  <2> HIDE DEF Top, set, r, best
  <2>4. r.outcome = "bound" /\ BestOf(r) = {r.func}
    BY <1>6, <2>1, <2>3 DEF Top
  <2> QED
    BY <2>4 DEF BestFor, r, set
<1>12. best.func = 0 \/ (best.func # 0 /\ best.ambiguous) \/ (best.func # 0 /\ ~best.ambiguous)
  OBVIOUS
<1> HIDE DEF best, r, set
<1> QED
  BY <1>9, <1>10, <1>11, <1>12

(* The receiver and the arguments of a call are a sequence.                *)
LEMMA ArgsType ==
  ASSUME NEW c \in CallTexts
  PROVE  Len(ArgsOf(c)) \in Nat
<1> DEFINE given == [i \in 1..Len(c.args) |-> ParseArg(c.args[i])]
           A == {c.receiver, This} \cup {ParseArg(c.args[i]) : i \in 1..Len(c.args)}
<1>1. Len(c.args) \in Nat
  BY CallTextsAssumption
<1>2. given \in Seq(A)
  BY <1>1
<1>3. ReceiverOf(c) \in Seq(A)
  <2>1. ReceiverOf(c) = <<c.receiver>> \/ ReceiverOf(c) = <<This>> \/ ReceiverOf(c) = <<>>
    <3> DEFINE own == This
    <3>1. ReceiverOf(c) =
            CASE c.callee = "receiver"                                -> <<c.receiver>>
              [] c.callee = "plain" /\ funcs[reading].owner # Module  -> <<own>>
              [] OTHER                                                -> <<>>
      BY DEF ReceiverOf
    <3> HIDE DEF own
    <3> QED
      BY <3>1 DEF own
  <2>2. c.receiver \in A /\ This \in A
    OBVIOUS
  <2> HIDE DEF A
  <2>3. (\A x \in A : <<x>> \in Seq(A)) /\ <<>> \in Seq(A)
    OBVIOUS
  <2>4. <<c.receiver>> \in Seq(A) /\ <<This>> \in Seq(A)
    BY <2>2, <2>3
  <2> QED
    BY <2>1, <2>3, <2>4, Zenon
<1> HIDE DEF A, given
<1>4. ReceiverOf(c) \o given \in Seq(A)
  BY <1>2, <1>3
<1> QED
  BY <1>4 DEF ArgsOf, given

(* So it is for what any name means.                                       *)
LEMMA CallOfIsRight ==
  ASSUME CInv, NEW k \in Keys, NEW args, Len(args) \in Nat
  PROVE  /\ CallOf(scope[k], args).outcome \in {"bound", "refused", "ambiguous", "no match"}
         /\ BestFor(CallOf(scope[k], args))
<1> DEFINE r == CallOf(scope[k], args)
<1>1. CASE scope[k].kind = "overload"
  BY <1>1, OverloadIsBest
<1>2. CASE scope[k].kind # "overload"
  <2>1. r.set = <<>> /\ r.outcome \in {"bound", "refused"}
    <3>1. CASE scope[k].kind = "func"
      <4>1. r = CallRecord(<<>>, args, scope[k].funcs[1],
                           IfBound(BindCallArguments(funcs[scope[k].funcs[1]].sig, args)))
        BY <3>1 DEF CallOf
      <4> QED
        BY <4>1 DEF CallRecord, IfBound
    <3>2. CASE scope[k].kind # "func"
      <4>1. r = CallRecord(<<>>, args, 0, "refused")
        BY <1>2, <3>2 DEF CallOf
      <4> QED
        BY <4>1 DEF CallRecord
    <3> QED
      BY <3>1, <3>2
  <2> HIDE DEF r
  <2>2. BestFor(r) /\ r.outcome \in {"bound", "refused", "ambiguous", "no match"}
    BY <2>1 DEF BestFor
  <2> QED
    BY <2>2 DEF r
<1> QED
  BY <1>1, <1>2

(* So it is for what any text of a call means.                             *)
LEMMA ReadCallIsRight ==
  ASSUME CInv, NEW c \in CallTexts, reading # 0
  PROVE  /\ ReadCall(c).outcome \in {"bound", "refused", "ambiguous", "no match"}
         /\ BestFor(ReadCall(c))
<1>1. ASSUME NEW a, NEW o \in {"bound", "refused"}, ReadCall(c) = CallRecord(<<>>, a, 0, o)
      PROVE  /\ ReadCall(c).outcome \in {"bound", "refused", "ambiguous", "no match"}
             /\ BestFor(ReadCall(c))
  <2>1. ReadCall(c).set = <<>> /\ ReadCall(c).outcome = o
    BY <1>1 DEF CallRecord
  <2> QED
    BY <2>1 DEF BestFor
<1>2. CASE \E i \in 1..Len(c.args) : ~KnownArg(c.args[i])
  <2>1. ReadCall(c) = CallRecord(<<>>, <<>>, 0, "refused")
    BY <1>2 DEF ReadCall
  <2> QED
    BY <1>1, <2>1
<1>3. CASE ~(\E i \in 1..Len(c.args) : ~KnownArg(c.args[i])) /\ c.callee = "indirect"
  <2>1. ReadCall(c) = CallRecord(<<>>, ArgsOf(c), 0, IfBound(BindCallArguments(c.sig, ArgsOf(c))))
    BY <1>3, Zenon DEF ReadCall
  <2>2. IfBound(BindCallArguments(c.sig, ArgsOf(c))) \in {"bound", "refused"}
    BY DEF IfBound
  <2> QED
    BY <1>1, <2>1, <2>2
<1>4. CASE ~(\E i \in 1..Len(c.args) : ~KnownArg(c.args[i])) /\ c.callee # "indirect"
  <2>1. ReadCall(c) = CallOf(CalleeOf(c), ArgsOf(c))
    BY <1>4, Zenon DEF ReadCall
  <2>2. \E k \in Keys : CalleeOf(c) = scope[k]
    <3>1. funcs[reading].owner \in Owners
      <4>1. reading \in DOMAIN funcs
        BY DEF CInv, TextInv, ScopeInv
      <4> QED
        BY <4>1, FunctionType DEF CInv, Function
    <3>2. /\ c.name \in Names /\ c.callee \in {"plain", "global", "receiver"}
          /\ c.callee = "receiver" => c.receiver.type.name \in Objects
      BY <1>4, CallTextsAssumption
    <3>3. CASE c.callee = "plain"
      <4>1. CalleeOf(c) = scope[<<funcs[reading].owner, c.name>>]
        BY <3>3 DEF CalleeOf, Lookup
      <4> QED
        BY <3>1, <3>2, <4>1 DEF Keys
    <3>4. CASE c.callee = "global"
      <4>1. CalleeOf(c) = scope[<<Module, c.name>>]
        BY <3>4 DEF CalleeOf
      <4> QED
        BY <3>2, <4>1 DEF Keys, Owners
    <3>5. CASE c.callee = "receiver"
      <4>1. CalleeOf(c) = scope[<<c.receiver.type.name, c.name>>]
        BY <3>5 DEF CalleeOf
      <4> QED
        BY <3>2, <3>5, <4>1 DEF Keys, Owners
    <3> QED
      BY <3>2, <3>3, <3>4, <3>5
  <2> QED
    BY <2>1, <2>2, ArgsType, CallOfIsRight
<1> QED
  BY <1>2, <1>3, <1>4

(* A call declares nothing.                                                *)
LEMMA CallStep ==
  ASSUME CInv, NEW c \in CallTexts, Call(c)
  PROVE  CInv' /\ funcs' = funcs
<1>. /\ funcs' = funcs /\ scope' = scope /\ declarations' = declarations /\ reading' = reading
     /\ text' = text /\ ahead' = ahead /\ signature' = signature /\ ended' = ended
     /\ reading # 0 /\ call' = ReadCall(c) /\ accepted' \in BOOLEAN
  BY DEF Call, symbols, lexer, ErrorIf
<1>1. ScopeInv'
  BY DEF CInv, ScopeInv
<1>2. ListInv'
  BY DEF CInv, ListInv, ToSet, Undeclared, Meaning
<1>3. TextInv'
  BY DEF CInv, TextInv
<1>4. SetsAreDistinct' /\ AllDefined'
  BY DEF CInv, TextInv, SetsAreDistinct, FuncsOf, AllDefined
<1>5. CallInv'
  <2>1. BestFor(call') /\ call'.outcome \in {"bound", "refused", "ambiguous", "no match"}
    BY ReadCallIsRight
  <2>2. BestOverload'
    <3>1. Candidates(call)' = Candidates(call') /\ BestOf(call)' = BestOf(call')
      BY DEF Candidates, BestOf, ScoreIn
    <3> QED
      BY <2>1, <3>1 DEF BestFor, BestOverload
  <2> QED
    BY <2>1, <2>2 DEF CallInv
<1> QED
  BY <1>1, <1>2, <1>3, <1>4, <1>5 DEF CInv

-----------------------------------------------------------------------------
(* The specification                                                       *)

LEMMA Starts ==
  ASSUME Init
  PROVE  CInv
<1>1. /\ funcs = <<>> /\ DOMAIN funcs = {} /\ declarations = <<>> /\ text = NoText
      /\ signature = NoSignature /\ reading = 0 /\ call = NoCall /\ accepted = TRUE /\ ended = FALSE
  BY DEF Init
<1>2. /\ scope \in [Keys -> [kind : Kinds, funcs : Seq(Nat)]]
      /\ \A k \in Keys : /\ scope[k].kind \in {"none", "var"} /\ scope[k].funcs = <<>>
                         /\ DOMAIN scope[k].funcs = {}
  BY DEF Init, Keys, Kinds, Meaning, Undeclared
<1>3. ScopeInv
  BY <1>1, <1>2 DEF ScopeInv
<1>4. ListInv
  <2>1. ToSet(declarations) = {} /\ Len(declarations) = 0 /\ declarations \in Seq(Keys)
    BY <1>1 DEF ToSet
  <2> QED
    BY <1>2, <2>1, FS_EmptySet DEF ListInv
<1>5. TextInv
  <2>1. signature.params = <<>> /\ DOMAIN signature = {"params", "default_seen", "ok", "reports"}
    BY <1>1 DEF NoSignature
  <2>2. signature.params \in Seq(Param) /\ reading \in 0..Len(funcs) /\ reading = 0
    BY <1>1, <2>1
  <2>3. accepted \in BOOLEAN /\ ended \in BOOLEAN
    BY <1>1
  <2> QED
    BY <1>1, <2>1, <2>2, <2>3, Zenon DEF TextInv
<1>6. SetsAreDistinct /\ AllDefined
  BY <1>1, <1>2 DEF SetsAreDistinct, FuncsOf, ToSet, AllDefined
<1>7. CallInv
  BY <1>1 DEF CallInv, NoCall, BestOverload
<1> QED
  BY <1>3, <1>4, <1>5, <1>6, <1>7 DEF CInv

(* A signature that does not change is kept.                               *)
LEMMA SignatureIsKept ==
  ASSUME NEW s
  PROVE  SignatureKept(s, s)
BY DEF SignatureKept, AlikeIn

(* What a step does to the functions that are there.                       *)
Kept == \A i \in DOMAIN funcs : /\ SignatureKept(funcs[i].sig, funcs'[i].sig)
                                /\ funcs[i].has_body => funcs'[i] = funcs[i]

(* Every step keeps the invariant and the signatures.                      *)
LEMMA Steps ==
  ASSUME CInv, Next
  PROVE  CInv' /\ Kept
<1>1. funcs' = funcs => Kept
  BY SignatureIsKept DEF Kept
<1>2. ASSUME NEW d \in Declarations, BeginDecl(d)
      PROVE  CInv' /\ funcs' = funcs
  BY <1>2, BeginText DEF BeginDecl, symbols
<1>3. CASE ReadSignature
  BY <1>1, <1>3, ReadText DEF ReadSignature, symbols
<1>4. CASE FinishDecl
  <2>1. CASE RefuseDecl(text)
    BY <1>1, <1>4, <2>1, RefuseText DEF RefuseDecl
  <2>2. CASE DeclareFunction(text)
    BY <1>4, <2>2, DeclaredText, SignatureIsKept DEF Kept
  <2>3. CASE FillForwardDecl(text)
    BY <1>4, <2>3, FilledText DEF Kept
  <2> QED
    BY <1>4, <2>1, <2>2, <2>3 DEF FinishDecl
<1>5. ASSUME NEW c \in CallTexts, Call(c)
      PROVE  CInv' /\ funcs' = funcs
  BY <1>5, CallStep
<1>6. CASE EndBody
  BY <1>6, EndOfBody, SignatureIsKept DEF Kept
<1>7. CASE EndModule
  BY <1>1, <1>7, EndText DEF EndModule, symbols
<1> QED
  BY <1>1, <1>2, <1>3, <1>4, <1>5, <1>6, <1>7 DEF Next

(* A step of something else changes nothing.                               *)
LEMMA Stutters ==
  ASSUME CInv, UNCHANGED vars
  PROVE  CInv'
<1>1. /\ funcs' = funcs /\ scope' = scope /\ declarations' = declarations
      /\ text' = text /\ ahead' = ahead /\ signature' = signature
      /\ reading' = reading /\ call' = call /\ accepted' = accepted /\ ended' = ended
  BY DEF vars, symbols, lexer
<1>2. ScopeInv' /\ SetsAreDistinct' /\ AllDefined'
  BY <1>1 DEF CInv, ScopeInv, SetsAreDistinct, FuncsOf, AllDefined
<1>3. ListInv'
  BY <1>1 DEF CInv, ListInv, ToSet, Undeclared, Meaning
<1>4. TextInv'
  BY <1>1 DEF CInv, TextInv, Entries
<1>5. CallInv'
  BY <1>1 DEF CInv, CallInv, BestOverload, BestOf, Candidates, ScoreIn
<1> QED
  BY <1>2, <1>3, <1>4, <1>5 DEF CInv

(* Whatever is declared and called, the scopes, the module's list, the     *)
(* text that is read and the last call fit together.                       *)
THEOREM Inductive == Spec => []CInv
<1>1. Init => CInv
  BY Starts
<1>2. CInv /\ [Next]_vars => CInv'
  BY Steps, Stutters
<1> QED
  BY <1>1, <1>2, PTL DEF Spec

(* A function is found under one name only, and a body is read only of a   *)
(* function that can have one (DeclareFunction, ParseFunction).            *)
THEOREM TypeCorrect == Spec => []TypeOK
<1>1. ASSUME CInv
      PROVE  TypeOK
  <2>1. ASSUME NEW i \in DOMAIN funcs
        PROVE  /\ funcs[i].owner \in Owners
               /\ \A p \in ToSet(funcs[i].sig.params) : p.mode \in Modes
               /\ Quantify(DOMAIN scope, LAMBDA k : i \in FuncsOf(k)) = 1
    <3> DEFINE own == <<funcs[i].owner, funcs[i].name>>
    <3>1. funcs[i] \in Function /\ own \in Keys
      BY <1>1, FunctionType DEF CInv, Function, Keys
    <3>2. \A p \in ToSet(funcs[i].sig.params) : p.mode \in Modes
      <4>1. \A s \in Seq(Param) : \A p \in ToSet(s) : p \in Param
        BY DEF ToSet
      <4>2. funcs[i].sig.params \in Seq(Param)
        BY <3>1 DEF Function, Signature
      <4> QED
        BY <4>1, <4>2 DEF Param
    <3>3. {k \in DOMAIN scope : i \in FuncsOf(k)} = {own}
      <4>1. DOMAIN scope = Keys
        BY <1>1 DEF CInv, ScopeInv
      <4>2. i \in FuncsOf(own)
        BY <1>1 DEF CInv, ScopeInv, FuncsOf, ToSet
      <4>3. ASSUME NEW k \in Keys, i \in FuncsOf(k)
            PROVE  k = own
        BY <1>1, <4>3 DEF CInv, ScopeInv, FuncsOf, ToSet
      <4> HIDE DEF own
      <4> QED
        BY <3>1, <4>1, <4>2, <4>3
    <3>4. Quantify(DOMAIN scope, LAMBDA k : i \in FuncsOf(k)) = Cardinality({own})
      BY <3>3, Zenon DEF Quantify
    <3>5. funcs[i].owner \in Owners
      BY <3>1 DEF Function
    <3> QED
      BY <3>2, <3>4, <3>5, FS_Singleton, Zenon
  <2>2. ASSUME NEW k \in DOMAIN scope
        PROVE  /\ scope[k].kind \in {"none", "var", "func", "overload"}
               /\ FuncsOf(k) \subseteq DOMAIN funcs
               /\ scope[k].kind = "func" => Len(scope[k].funcs) = 1
    BY <1>1 DEF CInv, ScopeInv, Kinds, FuncsOf, ToSet
  <2>3. Cardinality(ToSet(declarations)) = Len(declarations)
    BY <1>1 DEF CInv, ListInv
  <2>4. /\ reading \in 0..Len(funcs) /\ (reading # 0 => ~funcs[reading].external /\ text = NoText)
        /\ text # NoText => ahead \in 1..(Entries + 1) /\ Len(signature.params) < ahead
        /\ accepted \in BOOLEAN /\ ended \in BOOLEAN
    BY <1>1 DEF CInv, TextInv
  <2>5. call.outcome \in {"none", "bound", "refused", "ambiguous", "no match"}
    BY <1>1 DEF CInv, CallInv
  <2> QED
    BY <2>1, <2>2, <2>3, <2>4, <2>5, Zenon DEF TypeOK
<1> QED
  BY <1>1, Inductive, PTL

(* A call of an overloaded name is bound to the best of the functions that *)
(* take its arguments, in whatever order they were declared, and the       *)
(* binding never refuses what the ranking chose                            *)
(* (ParseExprOverloadCallWithRawArgs, BindCallArguments).                  *)
THEOREM BestIsChosen == Spec => []BestOverload
<1>1. CInv => BestOverload
  BY DEF CInv, CallInv
<1> QED
  BY <1>1, Inductive, PTL

(* A module that was accepted has a body, or a foreign definition, for     *)
(* every function (ValidateModuleForwardFuncDecls).                        *)
THEOREM EverythingDefined == Spec => []AllDefined
<1>1. CInv => AllDefined
  BY DEF CInv
<1> QED
  BY <1>1, Inductive, PTL

(* No overload set holds two functions with the same parameter types, or   *)
(* with different results (FindMatchingOverloadDecl).                      *)
THEOREM OverloadsDistinct == Spec => []SetsAreDistinct
<1>1. CInv => SetsAreDistinct
  BY DEF CInv
<1> QED
  BY <1>1, Inductive, PTL

(* A later declaration changes nothing that calls were bound against       *)
(* (MergeForwardDeclFrom).                                                 *)
THEOREM SignaturesStay == Spec => SignaturesKept
<1>1. CInv /\ [Next]_vars => [Kept]_vars
  BY Steps
<1>2. Spec => [][Kept]_vars
  BY <1>1, Inductive, PTL DEF Spec
<1> QED
  BY <1>2 DEF SignaturesKept, Kept

-----------------------------------------------------------------------------
(* The text of a body.  d[i] is the number of statements construct i is    *)
(* in; the branches and the end of a statement are in it, its first part   *)
(* is not.                                                                 *)

Branches == {"elif", "else", "end"}
Parts    == {"while", "if", "elif", "else"}

Constructs == [op : Parts \cup {"do", "return", "end"}, iif : BOOLEAN, next : Nat, end : Nat]
Statements == [op : Openers, parts : Seq(Nat), else_present : BOOLEAN]

DepthAfter(c, n) == IF c.op \in Openers THEN n + 1 ELSE IF c.op = "end" THEN n - 1 ELSE n

Depths(t, n, d) ==
  /\ d \in [1..(Len(t) + 1) -> Nat]
  /\ d[1] = 0 /\ d[Len(t) + 1] = n
  /\ \A i \in 1..(Len(t) + 1) : d[i] < i
  /\ \A i \in 1..Len(t) : d[i + 1] = DepthAfter(t[i], d[i])

(* How deep the constructs are that are in the same statement.             *)
Level(t, d, i) == IF t[i].op \in Openers THEN d[i] + 1 ELSE d[i]

NoneIn(t, d, S, k, i, j) == \A m \in (i + 1)..(j - 1) : t[m].op \in S => d[m] # k

(* The first construct after i, of the same statement, with an op in S.    *)
NextAt(t, d, S, i, j) ==
  /\ j \in (i + 1)..Len(t) /\ t[j].op \in S /\ d[j] = Level(t, d, i)
  /\ NoneIn(t, d, S, Level(t, d, i), i, j)

Continued(t, d, i) ==
  LET j == t[i].next IN
  /\ NextAt(t, d, Branches, i, j)
  /\ t[i].op = "while" => t[j].op = "end" /\ t[j].next = i
  /\ t[i].op # "while" /\ t[j].op = "end" => t[j].next = j + 1

IsLast(t, o, d, i) ==
  LET k == Level(t, d, i) IN
  /\ t[i].next = 0 /\ k \in 1..Len(o) /\ i = Last(o[k].parts)
  /\ NoneIn(t, d, Branches, k, i, Len(t) + 1)

IsOpen(t, o, d, i) ==
  LET k == Level(t, d, i) IN
  /\ t[i].end = 0 /\ k \in 1..Len(o) /\ i \in ToSet(o[k].parts)
  /\ NoneIn(t, d, {"end"}, k, i, Len(t) + 1)

PartInv(t, o, d, i) ==
  /\ Continued(t, d, i) \/ IsLast(t, o, d, i)
  /\ NextAt(t, d, {"end"}, i, t[i].end) \/ IsOpen(t, o, d, i)

EndInv(t, j) == t[j].next = j + 1 \/ (t[j].next \in 1..Len(t) /\ t[t[j].next].op = "while")

OpenInv(t, s, d, k) ==
  LET q == s.parts IN
  /\ q # <<>>
  /\ \A r \in 1..Len(q) : /\ q[r] \in 1..Len(t) /\ t[q[r]].op \in Parts
                          /\ Level(t, d, q[r]) = k
                          /\ t[q[r]].end = 0
                          /\ t[q[r]].next = 0 <=> r = Len(q)
                          /\ t[q[r]].op = "while" <=> s.op = "while"
  /\ s.op = "while" => Len(q) = 1

Structured(t, o, d) ==
  /\ t \in Seq(Constructs) /\ o \in Seq(Statements)
  /\ Depths(t, Len(o), d)
  /\ \A i \in 1..Len(t) : t[i].op \in Parts => PartInv(t, o, d, i)
  /\ \A j \in 1..Len(t) : t[j].op = "end" => EndInv(t, j)
  /\ \A k \in 1..Len(o) : OpenInv(t, o[k], d, k)

-----------------------------------------------------------------------------
(* Reading the text                                                        *)

(* u is t with one construct more; the links of t's may be new.            *)
Extends(t, d, u, e) ==
  /\ t \in Seq(Constructs) /\ u \in Seq(Constructs)
  /\ Len(u) = Len(t) + 1
  /\ \A i \in 1..Len(t) : u[i].op = t[i].op
  /\ \A i \in 1..(Len(t) + 1) : e[i] = d[i]

Deeper(t, d, n) == [i \in 1..(Len(t) + 2) |-> IF i = Len(t) + 2 THEN n ELSE d[i]]

(* The depths of a longer text.                                            *)
LEMMA DeeperDepths ==
  ASSUME NEW t \in Seq(Constructs), NEW u \in Seq(Constructs), NEW n \in Nat, NEW d,
         Depths(t, n, d), Len(u) = Len(t) + 1,
         \A i \in 1..Len(t) : u[i].op = t[i].op,
         DepthAfter(u[Len(u)], n) \in Nat
  PROVE  LET e == Deeper(t, d, DepthAfter(u[Len(u)], n))
         IN  Depths(u, DepthAfter(u[Len(u)], n), e) /\ Extends(t, d, u, e)
<1> DEFINE m == DepthAfter(u[Len(u)], n)
           e == Deeper(t, d, m)
<1>1. Len(t) \in Nat /\ Len(u) + 1 = Len(t) + 2
  OBVIOUS
<1>2. e \in [1..(Len(u) + 1) -> Nat]
  BY <1>1 DEF Deeper, Depths
<1>3. e[Len(u) + 1] = m /\ \A i \in 1..(Len(t) + 1) : e[i] = d[i]
  BY <1>1 DEF Deeper
<1>4. m <= n + 1
  BY DEF DepthAfter
<1>5. d[Len(u)] = n /\ n < Len(u)
  BY <1>1 DEF Depths
<1> HIDE DEF m, e
<1>6. \A i \in 1..(Len(u) + 1) : e[i] < i
  <2> TAKE i \in 1..(Len(u) + 1)
  <2>1. CASE i = Len(u) + 1
    BY <1>1, <1>3, <1>4, <1>5, <2>1, DepthAfter(u[Len(u)], n) \in Nat DEF m
  <2>2. CASE i # Len(u) + 1
    BY <1>1, <1>3, <2>2 DEF Depths
  <2> QED
    BY <2>1, <2>2
<1>7. \A i \in 1..Len(u) : e[i + 1] = DepthAfter(u[i], e[i])
  <2> TAKE i \in 1..Len(u)
  <2>1. CASE i = Len(u)
    BY <1>1, <1>3, <1>5, <2>1 DEF m
  <2>2. CASE i # Len(u)
    <3>1. i \in 1..Len(t) /\ i + 1 \in 1..(Len(t) + 1) /\ i \in 1..(Len(t) + 1)
      BY <1>1, <2>2
    <3>2. e[i + 1] = d[i + 1] /\ e[i] = d[i] /\ d[i + 1] = DepthAfter(t[i], d[i])
      BY <1>3, <3>1 DEF Depths
    <3> QED
      BY <3>1, <3>2 DEF DepthAfter
  <2> QED
    BY <2>1, <2>2
<1>8. Depths(u, m, e)
  BY <1>1, <1>2, <1>3, <1>6, <1>7 DEF Depths
<1> QED
  BY <1>3, <1>8 DEF Extends, m, e

(* The constructs of a text stay as deep when one is added.                *)
LEMMA LevelKeeps ==
  ASSUME NEW t, NEW d, NEW u, NEW e, Extends(t, d, u, e)
  PROVE  \A i \in 1..Len(t) : Level(u, e, i) = Level(t, d, i)
<1>1. Len(t) \in Nat
  BY DEF Extends
<1> QED
  BY <1>1 DEF Extends, Level

(* What is known of the constructs of a text does not depend on those that *)
(* follow.                                                                 *)
LEMMA ExtendsKeeps ==
  ASSUME NEW t, NEW d, NEW u, NEW e, Extends(t, d, u, e),
         NEW i \in 1..Len(t), NEW S
  PROVE  /\ Level(u, e, i) = Level(t, d, i)
         /\ \A j : NextAt(t, d, S, i, j) => NextAt(u, e, S, i, j) /\ j \in 1..Len(t)
         /\ \A k : NoneIn(t, d, S, k, i, Len(t) + 1) => NoneIn(u, e, S, k, i, Len(u))
         /\ \A k : NoneIn(t, d, S, k, i, Len(t) + 1) /\ (u[Len(u)].op \in S => e[Len(u)] # k)
                   => NoneIn(u, e, S, k, i, Len(u) + 1)
<1>1. Len(t) \in Nat /\ Len(u) = Len(t) + 1
  BY DEF Extends
<1>2. Level(u, e, i) = Level(t, d, i)
  BY LevelKeeps
<1>3. ASSUME NEW j, NextAt(t, d, S, i, j)
      PROVE  NextAt(u, e, S, i, j) /\ j \in 1..Len(t)
  <2>1. j \in 1..Len(t) /\ j \in (i + 1)..Len(u)
    BY <1>1, <1>3 DEF NextAt
  <2>2. NoneIn(u, e, S, Level(t, d, i), i, j)
    BY <1>1, <1>3, <2>1 DEF NextAt, NoneIn, Extends
  <2> QED
    BY <1>1, <1>2, <1>3, <2>1, <2>2 DEF NextAt, Extends
<1>4. ASSUME NEW k, NoneIn(t, d, S, k, i, Len(t) + 1)
      PROVE  NoneIn(u, e, S, k, i, Len(u))
  BY <1>1, <1>4 DEF NoneIn, Extends
<1>5. ASSUME NEW k, NoneIn(t, d, S, k, i, Len(t) + 1), u[Len(u)].op \in S => e[Len(u)] # k
      PROVE  NoneIn(u, e, S, k, i, Len(u) + 1)
  <2> SUFFICES ASSUME NEW m \in (i + 1)..(Len(u) + 1 - 1), u[m].op \in S
               PROVE  e[m] # k
    BY DEF NoneIn
  <2>1. CASE m = Len(u)
    BY <1>5, <2>1
  <2>2. CASE m # Len(u)
    <3>1. NoneIn(u, e, S, k, i, Len(u))
      BY <1>4, <1>5
    <3>2. m \in (i + 1)..(Len(u) - 1)
      BY <1>1, <2>2
    <3> QED
      BY <3>1, <3>2 DEF NoneIn
  <2> QED
    BY <2>1, <2>2
<1> QED
  BY <1>2, <1>3, <1>4, <1>5

(* So a part of a statement keeps its links, and if nothing ends its       *)
(* statement it stays open.                                                *)
LEMMA PartKeeps ==
  ASSUME NEW t, NEW d, NEW u, NEW e, Extends(t, d, u, e), NEW o, NEW v,
         NEW i \in 1..Len(t)
  PROVE  LET k == Level(t, d, i)
         IN  /\ Continued(t, d, i) /\ u[i].next = t[i].next
                  /\ (t[t[i].next].op = "end" => u[t[i].next].next = t[t[i].next].next)
                => Continued(u, e, i)
             /\ IsLast(t, o, d, i) /\ u[i].next = t[i].next
                  /\ k \in 1..Len(v) /\ Last(v[k].parts) = Last(o[k].parts)
                  /\ (u[Len(u)].op \in Branches => e[Len(u)] # k)
                => IsLast(u, v, e, i)
             /\ NextAt(t, d, {"end"}, i, t[i].end) /\ u[i].end = t[i].end
                => NextAt(u, e, {"end"}, i, u[i].end)
             /\ IsOpen(t, o, d, i) /\ u[i].end = t[i].end
                  /\ k \in 1..Len(v) /\ i \in ToSet(v[k].parts)
                  /\ (u[Len(u)].op = "end" => e[Len(u)] # k)
                => IsOpen(u, v, e, i)
<1> DEFINE k == Level(t, d, i)
           E == {"end"}
<1>1. Level(u, e, i) = k /\ u[i].op = t[i].op
  BY LevelKeeps DEF Extends
<1>2. ASSUME Continued(t, d, i), u[i].next = t[i].next,
             t[t[i].next].op = "end" => u[t[i].next].next = t[t[i].next].next
      PROVE  Continued(u, e, i)
  <2>1. NextAt(t, d, Branches, i, t[i].next)
    BY <1>2 DEF Continued
  <2>2. NextAt(u, e, Branches, i, u[i].next) /\ t[i].next \in 1..Len(t)
    BY <1>2, <2>1, ExtendsKeeps
  <2>3. u[t[i].next].op = t[t[i].next].op
    BY <2>2 DEF Extends
  <2> QED
    BY <1>1, <1>2, <2>2, <2>3 DEF Continued
<1>3. ASSUME IsLast(t, o, d, i), u[i].next = t[i].next,
             k \in 1..Len(v), Last(v[k].parts) = Last(o[k].parts),
             u[Len(u)].op \in Branches => e[Len(u)] # k
      PROVE  IsLast(u, v, e, i)
  <2>1. NoneIn(t, d, Branches, k, i, Len(t) + 1)
    BY <1>3 DEF IsLast
  <2>2. NoneIn(u, e, Branches, k, i, Len(u) + 1)
    <3> HIDE DEF k
    <3> QED
      BY <1>3, <2>1, ExtendsKeeps
  <2> QED
    BY <1>1, <1>3, <2>2 DEF IsLast
<1>4. ASSUME NextAt(t, d, {"end"}, i, t[i].end), u[i].end = t[i].end
      PROVE  NextAt(u, e, {"end"}, i, u[i].end)
  <2>1. NextAt(t, d, E, i, t[i].end)
    BY <1>4
  <2>2. NextAt(u, e, E, i, t[i].end)
    <3> HIDE DEF E
    <3> QED
      BY <2>1, ExtendsKeeps
  <2> QED
    BY <1>4, <2>2
<1>5. ASSUME IsOpen(t, o, d, i), u[i].end = t[i].end,
             k \in 1..Len(v), i \in ToSet(v[k].parts),
             u[Len(u)].op = "end" => e[Len(u)] # k
      PROVE  IsOpen(u, v, e, i)
  <2>1. NoneIn(t, d, E, k, i, Len(t) + 1)
    BY <1>5 DEF IsOpen
  <2>2. u[Len(u)].op \in E => e[Len(u)] # k
    BY <1>5
  <2>3. NoneIn(u, e, E, k, i, Len(u) + 1)
    <3> HIDE DEF k, E
    <3> QED
      BY <2>1, <2>2, ExtendsKeeps
  <2> QED
    BY <1>1, <1>5, <2>3 DEF IsOpen
<1> QED
  BY <1>2, <1>3, <1>4, <1>5

(* An open statement stays one while its parts do.                         *)
LEMMA OpenKeeps ==
  ASSUME NEW t, NEW d, NEW u, NEW e, NEW s, NEW k, OpenInv(t, s, d, k),
         Len(t) \in Nat, Len(u) \in Nat, Len(t) <= Len(u),
         \A r \in 1..Len(s.parts) :
           /\ u[s.parts[r]].op = t[s.parts[r]].op /\ u[s.parts[r]].end = t[s.parts[r]].end
           /\ u[s.parts[r]].next = t[s.parts[r]].next
           /\ Level(u, e, s.parts[r]) = Level(t, d, s.parts[r])
  PROVE  OpenInv(u, s, e, k)
<1>1. ASSUME NEW r \in 1..Len(s.parts)
      PROVE  /\ s.parts[r] \in 1..Len(u) /\ u[s.parts[r]].op \in Parts
             /\ Level(u, e, s.parts[r]) = k
             /\ u[s.parts[r]].end = 0
             /\ u[s.parts[r]].next = 0 <=> r = Len(s.parts)
             /\ u[s.parts[r]].op = "while" <=> s.op = "while"
  BY <1>1 DEF OpenInv
<1> QED
  BY <1>1 DEF OpenInv

(* A statement without parts.                                              *)
LEMMA SimpleIsStructured ==
  ASSUME NEW t, NEW o, NEW d, Structured(t, o, d),
         NEW c \in Constructs, c.op \in {"do", "return"}
  PROVE  Structured(Append(t, c), o, Deeper(t, d, Len(o)))
<1> DEFINE u == Append(t, c)
           e == Deeper(t, d, Len(o))
<1>1. /\ t \in Seq(Constructs) /\ o \in Seq(Statements) /\ Len(t) \in Nat /\ Len(o) \in Nat
      /\ Depths(t, Len(o), d)
  BY DEF Structured
<1>2. /\ u \in Seq(Constructs) /\ Len(u) = Len(t) + 1 /\ u[Len(u)] = c
      /\ \A i \in 1..Len(t) : u[i] = t[i]
  BY <1>1, AppendProperties
<1> HIDE DEF u
<1>3. DepthAfter(u[Len(u)], Len(o)) = Len(o)
  BY <1>2 DEF DepthAfter, Openers
<1>4. Depths(u, Len(o), e) /\ Extends(t, d, u, e)
  BY <1>1, <1>2, <1>3, DeeperDepths
<1> HIDE DEF e
<1>5. ASSUME NEW i \in 1..Len(u), u[i].op \in Parts
      PROVE  PartInv(u, o, e, i)
  <2>1. i \in 1..Len(t) /\ u[i] = t[i] /\ PartInv(t, o, d, i)
    <3>1. i # Len(u)
      BY <1>2, <1>5 DEF Parts
    <3> QED
      BY <1>1, <1>2, <1>5, <3>1 DEF Structured
  <2>2. u[Len(u)].op \notin Branches /\ u[Len(u)].op # "end"
    BY <1>2 DEF Branches
  <2>3. Continued(t, d, i) => t[i].next \in 1..Len(t)
    BY <1>1, <2>1 DEF Continued, NextAt
  <2>4. Continued(t, d, i) \/ IsLast(t, o, d, i) => Continued(u, e, i) \/ IsLast(u, o, e, i)
    BY <1>2, <1>4, <2>1, <2>2, <2>3, PartKeeps DEF IsLast
  <2>5. NextAt(t, d, {"end"}, i, t[i].end) \/ IsOpen(t, o, d, i)
        => NextAt(u, e, {"end"}, i, u[i].end) \/ IsOpen(u, o, e, i)
    BY <1>4, <2>1, <2>2, PartKeeps DEF IsOpen
  <2> QED
    BY <2>1, <2>4, <2>5 DEF PartInv
<1>6. ASSUME NEW j \in 1..Len(u), u[j].op = "end"
      PROVE  EndInv(u, j)
  <2>1. j \in 1..Len(t) /\ u[j] = t[j] /\ EndInv(t, j)
    <3>1. j # Len(u)
      BY <1>2, <1>6
    <3> QED
      BY <1>1, <1>2, <1>6, <3>1 DEF Structured
  <2> QED
    BY <1>1, <1>2, <2>1 DEF EndInv
<1>7. ASSUME NEW k \in 1..Len(o)
      PROVE  OpenInv(u, o[k], e, k)
  <2>1. OpenInv(t, o[k], d, k)
    BY DEF Structured
  <2>2. \A i \in 1..Len(t) : Level(u, e, i) = Level(t, d, i)
    BY <1>4, LevelKeeps
  <2>3. \A r \in 1..Len(o[k].parts) : o[k].parts[r] \in 1..Len(t)
    BY <2>1 DEF OpenInv
  <2> QED
    BY <1>1, <1>2, <2>1, <2>2, <2>3, OpenKeeps
<1> QED
  BY <1>1, <1>2, <1>4, <1>5, <1>6, <1>7 DEF Structured, u, e

(* The first part of a statement opens it.                                 *)
LEMMA OpenedIsStructured ==
  ASSUME NEW t, NEW o, NEW d, Structured(t, o, d),
         NEW c \in Constructs, c.op \in Openers, c.next = 0, c.end = 0
  PROVE  LET s == [op |-> c.op, parts |-> <<Len(t) + 1>>, else_present |-> FALSE]
         IN  Structured(Append(t, c), Append(o, s), Deeper(t, d, Len(o) + 1))
<1> DEFINE u == Append(t, c)
           s == [op |-> c.op, parts |-> <<Len(t) + 1>>, else_present |-> FALSE]
           v == Append(o, s)
           e == Deeper(t, d, Len(o) + 1)
<1>1. /\ t \in Seq(Constructs) /\ o \in Seq(Statements) /\ Len(t) \in Nat /\ Len(o) \in Nat
      /\ Depths(t, Len(o), d)
  BY DEF Structured
<1>2. /\ u \in Seq(Constructs) /\ Len(u) = Len(t) + 1 /\ u[Len(u)] = c
      /\ \A i \in 1..Len(t) : u[i] = t[i]
  BY <1>1, AppendProperties
<1>3. s \in Statements
  BY <1>1 DEF Statements
<1>4. /\ v \in Seq(Statements) /\ Len(v) = Len(o) + 1 /\ v[Len(v)] = s
      /\ \A k \in 1..Len(o) : v[k] = o[k]
  BY <1>1, <1>3, AppendProperties
<1>5. s.op = c.op /\ s.parts = <<Len(u)>> /\ Len(s.parts) = 1 /\ s.parts[1] = Len(u)
  BY <1>2
<1> HIDE DEF u, s, v
<1>6. DepthAfter(u[Len(u)], Len(o)) = Len(v)
  BY <1>2, <1>4 DEF DepthAfter
<1>7. Depths(u, Len(v), e) /\ Extends(t, d, u, e)
  BY <1>1, <1>2, <1>4, <1>6, DeeperDepths
<1> HIDE DEF e
<1>8. e[Len(u)] = Len(o)
  BY <1>1, <1>2, <1>7 DEF Extends, Depths
<1>9. u[Len(u)].op \notin Branches /\ Level(u, e, Len(u)) = Len(v)
  BY <1>2, <1>4, <1>8 DEF Branches, Openers, Level
<1>10. ASSUME NEW i \in 1..Len(u), u[i].op \in Parts
       PROVE  PartInv(u, v, e, i)
  <2>1. CASE i = Len(u)
    <3>1. u[i].next = 0 /\ u[i].end = 0 /\ Len(v) \in 1..Len(v) /\ v[Len(v)].parts = <<i>>
      BY <1>1, <1>2, <1>4, <1>5, <2>1
    <3>2. \A S : NoneIn(u, e, S, Len(v), i, Len(u) + 1)
      BY <1>1, <1>2, <2>1 DEF NoneIn
    <3>3. i = Last(<<i>>) /\ i \in ToSet(<<i>>)
      BY DEF Last, ToSet
    <3> QED
      BY <1>9, <2>1, <3>1, <3>2, <3>3 DEF PartInv, IsLast, IsOpen
  <2>2. CASE i # Len(u)
    <3>1. i \in 1..Len(t) /\ u[i] = t[i] /\ PartInv(t, o, d, i)
      BY <1>1, <1>2, <1>10, <2>2 DEF Structured
    <3>2. \A k \in 1..Len(o) : k \in 1..Len(v) /\ v[k] = o[k]
      BY <1>1, <1>4
    <3>3. Continued(t, d, i) => t[i].next \in 1..Len(t)
      BY <1>1, <3>1 DEF Continued, NextAt
    <3>4. Continued(t, d, i) \/ IsLast(t, o, d, i) => Continued(u, e, i) \/ IsLast(u, v, e, i)
      BY <1>2, <1>7, <1>9, <3>1, <3>2, <3>3, PartKeeps DEF IsLast
    <3>5. NextAt(t, d, {"end"}, i, t[i].end) \/ IsOpen(t, o, d, i)
          => NextAt(u, e, {"end"}, i, u[i].end) \/ IsOpen(u, v, e, i)
      BY <1>7, <1>9, <3>1, <3>2, PartKeeps DEF IsOpen, Branches
    <3> QED
      BY <3>1, <3>4, <3>5 DEF PartInv
  <2> QED
    BY <2>1, <2>2
<1>11. ASSUME NEW j \in 1..Len(u), u[j].op = "end"
       PROVE  EndInv(u, j)
  <2>1. j \in 1..Len(t) /\ u[j] = t[j] /\ EndInv(t, j)
    <3>1. j # Len(u)
      BY <1>2, <1>11 DEF Openers
    <3> QED
      BY <1>1, <1>2, <1>11, <3>1 DEF Structured
  <2> QED
    BY <1>1, <1>2, <2>1 DEF EndInv
<1>12. ASSUME NEW k \in 1..Len(v)
       PROVE  OpenInv(u, v[k], e, k)
  <2>1. CASE k = Len(v)
    <3>1. /\ u[Len(u)].op \in Parts /\ u[Len(u)].end = 0 /\ u[Len(u)].next = 0
          /\ u[Len(u)].op = s.op /\ Len(u) \in 1..Len(u) /\ s.parts # <<>>
      BY <1>1, <1>2, <1>5 DEF Parts, Openers
    <3>2. \A r \in 1..Len(s.parts) : r = 1
      BY <1>5
    <3> QED
      BY <1>4, <1>5, <1>9, <2>1, <3>1, <3>2 DEF OpenInv
  <2>2. CASE k # Len(v)
    <3>1. k \in 1..Len(o) /\ v[k] = o[k] /\ OpenInv(t, o[k], d, k)
      BY <1>1, <1>4, <2>2 DEF Structured
    <3>2. \A i \in 1..Len(t) : Level(u, e, i) = Level(t, d, i)
      BY <1>7, LevelKeeps
    <3>3. \A r \in 1..Len(o[k].parts) : o[k].parts[r] \in 1..Len(t)
      BY <3>1 DEF OpenInv
    <3> DEFINE w == o[k]
    <3>4. OpenInv(u, w, e, k)
      <4>1. /\ OpenInv(t, w, d, k) /\ Len(u) \in Nat /\ Len(t) <= Len(u)
            /\ \A r \in 1..Len(w.parts) : w.parts[r] \in 1..Len(t)
        BY <1>1, <1>2, <3>1, <3>3
      <4> HIDE DEF w
      <4> QED
        BY <1>1, <1>2, <3>2, <4>1, OpenKeeps
    <3> QED
      BY <3>1, <3>4
  <2> QED
    BY <2>1, <2>2
<1> QED
  BY <1>2, <1>4, <1>7, <1>10, <1>11, <1>12 DEF Structured, u, s, v, e

(* The last parts of two open statements differ, as all their parts do.    *)
LEMMA PartsOfOne ==
  ASSUME NEW t, NEW o, NEW d, Structured(t, o, d),
         NEW k \in 1..Len(o), NEW i \in ToSet(o[k].parts)
  PROVE  /\ i \in 1..Len(t) /\ t[i].op \in Parts /\ Level(t, d, i) = k
         /\ t[i].end = 0 /\ (t[i].next = 0 <=> i = Last(o[k].parts))
         /\ t[i].op = "while" <=> o[k].op = "while"
         /\ o[k].op = "while" => o[k].parts[1] = i
<1> DEFINE q == o[k].parts
<1>1. q \in Seq(Nat) /\ Len(q) \in Nat /\ DOMAIN q = 1..Len(q)
  <2>1. o[k] \in Statements
    BY DEF Structured
  <2> QED
    BY <2>1 DEF Statements
<1>2. PICK r \in 1..Len(q) : i = q[r]
  BY <1>1 DEF ToSet
<1>3. OpenInv(t, o[k], d, k)
  BY DEF Structured
<1>4. Len(q) \in 1..Len(q)
  BY <1>1, <1>2
<1>5. t[i].next = 0 <=> i = Last(q)
  BY <1>1, <1>2, <1>3, <1>4 DEF OpenInv, Last
<1>6. o[k].op = "while" => r = 1
  BY <1>2, <1>3 DEF OpenInv
<1> QED
  BY <1>2, <1>3, <1>5, <1>6 DEF OpenInv

(* A branch continues the last part of the innermost open statement.       *)
LEMMA BranchIsStructured ==
  ASSUME NEW t, NEW o, NEW d, Structured(t, o, d), o # <<>>,
         NEW u \in Seq(Constructs), NEW v \in Seq(Statements),
         o[Len(o)].op = "if", v[Len(o)].op = "if",
         Len(u) = Len(t) + 1, Len(v) = Len(o),
         u[Len(u)].op \in {"elif", "else"}, u[Len(u)].next = 0, u[Len(u)].end = 0,
         \A i \in 1..Len(t) :
           /\ u[i].op = t[i].op /\ u[i].end = t[i].end
           /\ u[i].next = IF i = Last(o[Len(o)].parts) THEN Len(u) ELSE t[i].next,
         \A k \in 1..(Len(o) - 1) : v[k] = o[k],
         v[Len(o)].parts = Append(o[Len(o)].parts, Len(u))
  PROVE  Structured(u, v, Deeper(t, d, Len(o)))
<1> DEFINE n == Len(o)
           q == o[n].parts
           p == Last(q)
           e == Deeper(t, d, n)
<1>1. /\ t \in Seq(Constructs) /\ Len(t) \in Nat /\ n \in Nat /\ n \in 1..n
      /\ Depths(t, n, d) /\ o[n] \in Statements
  BY DEF Structured
<1>2. /\ q \in Seq(Nat) /\ Len(q) \in Nat /\ Len(q) \in 1..Len(q) /\ OpenInv(t, o[n], d, n)
  <2>1. q \in Seq(Nat)
    BY <1>1 DEF Statements
  <2>2. OpenInv(t, o[n], d, n)
    BY <1>1 DEF Structured
  <2>3. q # <<>>
    BY <2>2 DEF OpenInv
  <2> HIDE DEF q
  <2>4. Len(q) \in Nat /\ Len(q) \in 1..Len(q)
    BY <2>1, <2>3
  <2> QED
    BY <2>1, <2>2, <2>4
<1>3. p \in ToSet(q)
  BY <1>2 DEF Last, ToSet
<1>4. /\ p \in 1..Len(t) /\ t[p].op \in Parts /\ Level(t, d, p) = n
      /\ t[p].end = 0 /\ t[p].next = 0 /\ t[p].op # "while"
  BY <1>1, <1>3, PartsOfOne
<1>5. DepthAfter(u[Len(u)], n) = n
  BY DEF DepthAfter, Openers
<1>6. Depths(u, n, e) /\ Extends(t, d, u, e)
  BY <1>1, <1>5, DeeperDepths
<1>7. e[Len(u)] = n /\ Len(u) \in Nat /\ Len(t) + 1 \in 1..(Len(t) + 1)
  BY <1>1, <1>6 DEF Extends, Depths
<1>8. /\ Level(u, e, Len(u)) = n /\ u[Len(u)].op \in Branches /\ u[Len(u)].op # "end"
      /\ u[Len(u)].op \in Parts /\ u[Len(u)].op # "while"
  BY <1>7 DEF Level, Branches, Parts, Openers
<1>9. /\ Len(v[n].parts) = Len(q) + 1 /\ v[n].parts[Len(q) + 1] = Len(u)
      /\ \A r \in 1..Len(q) : v[n].parts[r] = q[r]
      /\ Last(v[n].parts) = Len(u) /\ Len(u) \in ToSet(v[n].parts)
      /\ \A i \in ToSet(q) : i \in ToSet(v[n].parts)
  <2>1. v[n].parts = Append(q, Len(u))
    OBVIOUS
  <2> HIDE DEF q, n
  <2>2. /\ Len(v[n].parts) = Len(q) + 1 /\ v[n].parts[Len(q) + 1] = Len(u)
        /\ \A r \in 1..Len(q) : v[n].parts[r] = q[r]
        /\ v[n].parts \in Seq(Nat)
    BY <1>2, <1>7, <2>1, AppendProperties
  <2> DEFINE w == v[n].parts
  <2> HIDE DEF w
  <2>3. /\ Len(w) = Len(q) + 1 /\ w[Len(q) + 1] = Len(u) /\ w \in Seq(Nat)
        /\ \A r \in 1..Len(q) : w[r] = q[r]
    BY <2>2 DEF w
  <2>4. Last(w) = Len(u) /\ Len(u) \in ToSet(w)
    <3>1. w[Len(w)] = Len(u) /\ Len(w) \in DOMAIN w
      BY <1>2, <2>3
    <3> QED
      BY <3>1 DEF Last, ToSet
  <2>5. ASSUME NEW i \in ToSet(q)
        PROVE  i \in ToSet(w)
    <3>1. PICK r \in 1..Len(q) : i = q[r]
      BY <1>2 DEF ToSet
    <3>2. i = w[r] /\ r \in DOMAIN w
      BY <1>2, <2>3, <3>1
    <3> QED
      BY <3>2 DEF ToSet
  <2> QED
    BY <2>3, <2>4, <2>5 DEF w
<1>10. \A i \in 1..Len(t) : i # p /\ IsLast(t, o, d, i) => Level(t, d, i) \in 1..(n - 1)
  BY <1>1 DEF IsLast
<1>11. \A i \in 1..Len(t) : t[i].next # 0 => i # p
  BY <1>4
<1> HIDE DEF p, q, n, e
<1>12. ASSUME NEW i \in 1..Len(u), u[i].op \in Parts
       PROVE  PartInv(u, v, e, i)
  <2>1. CASE i = Len(u)
    <3>1. \A S : NoneIn(u, e, S, n, i, Len(u) + 1)
      BY <1>7, <2>1 DEF NoneIn
    <3>2. n \in 1..Len(v)
      BY <1>1 DEF n
    <3> QED
      BY <1>8, <1>9, <2>1, <3>1, <3>2 DEF PartInv, IsLast, IsOpen
  <2>2. CASE i # Len(u)
    <3>1. i \in 1..Len(t) /\ PartInv(t, o, d, i) /\ u[i].op = t[i].op /\ u[i].end = t[i].end
      BY <1>1, <1>12, <2>2 DEF Structured
    <3>2. ASSUME i = p
          PROVE  Continued(u, e, i)
      <4>1. IsLast(t, o, d, i)
        <5>1. 0 \notin (i + 1)..Len(t)
          BY <3>1
        <5> QED
          BY <1>4, <3>1, <3>2, <5>1 DEF PartInv, Continued, NextAt
      <4>2. NoneIn(t, d, Branches, n, i, Len(t) + 1)
        BY <1>4, <3>2, <4>1 DEF IsLast
      <4>3. NoneIn(u, e, Branches, n, i, Len(u))
        BY <1>6, <3>1, <4>2, ExtendsKeeps
      <4>4. u[i].next = Len(u) /\ Level(u, e, i) = n
        BY <1>4, <1>6, <3>1, <3>2, LevelKeeps DEF n, p, q
      <4>5. Len(u) \in (i + 1)..Len(u)
        BY <1>1, <3>1
      <4> QED
        BY <1>4, <1>7, <1>8, <3>1, <3>2, <4>3, <4>4, <4>5 DEF Continued, NextAt
    <3>3. ASSUME i # p
          PROVE  Continued(u, e, i) \/ IsLast(u, v, e, i)
      <4>1. u[i].next = t[i].next
        BY <3>1, <3>3 DEF p, q, n
      <4>2. Continued(t, d, i) => t[i].next \in 1..Len(t)
        BY <1>1, <3>1 DEF Continued, NextAt
      <4>3. Continued(t, d, i) /\ t[t[i].next].op = "end" => u[t[i].next].next = t[t[i].next].next
        <5>1. t[p].op # "end"
          BY <1>4 DEF Parts
        <5> QED
          BY <4>2, <5>1 DEF p, q, n
      <4>4. IsLast(t, o, d, i) => /\ Level(t, d, i) \in 1..Len(v)
                                  /\ v[Level(t, d, i)] = o[Level(t, d, i)]
                                  /\ Level(t, d, i) # n
        <5>1. IsLast(t, o, d, i) => Level(t, d, i) \in 1..(n - 1)
          BY <1>10, <3>1, <3>3
        <5>2. \A k \in 1..(n - 1) : k \in 1..Len(v) /\ v[k] = o[k] /\ k # n
          BY <1>1 DEF n
        <5> QED
          BY <5>1, <5>2
      <4> QED
        BY <1>6, <1>7, <3>1, <4>1, <4>2, <4>3, <4>4, PartKeeps DEF PartInv
    <3>4. Continued(u, e, i) \/ IsLast(u, v, e, i)
      BY <3>2, <3>3
    <3>5. IsOpen(t, o, d, i) => /\ Level(t, d, i) \in 1..Len(v)
                                /\ i \in ToSet(v[Level(t, d, i)].parts)
      <4>1. CASE Level(t, d, i) = n
        BY <1>1, <1>9, <4>1 DEF IsOpen, n, q
      <4>2. CASE Level(t, d, i) # n
        BY <1>1, <4>2 DEF IsOpen, n
      <4> QED
        BY <4>1, <4>2
    <3>6. NextAt(u, e, {"end"}, i, u[i].end) \/ IsOpen(u, v, e, i)
      BY <1>6, <1>8, <3>1, <3>5, PartKeeps DEF PartInv
    <3> QED
      BY <3>4, <3>6 DEF PartInv
  <2> QED
    BY <2>1, <2>2
<1>13. ASSUME NEW j \in 1..Len(u), u[j].op = "end"
       PROVE  EndInv(u, j)
  <2>1. j \in 1..Len(t) /\ j # p /\ t[j].op = "end"
    <3>1. j # Len(u)
      BY <1>8, <1>13
    <3>2. j \in 1..Len(t)
      BY <1>1, <3>1
    <3> QED
      BY <1>4, <1>13, <3>2 DEF Parts
  <2>2. u[j].next = t[j].next /\ EndInv(t, j)
    BY <2>1 DEF Structured, p, q, n
  <2> QED
    BY <1>1, <2>1, <2>2 DEF EndInv
<1>14. ASSUME NEW k \in 1..Len(v)
       PROVE  OpenInv(u, v[k], e, k)
  <2>1. CASE k = n
    <3> DEFINE w == v[n].parts
    <3>1. ASSUME NEW r \in 1..Len(w)
          PROVE  /\ w[r] \in 1..Len(u) /\ u[w[r]].op \in Parts
                 /\ Level(u, e, w[r]) = n
                 /\ u[w[r]].end = 0
                 /\ u[w[r]].next = 0 <=> r = Len(w)
                 /\ u[w[r]].op # "while"
      <4>1. CASE r = Len(q) + 1
        <5>1. w[r] = Len(u) /\ r = Len(w)
          BY <1>9, <4>1
        <5> QED
          BY <1>7, <1>8, <5>1
      <4>2. CASE r # Len(q) + 1
        <5>1. r \in 1..Len(q) /\ w[r] = q[r] /\ r # Len(w)
          BY <1>2, <1>9, <4>2
        <5>2. /\ q[r] \in 1..Len(t) /\ t[q[r]].op \in Parts /\ Level(t, d, q[r]) = n
              /\ t[q[r]].end = 0 /\ (t[q[r]].next = 0 <=> r = Len(q))
              /\ t[q[r]].op # "while"
          BY <1>2, <5>1 DEF OpenInv, q, n
        <5>3. u[q[r]].next # 0
          <6>1. CASE q[r] = p
            BY <5>2, <6>1, <1>7 DEF p, q, n
          <6>2. CASE q[r] # p
            <7>1. r # Len(q)
              BY <6>2 DEF p, Last
            <7> QED
              BY <5>2, <6>2, <7>1 DEF p, q, n
          <6> QED
            BY <6>1, <6>2
        <5>4. Level(u, e, q[r]) = n
          BY <1>6, <5>2, LevelKeeps
        <5> QED
          BY <1>1, <5>1, <5>2, <5>3, <5>4
      <4> QED
        BY <4>1, <4>2
    <3>2. w # <<>>
      BY <1>2, <1>9
    <3>3. v[n].op = "if"
      BY DEF n
    <3> QED
      BY <2>1, <3>1, <3>2, <3>3 DEF OpenInv
  <2>2. CASE k # n
    <3> DEFINE w == o[k]
    <3>1. v[k] = w /\ OpenInv(t, w, d, k)
      BY <1>1, <2>2 DEF Structured, n
    <3>2. \A r \in 1..Len(w.parts) : w.parts[r] \in 1..Len(t) /\ w.parts[r] # p
      BY <1>4, <2>2, <3>1 DEF OpenInv
    <3>3. \A r \in 1..Len(w.parts) : /\ u[w.parts[r]].op = t[w.parts[r]].op
                                     /\ u[w.parts[r]].end = t[w.parts[r]].end
                                     /\ u[w.parts[r]].next = t[w.parts[r]].next
                                     /\ Level(u, e, w.parts[r]) = Level(t, d, w.parts[r])
      BY <1>6, <3>2, LevelKeeps DEF p, q, n
    <3>4. OpenInv(t, w, d, k) /\ Len(t) <= Len(u) /\ Len(t) \in Nat /\ Len(u) \in Nat
      BY <1>1, <1>7, <3>1
    <3>5. v[k] = w
      BY <3>1
    <3> HIDE DEF w
    <3>6. OpenInv(u, w, e, k)
      BY <3>3, <3>4, OpenKeeps
    <3> QED
      BY <3>5, <3>6
  <2> QED
    BY <2>1, <2>2
<1> QED
  BY <1>6, <1>12, <1>13, <1>14 DEF Structured, e, n

(* The open statements without the innermost, for CloseStatement.          *)
LEMMA FrontProps ==
  ASSUME NEW S, NEW s \in Seq(S), s # <<>>
  PROVE  /\ Front(s) \in Seq(S) /\ Len(Front(s)) = Len(s) - 1
         /\ \A k \in 1..(Len(s) - 1) : Front(s)[k] = s[k]
         /\ Len(s) \in 1..Len(s) /\ Last(s) = s[Len(s)] /\ Last(s) \in S
<1>1. Len(s) \in Nat /\ Len(s) \in 1..Len(s) /\ Len(s) - 1 \in Int
  OBVIOUS
<1>2. \A i \in 1..(Len(s) - 1) : s[i] \in S
  BY <1>1
<1>3. /\ SubSeq(s, 1, Len(s) - 1) \in Seq(S)
      /\ Len(SubSeq(s, 1, Len(s) - 1)) = IF 1 <= Len(s) - 1 THEN Len(s) - 1 - 1 + 1 ELSE 0
      /\ \A i \in 1..(Len(s) - 1 - 1 + 1) : SubSeq(s, 1, Len(s) - 1)[i] = s[1 + i - 1]
  BY <1>1, <1>2, SubSeqProperties
<1> DEFINE f == SubSeq(s, 1, Len(s) - 1)
<1>4. f = Front(s)
  BY DEF Front
<1> HIDE DEF f
<1>5. f \in Seq(S) /\ Len(f) = Len(s) - 1 /\ \A k \in 1..(Len(s) - 1) : f[k] = s[k]
  <2>1. f \in Seq(S) /\ Len(f) = IF 1 <= Len(s) - 1 THEN Len(s) - 1 - 1 + 1 ELSE 0
    BY <1>3, Zenon DEF f
  <2>2. \A i \in 1..(Len(s) - 1 - 1 + 1) : f[i] = s[1 + i - 1]
    BY <1>3, Zenon DEF f
  <2> DEFINE m == Len(s)
             l == Len(f)
  <2>3. m \in Nat /\ m >= 1 /\ l = (IF 1 <= m - 1 THEN m - 1 - 1 + 1 ELSE 0)
    BY <1>1, <2>1
  <2>4. l = m - 1
    <3> HIDE DEF m, l
    <3> QED
      BY <2>3
  <2>5. ASSUME NEW k \in 1..(m - 1)
        PROVE  f[k] = s[k]
    <3>1. k \in 1..(m - 1 - 1 + 1) /\ 1 + k - 1 = k
      <4> HIDE DEF m
      <4> QED
        BY <2>3
    <3> QED
      BY <2>2, <3>1
  <2> QED
    BY <2>1, <2>4, <2>5
<1> QED
  BY <1>1, <1>4, <1>5 DEF Last

(* The end of a statement closes the innermost one.                        *)
LEMMA ClosedIsStructured ==
  ASSUME NEW t, NEW o, NEW d, Structured(t, o, d), o # <<>>,
         NEW u \in Seq(Constructs), Len(u) = Len(t) + 1,
         u[Len(u)].op = "end",
         u[Len(u)].next = IF Last(o).op = "while" THEN Last(o).parts[1] ELSE Len(u) + 1,
         \A i \in 1..Len(t) :
           IF i \in ToSet(Last(o).parts)
             THEN /\ u[i].op = t[i].op /\ u[i].end = Len(u)
                  /\ u[i].next = IF t[i].next = 0 THEN Len(u) ELSE t[i].next
             ELSE u[i] = t[i]
  PROVE  Structured(u, Front(o), Deeper(t, d, Len(o) - 1))
<1> DEFINE n == Len(o)
           q == Last(o).parts
           v == Front(o)
           e == Deeper(t, d, n - 1)
<1>1. /\ t \in Seq(Constructs) /\ Len(t) \in Nat /\ o \in Seq(Statements)
      /\ Depths(t, n, d) /\ n \in 1..n /\ n \in Nat /\ n - 1 \in Nat
  BY DEF Structured
<1>2. /\ v \in Seq(Statements) /\ Len(v) = n - 1 /\ \A k \in 1..(n - 1) : v[k] = o[k]
  BY <1>1, FrontProps
<1>3. o[n] = Last(o) /\ q = o[n].parts
  BY DEF Last
<1>4. DepthAfter(u[Len(u)], n) = n - 1
  BY DEF DepthAfter, Openers
<1> HIDE DEF v, q, n
<1>5. Depths(u, n - 1, e) /\ Extends(t, d, u, e)
  <2>1. \A i \in 1..Len(t) : u[i].op = t[i].op
    OBVIOUS
  <2> QED
    BY <1>1, <1>4, <2>1, DeeperDepths
<1> HIDE DEF e
<1>6. e[Len(u)] = n /\ Len(u) \in Nat
  BY <1>1, <1>5 DEF Extends, Depths
<1>7. \A i \in ToSet(q) : /\ i \in 1..Len(t) /\ t[i].op \in Parts /\ Level(t, d, i) = n
                          /\ t[i].end = 0 /\ (t[i].next = 0 <=> i = Last(q))
                          /\ t[i].op = "while" <=> o[n].op = "while"
                          /\ o[n].op = "while" => q[1] = i
                          /\ u[i].op = t[i].op /\ u[i].end = Len(u)
                          /\ u[i].next = IF t[i].next = 0 THEN Len(u) ELSE t[i].next
  <2> TAKE i \in ToSet(q)
  <2>1. n \in 1..Len(o) /\ i \in ToSet(o[n].parts)
    BY <1>1, <1>3 DEF n
  <2>2. /\ i \in 1..Len(t) /\ t[i].op \in Parts /\ Level(t, d, i) = n
        /\ t[i].end = 0 /\ (t[i].next = 0 <=> i = Last(o[n].parts))
        /\ t[i].op = "while" <=> o[n].op = "while"
        /\ o[n].op = "while" => o[n].parts[1] = i
    BY <2>1, PartsOfOne
  <2>3. /\ u[i].op = t[i].op /\ u[i].end = Len(u)
        /\ u[i].next = IF t[i].next = 0 THEN Len(u) ELSE t[i].next
    BY <2>2 DEF q
  <2> QED
    BY <1>3, <2>2, <2>3
<1>8. \A i \in 1..Len(t) : i \notin ToSet(q) => u[i] = t[i]
  BY DEF q
<1>9. \A i \in 1..Len(t) : u[i].op = t[i].op /\ (t[i].next # 0 => u[i].next = t[i].next)
  BY <1>7, <1>8
<1>10. \A i \in 1..Len(t) : t[i].op = "end" => u[i] = t[i]
  BY <1>7, <1>8 DEF Parts
<1>11. u[Len(u)].next = IF o[n].op = "while" THEN q[1] ELSE Len(u) + 1
  BY <1>3 DEF q
<1>12. ASSUME NEW i \in 1..Len(u), u[i].op \in Parts
       PROVE  PartInv(u, v, e, i)
  <2>1. i \in 1..Len(t) /\ PartInv(t, o, d, i) /\ u[i].op = t[i].op /\ i # Len(u)
    <3>1. i # Len(u)
      BY <1>12 DEF Parts
    <3> QED
      BY <1>1, <1>9, <1>12, <3>1 DEF Structured
  <2>2. Level(u, e, i) = Level(t, d, i) /\ Len(u) \in (i + 1)..Len(u)
    BY <1>1, <1>5, <2>1, LevelKeeps
  <2>3. Continued(t, d, i) => t[i].next \in 1..Len(t) /\ t[i].next # 0
    BY <1>1, <2>1 DEF Continued, NextAt
  <2>4. CASE i \in ToSet(q)
    <3>1. Level(t, d, i) = n /\ u[i].end = Len(u) /\ t[i].end = 0
      BY <1>7, <2>4
    <3>2. NextAt(u, e, {"end"}, i, u[i].end)
      <4> DEFINE E == {"end"}
      <4>1. NoneIn(t, d, E, n, i, Len(t) + 1)
        <5>1. 0 \notin (i + 1)..Len(t)
          BY <2>1
        <5> QED
          BY <2>1, <3>1, <5>1 DEF PartInv, IsOpen, NextAt
      <4>2. NoneIn(u, e, E, n, i, Len(u))
        <5> HIDE DEF E
        <5> QED
          BY <1>5, <2>1, <4>1, ExtendsKeeps
      <4> QED
        BY <1>6, <2>2, <3>1, <4>2 DEF NextAt
    <3>3. Continued(t, d, i) => Continued(u, e, i)
      <4> SUFFICES ASSUME Continued(t, d, i)
                   PROVE  Continued(u, e, i)
        OBVIOUS
      <4>1. u[i].next = t[i].next /\ u[t[i].next].op = t[t[i].next].op
        BY <1>9, <2>1, <2>3
      <4>2. t[t[i].next].op = "end" => u[t[i].next].next = t[t[i].next].next
        BY <1>10, <2>3
      <4> QED
        BY <1>5, <2>1, <4>1, <4>2, PartKeeps
    <3>4. IsLast(t, o, d, i) => Continued(u, e, i)
      <4> SUFFICES ASSUME IsLast(t, o, d, i)
                   PROVE  Continued(u, e, i)
        OBVIOUS
      <4>1. NoneIn(t, d, Branches, n, i, Len(t) + 1) /\ t[i].next = 0
        BY <3>1 DEF IsLast
      <4>2. NoneIn(u, e, Branches, n, i, Len(u))
        BY <1>5, <2>1, <4>1, ExtendsKeeps
      <4>3. u[i].next = Len(u)
        BY <1>7, <2>4, <4>1
      <4>4. NextAt(u, e, Branches, i, Len(u))
        BY <1>6, <2>2, <3>1, <4>2 DEF NextAt, Branches
      <4>5. u[i].op = "while" => u[Len(u)].next = i
        BY <1>7, <1>11, <2>1, <2>4
      <4>6. u[i].op # "while" => u[Len(u)].next = Len(u) + 1
        BY <1>7, <1>11, <2>1, <2>4
      <4> QED
        BY <4>3, <4>4, <4>5, <4>6 DEF Continued
    <3> QED
      BY <2>1, <3>2, <3>3, <3>4 DEF PartInv
  <2>5. CASE i \notin ToSet(q)
    <3>1. u[i] = t[i]
      BY <1>8, <2>1, <2>5
    <3>2. Continued(t, d, i) => Continued(u, e, i)
      <4> SUFFICES ASSUME Continued(t, d, i)
                   PROVE  Continued(u, e, i)
        OBVIOUS
      <4>1. t[t[i].next].op = "end" => u[t[i].next].next = t[t[i].next].next
        BY <1>10, <2>3
      <4> QED
        BY <1>5, <2>1, <3>1, <4>1, PartKeeps
    <3>3. n \in Nat /\ Last(q) \in ToSet(q)
      <4>1. o[n] \in Statements /\ OpenInv(t, o[n], d, n)
        BY <1>1 DEF Structured, n
      <4>2. q \in Seq(Nat) /\ q # <<>>
        BY <1>3, <4>1 DEF Statements, OpenInv
      <4>3. Len(q) \in DOMAIN q
        BY <4>2
      <4> QED
        BY <1>1, <4>3 DEF Last, ToSet
    <3>4. IsLast(t, o, d, i) => IsLast(u, v, e, i)
      <4> SUFFICES ASSUME IsLast(t, o, d, i)
                   PROVE  IsLast(u, v, e, i)
        OBVIOUS
      <4>1. Level(t, d, i) \in 1..Len(o) /\ i = Last(o[Level(t, d, i)].parts)
        BY DEF IsLast
      <4>2. Level(t, d, i) # n
        BY <1>3, <2>5, <3>3, <4>1
      <4>3. Level(t, d, i) \in 1..Len(v) /\ v[Level(t, d, i)] = o[Level(t, d, i)]
        BY <1>1, <1>2, <4>1, <4>2 DEF n
      <4> QED
        BY <1>5, <1>6, <2>1, <3>1, <4>2, <4>3, PartKeeps
    <3>5. IsOpen(t, o, d, i) => IsOpen(u, v, e, i)
      <4> SUFFICES ASSUME IsOpen(t, o, d, i)
                   PROVE  IsOpen(u, v, e, i)
        OBVIOUS
      <4>1. Level(t, d, i) \in 1..Len(o) /\ i \in ToSet(o[Level(t, d, i)].parts)
        BY DEF IsOpen
      <4>2. Level(t, d, i) # n
        BY <1>3, <2>5, <4>1
      <4>3. Level(t, d, i) \in 1..Len(v) /\ v[Level(t, d, i)] = o[Level(t, d, i)]
        BY <1>1, <1>2, <4>1, <4>2 DEF n
      <4> QED
        BY <1>5, <1>6, <2>1, <3>1, <4>1, <4>2, <4>3, PartKeeps
    <3>6. NextAt(t, d, {"end"}, i, t[i].end) => NextAt(u, e, {"end"}, i, u[i].end)
      BY <1>5, <2>1, <3>1, PartKeeps
    <3> QED
      BY <2>1, <3>2, <3>4, <3>5, <3>6 DEF PartInv
  <2> QED
    BY <2>4, <2>5
<1>13. ASSUME NEW j \in 1..Len(u), u[j].op = "end"
       PROVE  EndInv(u, j)
  <2>1. CASE j = Len(u)
    <3>1. CASE o[n].op = "while"
      <4>1. OpenInv(t, o[n], d, n)
        BY <1>1 DEF Structured, n
      <4>2. Len(q) = 1 /\ q[1] \in 1..Len(t) /\ t[q[1]].op = "while"
        BY <1>3, <3>1, <4>1 DEF OpenInv
      <4>3. u[q[1]].op = "while" /\ q[1] \in 1..Len(u)
        BY <1>1, <1>9, <4>2
      <4> QED
        BY <1>11, <2>1, <3>1, <4>3 DEF EndInv
    <3>2. CASE o[n].op # "while"
      BY <1>11, <2>1, <3>2 DEF EndInv
    <3> QED
      BY <3>1, <3>2
  <2>2. CASE j # Len(u)
    <3>1. j \in 1..Len(t) /\ u[j] = t[j]
      BY <1>1, <1>9, <1>10, <1>13, <2>2
    <3>2. EndInv(t, j)
      BY <1>13, <3>1 DEF Structured
    <3> QED
      BY <1>1, <1>9, <3>1, <3>2 DEF EndInv
  <2> QED
    BY <2>1, <2>2
<1>14. ASSUME NEW k \in 1..Len(v)
       PROVE  OpenInv(u, v[k], e, k)
  <2> DEFINE w == o[k]
  <2>1. k \in 1..Len(o) /\ k # n /\ v[k] = w
    BY <1>1, <1>2 DEF n
  <2>2. OpenInv(t, w, d, k) /\ Len(t) \in Nat /\ Len(u) \in Nat /\ Len(t) <= Len(u)
    BY <1>1, <1>6, <2>1 DEF Structured
  <2>3. \A r \in 1..Len(w.parts) : w.parts[r] \in 1..Len(t) /\ w.parts[r] \notin ToSet(q)
    BY <1>7, <2>1, <2>2 DEF OpenInv
  <2>4. \A r \in 1..Len(w.parts) : /\ u[w.parts[r]].op = t[w.parts[r]].op
                                   /\ u[w.parts[r]].end = t[w.parts[r]].end
                                   /\ u[w.parts[r]].next = t[w.parts[r]].next
                                   /\ Level(u, e, w.parts[r]) = Level(t, d, w.parts[r])
    BY <1>5, <1>8, <2>3, LevelKeeps
  <2> HIDE DEF w
  <2>5. OpenInv(u, w, e, k)
    BY <2>2, <2>4, OpenKeeps
  <2> QED
    BY <2>1, <2>5
<1>15. Structured(u, v, e)
  BY <1>2, <1>5, <1>12, <1>13, <1>14 DEF Structured
<1> QED
  BY <1>15 DEF v, e, n

-----------------------------------------------------------------------------
(* Where the text goes                                                     *)

Points(t) == [at : 1..(Len(t) + 1), how : {"flow", "test", "chosen"}]

Chosen(i) == [at |-> i, how |-> "chosen"]

Jumps(t, i) == i <= Len(t) /\ t[i].op \in Branches

Target(t, i) == IF t[i].op = "end" THEN t[i].next ELSE t[i].end + 1

(* R[i] is what the text comes to from i without doing anything.           *)
Resolves(t, R) ==
  /\ R \in [1..(Len(t) + 1) -> 1..(Len(t) + 1)]
  /\ \A i \in 1..(Len(t) + 1) : R[i] = IF Jumps(t, i) THEN R[Target(t, i)] ELSE i

(* Where a construct leads when the text is over.                          *)
LEMMA TargetOf ==
  ASSUME NEW t, NEW d, Structured(t, <<>>, d), NEW i \in 1..Len(t), t[i].op \in Branches
  PROVE  \/ Target(t, i) \in (i + 1)..(Len(t) + 1)
         \/ Target(t, i) \in 1..Len(t) /\ t[Target(t, i)].op = "while"
<1>1. Len(t) \in Nat
  BY DEF Structured
<1>2. CASE t[i].op = "end"
  <2>1. EndInv(t, i)
    BY <1>2 DEF Structured
  <2> QED
    BY <1>1, <1>2, <2>1 DEF EndInv, Target
<1>3. CASE t[i].op # "end"
  <2>1. PartInv(t, <<>>, d, i)
    BY <1>3 DEF Structured, Branches, Parts
  <2>2. NextAt(t, d, {"end"}, i, t[i].end)
    BY <2>1 DEF PartInv, IsOpen
  <2> QED
    BY <1>1, <1>3, <2>2 DEF NextAt, Target
<1> QED
  BY <1>2, <1>3

(* The jumps of a text end: they go on, or back to a loop's condition.     *)
LEMMA ResolvesExists ==
  ASSUME NEW t, NEW d, Structured(t, <<>>, d)
  PROVE  \E R : Resolves(t, R)
<1> DEFINE N == Len(t) + 1
           Held(R, i) == IF Jumps(t, i)
                          THEN IF Target(t, i) > i THEN R[Target(t, i)] ELSE Target(t, i)
                          ELSE i
           Good(m, R) == R \in [m..N -> 1..N] /\ \A i \in m..N : R[i] = Held(R, i)
           Bad == {n \in 0..Len(t) : ~ \E R : Good(N - n, R)}
<1>1. Len(t) \in Nat /\ N \in Nat /\ N >= 1 /\ ~Jumps(t, N)
  BY DEF Structured, Jumps
<1>2. \A i \in 1..N : Jumps(t, i) =>
        \/ Target(t, i) \in (i + 1)..N
        \/ Target(t, i) \in 1..N /\ ~Jumps(t, Target(t, i))
  BY <1>1, TargetOf DEF Jumps, Branches
<1>3. Bad = {}
  <2> SUFFICES ASSUME Bad # {}
               PROVE  FALSE
    OBVIOUS
  <2> DEFINE n == Min(Bad)
  <2>1. n \in Bad /\ \A x \in Bad : n <= x
    <3>1. Bad \in SUBSET Nat
      OBVIOUS
    <3> HIDE DEF Bad
    <3> QED
      BY <3>1, MinOf
  <2>2. n \in 0..Len(t) /\ ~ \E R : Good(N - n, R)
    BY <2>1
  <2> HIDE DEF n
  <2>3. CASE n = 0
    <3> DEFINE R0 == [i \in N..N |-> N]
    <3>1. Good(N - n, R0)
      BY <1>1, <2>3
    <3> QED
      BY <2>2, <3>1
  <2>4. CASE n # 0
    <3> DEFINE m == N - n
    <3>1. n - 1 \in 0..Len(t) /\ n - 1 \notin Bad
      <4>1. n - 1 \in 0..Len(t) /\ ~(n <= n - 1)
        BY <1>1, <2>2, <2>4
      <4> HIDE DEF Bad
      <4> QED
        BY <2>1, <4>1
    <3>2. PICK R : Good(N - (n - 1), R)
      BY <3>1
    <3>3. m \in 1..N /\ N - (n - 1) = m + 1 /\ m \in Nat
      BY <1>1, <2>2, <2>4
    <3>4. R \in [(m + 1)..N -> 1..N] /\ \A i \in (m + 1)..N : R[i] = Held(R, i)
      BY <3>2, <3>3
    <3> HIDE DEF m
    <3> DEFINE Q == [i \in m..N |-> IF i = m THEN Held(R, m) ELSE R[i]]
    <3>5. Held(R, m) \in 1..N
      <4>1. CASE Jumps(t, m) /\ Target(t, m) \in (m + 1)..N
        BY <1>1, <3>3, <3>4, <4>1
      <4>2. CASE Jumps(t, m) /\ Target(t, m) \notin (m + 1)..N
        BY <1>1, <1>2, <3>3, <4>2
      <4>3. CASE ~Jumps(t, m)
        BY <3>3, <4>3
      <4> QED
        BY <4>1, <4>2, <4>3
    <3>6. Q \in [m..N -> 1..N]
      <4> HIDE DEF Held
      <4> QED
        BY <1>1, <3>3, <3>4, <3>5
    <3>7. ASSUME NEW i \in m..N
          PROVE  Q[i] = Held(Q, i)
      <4>1. Held(Q, i) = Held(R, i)
        <5>1. CASE Jumps(t, i) /\ Target(t, i) > i
          <6>1. Target(t, i) \in (m + 1)..N /\ i \in 1..N
            <7>1. i \in 1..N
              BY <1>1, <3>3
            <7>2. Target(t, i) \in 1..N
              BY <1>1, <1>2, <5>1, <7>1
            <7> QED
              BY <1>1, <3>3, <5>1, <7>1, <7>2
          <6>2. Q[Target(t, i)] = R[Target(t, i)]
            <7> HIDE DEF Held
            <7> QED
              BY <1>1, <3>3, <6>1
          <6> HIDE DEF Q
          <6> QED
            BY <5>1, <6>2
        <5>2. CASE ~(Jumps(t, i) /\ Target(t, i) > i)
          <6> HIDE DEF Q
          <6> QED
            BY <5>2
        <5> QED
          BY <5>1, <5>2
      <4>2. Q[i] = Held(R, i)
        <5> HIDE DEF Held
        <5> QED
          BY <1>1, <3>3, <3>4
      <4> QED
        BY <4>1, <4>2
    <3>8. Good(m, Q)
      <4> HIDE DEF Q, Held
      <4> QED
        BY <3>6, <3>7
    <3> QED
      BY <2>2, <3>8 DEF m
  <2> QED
    BY <2>3, <2>4
<1>4. PICK R : Good(1, R)
  <2>1. Len(t) \in 0..Len(t) /\ N - Len(t) = 1
    BY <1>1
  <2> QED
    BY <1>3, <2>1
<1>5. \A i \in 1..N : R[i] = IF Jumps(t, i) THEN R[Target(t, i)] ELSE i
  <2> TAKE i \in 1..N
  <2>1. R[i] = Held(R, i)
    BY <1>4
  <2>2. CASE Jumps(t, i) /\ ~(Target(t, i) > i)
    <3>1. Target(t, i) \in 1..N /\ ~Jumps(t, Target(t, i))
      <4>1. \A j \in (i + 1)..N : j > i
        BY <1>1
      <4> QED
        BY <1>2, <2>2, <4>1
    <3>2. R[Target(t, i)] = Target(t, i)
      BY <1>4, <3>1
    <3> QED
      BY <2>1, <2>2, <3>2
  <2>3. CASE ~(Jumps(t, i) /\ ~(Target(t, i) > i))
    BY <2>1, <2>3
  <2> QED
    BY <2>2, <2>3
<1> QED
  BY <1>4, <1>5 DEF Resolves

-----------------------------------------------------------------------------
(* The code.  M[b] is the point of the text that the start of block b      *)
(* stands for, P the blocks that are not filled yet.                       *)

Res(R, p) == IF p.how = "flow" THEN To(R[p.at]) ELSE p

Kind(op) == IF op = "do" THEN "do" ELSE IF op = "return" THEN "ret" ELSE "cond"

(* What the text does at a point.                                          *)
Event(t, p) ==
  IF p.at > Len(t) THEN [op |-> "ret", at |-> p.at]
  ELSE [op |-> IF t[p.at].iif /\ p.how # "chosen" THEN "choose" ELSE Kind(t[p.at].op), at |-> p.at]

OtherwiseOf(t, i) == IF t[t[i].next].op = "elif" THEN Test(t[i].next) ELSE To(t[i].next + 1)

LateElif(t) == \E i, j \in 1..Len(t) : /\ i < j /\ t[i].end = t[j].end
                                       /\ t[i].op = "else" /\ t[j].op = "elif"

Instrs == [op : Terminators \cup {"do"}, at : Nat, to : Seq(Nat)]
Codes  == [blocks : Seq(Seq(Instrs)), insert : Nat]

(* Instruction c does what the text does at p.                             *)
Performs(t, R, M, c, p) ==
  /\ c.op = "br" => c.to[1] \in DOMAIN M /\ Res(R, M[c.to[1]]) = p
  /\ c.op # "br" => Event(t, p) = [op |-> c.op, at |-> c.at]
  /\ c.op = "choose" => \A x \in ToSet(c.to) : x \in DOMAIN M /\ M[x] = Chosen(c.at)
  /\ c.op = "cond" => /\ c.to[1] \in DOMAIN M /\ Res(R, M[c.to[1]]) = Res(R, To(c.at + 1))
                      /\ c.to[2] \in DOMAIN M
                      /\ Res(R, M[c.to[2]]) = Res(R, OtherwiseOf(t, c.at))

(* The point before the instruction at r of b, which is block k.           *)
Before(M, b, k, r) == IF r = 1 THEN M[k] ELSE To(b[r - 1].at + 1)
Fresh(b, r) == r = 1 \/ b[r - 1].op = "do"
Ended(b)    == b # <<>> /\ b[Len(b)].op \in Terminators

BlockInv(t, R, M, b, k) ==
  /\ \A r \in 1..Len(b) : Fresh(b, r) => Performs(t, R, M, b[r], Res(R, Before(M, b, k, r)))
  /\ \A r \in 1..(Len(b) - 1) :
       b[r].op \in Terminators => LateElif(t) /\ b[r + 1].op \in Terminators

CodeInv(t, R, M, g, P) ==
  /\ g \in Codes /\ g.insert \in 1..Len(g.blocks)
  /\ M \in [1..Len(g.blocks) -> Points(t)]
  /\ \A k \in 1..Len(g.blocks) :
       /\ BlockInv(t, R, M, g.blocks[k], k)
       /\ Ended(g.blocks[k]) \/ k = g.insert \/ k \in P
  /\ \A k \in P : k \in 1..Len(g.blocks) /\ g.blocks[k] = <<>> /\ k # g.insert

(* The point of the text at the insert point.                              *)
Current(R, M, g) ==
  Res(R, Before(M, g.blocks[g.insert], g.insert, Len(g.blocks[g.insert]) + 1))

(* The block at the insert point is terminated if its last instruction is  *)
(* a terminator.                                                           *)
LEMMA TerminatedIsEnded ==
  ASSUME NEW g
  PROVE  Terminated(g) <=> Ended(g.blocks[g.insert])
BY DEF Terminated, Ended, Last

(* Emit adds an instruction at the insert point and changes nothing else.  *)
LEMMA EmitIs ==
  ASSUME NEW g \in Codes, g.insert \in 1..Len(g.blocks), NEW c \in Instrs
  PROVE  LET h == Emit(g, c)
             b == g.blocks[g.insert]
         IN  /\ h \in Codes /\ h.insert = g.insert /\ Len(h.blocks) = Len(g.blocks)
             /\ \A k \in 1..Len(g.blocks) : k # g.insert => h.blocks[k] = g.blocks[k]
             /\ Len(b) \in Nat /\ b \in Seq(Instrs)
             /\ h.blocks[g.insert] \in Seq(Instrs) /\ Len(h.blocks[g.insert]) = Len(b) + 1
             /\ \A r \in 1..Len(b) : h.blocks[g.insert][r] = b[r]
             /\ h.blocks[g.insert][Len(b) + 1] = c
<1> DEFINE h == Emit(g, c)
           b == g.blocks[g.insert]
           w == Append(b, c)
           bs == [g.blocks EXCEPT ![g.insert] = w]
<1>1. g.blocks \in Seq(Seq(Instrs)) /\ b \in Seq(Instrs)
  BY DEF Codes
<1>2. /\ w \in Seq(Instrs) /\ Len(w) = Len(b) + 1 /\ Len(b) \in Nat
      /\ \A r \in 1..Len(b) : w[r] = b[r]
      /\ w[Len(b) + 1] = c
  <2> HIDE DEF b
  <2> QED
    BY <1>1, AppendProperties
<1>3. h = [g EXCEPT !.blocks = bs]
  BY DEF Emit, Codes
<1> HIDE DEF w, b
<1>4. /\ bs \in Seq(Seq(Instrs)) /\ Len(bs) = Len(g.blocks) /\ bs[g.insert] = w
      /\ \A k \in 1..Len(g.blocks) : k # g.insert => bs[k] = g.blocks[k]
  BY <1>1, <1>2, ExceptSeq
<1> HIDE DEF bs
<1>5. h \in Codes /\ h.blocks = bs /\ h.insert = g.insert
  BY <1>3, <1>4 DEF Codes
<1> HIDE DEF h
<1> QED
  BY <1>1, <1>2, <1>4, <1>5 DEF h, b

(* NewBlocks adds empty blocks and changes nothing else.                   *)
LEMMA NewBlocksIs ==
  ASSUME NEW g \in Codes, NEW n \in Nat
  PROVE  LET h == NewBlocks(g, n)
         IN  /\ h \in Codes /\ h.insert = g.insert
             /\ Len(g.blocks) \in Nat /\ Len(h.blocks) = Len(g.blocks) + n
             /\ \A k \in 1..Len(g.blocks) : h.blocks[k] = g.blocks[k]
             /\ \A k \in (Len(g.blocks) + 1)..(Len(g.blocks) + n) : h.blocks[k] = <<>>
<1> DEFINE h == NewBlocks(g, n)
           e == [i \in 1..n |-> <<>>]
           N == Len(g.blocks)
<1>1. g.blocks \in Seq(Seq(Instrs)) /\ N \in Nat
  BY DEF Codes
<1>2. e \in Seq(Seq(Instrs)) /\ Len(e) = n /\ \A i \in 1..n : e[i] = <<>>
  OBVIOUS
<1> HIDE DEF e
<1> DEFINE bs == g.blocks \o e
           s == g.blocks
<1>3. bs \in Seq(Seq(Instrs)) /\ Len(bs) = N + n
  BY <1>1, <1>2, ConcatProperties
<1>4. \A i \in 1..(N + n) : bs[i] = IF i <= N THEN s[i] ELSE e[i - N]
  BY <1>1, <1>2, ConcatProperties
<1>5. h = [g EXCEPT !.blocks = g.blocks \o e]
  BY DEF NewBlocks, Codes, e
<1> HIDE DEF bs
<1>6. h \in Codes /\ h.blocks = bs /\ h.insert = g.insert
  BY <1>3, <1>5 DEF Codes, bs
<1> HIDE DEF N
<1>7. \A k \in (N + 1)..(N + n) : bs[k] = <<>>
  <2> TAKE k \in (N + 1)..(N + n)
  <2>1. k \in 1..(N + n) /\ ~(k <= N) /\ k - N \in 1..n
    BY <1>1
  <2>2. bs[k] = e[k - N]
    BY <1>4, <2>1
  <2> QED
    BY <1>2, <2>1, <2>2
<1>8. \A k \in 1..N : bs[k] = g.blocks[k]
  BY <1>1, <1>4
<1>9. Len(bs) = N + n
  BY <1>3
<1> HIDE DEF h
<1> QED
  BY <1>1, <1>6, <1>7, <1>8, <1>9 DEF h, N

(* PointTo moves the insert point and changes nothing else.                *)
LEMMA PointToIs ==
  ASSUME NEW g \in Codes, NEW k \in Nat
  PROVE  /\ PointTo(g, k) \in Codes /\ PointTo(g, k).blocks = g.blocks
         /\ PointTo(g, k).insert = k
BY DEF PointTo, Codes

(* More meanings leave what fits as it is.                                 *)
Agree(M, L) == DOMAIN M \subseteq DOMAIN L /\ \A k \in DOMAIN M : L[k] = M[k]

(* What an instruction does is the same when blocks are added.             *)
LEMMA FitsAgrees ==
  ASSUME NEW t, NEW R, NEW M, NEW L, Agree(M, L), NEW c, NEW p, Performs(t, R, M, c, p)
  PROVE  Performs(t, R, L, c, p)
BY DEF Performs, Agree

(* An instruction that fits is added at the insert point.                  *)
LEMMA EmitKeeps ==
  ASSUME NEW t, NEW R, NEW M, NEW g, NEW P, CodeInv(t, R, M, g, P), NEW c \in Instrs,
         ~Terminated(g) => Performs(t, R, M, c, Current(R, M, g)),
         Terminated(g) => LateElif(t) /\ c.op \in Terminators
  PROVE  /\ CodeInv(t, R, M, Emit(g, c), P)
         /\ c.op \in Terminators => Terminated(Emit(g, c))
         /\ c.op = "do" => /\ ~Terminated(Emit(g, c))
                           /\ Current(R, M, Emit(g, c)) = Res(R, To(c.at + 1))
         /\ Emit(g, c).insert = g.insert /\ Len(Emit(g, c).blocks) = Len(g.blocks)
<1> DEFINE h == Emit(g, c)
           k == g.insert
           b == g.blocks[k]
           w == h.blocks[k]
<1>1. g \in Codes /\ k \in 1..Len(g.blocks) /\ Len(g.blocks) \in Nat
  BY DEF CodeInv, Codes
<1>2. /\ h \in Codes /\ h.insert = k /\ Len(h.blocks) = Len(g.blocks)
      /\ \A j \in 1..Len(g.blocks) : j # k => h.blocks[j] = g.blocks[j]
      /\ Len(b) \in Nat /\ w \in Seq(Instrs) /\ Len(w) = Len(b) + 1
      /\ \A r \in 1..Len(b) : w[r] = b[r]
      /\ w[Len(b) + 1] = c
      /\ b \in Seq(Instrs)
  <2> HIDE DEF h
  <2> QED
    BY <1>1, EmitIs DEF h
<1>3. BlockInv(t, R, M, b, k)
  BY <1>1 DEF CodeInv
<1>4. Terminated(g) <=> Ended(b)
  BY TerminatedIsEnded
<1>5. Current(R, M, g) = Res(R, Before(M, b, k, Len(b) + 1))
  BY DEF Current
<1>6. c.op \in Terminators \/ c.op = "do"
  BY DEF Instrs
<1>7. "do" \notin Terminators
  BY DEF Terminators
<1> HIDE DEF h, b, w
<1>8. ~Terminated(g) <=> Fresh(b, Len(b) + 1)
  <2>1. CASE b = <<>>
    BY <1>4, <2>1 DEF Ended, Fresh
  <2>2. CASE b # <<>>
    <3>1. Len(b) \in 1..Len(b) /\ Len(b) + 1 # 1 /\ Len(b) + 1 - 1 = Len(b)
      BY <1>2, <2>2
    <3>2. b[Len(b)].op \in Terminators \/ b[Len(b)].op = "do"
      <4>1. b[Len(b)] \in Instrs
        BY <1>2, <3>1
      <4> QED
        BY <4>1 DEF Instrs
    <3> QED
      BY <1>4, <1>7, <2>2, <3>1, <3>2 DEF Ended, Fresh
  <2> QED
    BY <2>1, <2>2
<1>9. BlockInv(t, R, M, w, k)
  <2>1. ASSUME NEW r \in 1..Len(w), Fresh(w, r)
        PROVE  Performs(t, R, M, w[r], Res(R, Before(M, w, k, r)))
    <3>1. r # 1 => r - 1 \in 1..Len(b) /\ w[r - 1] = b[r - 1]
      BY <1>2
    <3>2. Fresh(b, r) /\ Before(M, w, k, r) = Before(M, b, k, r)
      BY <2>1, <3>1 DEF Fresh, Before
    <3>3. CASE r = Len(b) + 1
      BY <1>2, <1>5, <1>8, <3>2, <3>3
    <3>4. CASE r # Len(b) + 1
      <4>1. r \in 1..Len(b) /\ w[r] = b[r]
        BY <1>2, <3>4
      <4> QED
        BY <1>3, <3>2, <4>1 DEF BlockInv
    <3> QED
      BY <3>3, <3>4
  <2>2. ASSUME NEW r \in 1..(Len(w) - 1), w[r].op \in Terminators
        PROVE  LateElif(t) /\ w[r + 1].op \in Terminators
    <3>1. r \in 1..Len(b) /\ w[r] = b[r]
      BY <1>2
    <3>2. CASE r = Len(b)
      <4>1. Ended(b) /\ w[r + 1] = c
        BY <1>2, <2>2, <3>1, <3>2 DEF Ended
      <4> QED
        BY <1>4, <4>1
    <3>3. CASE r # Len(b)
      <4>1. r \in 1..(Len(b) - 1) /\ w[r + 1] = b[r + 1]
        BY <1>2, <3>3
      <4> QED
        BY <1>3, <2>2, <3>1, <4>1 DEF BlockInv
    <3> QED
      BY <3>2, <3>3
  <2> QED
    BY <2>1, <2>2 DEF BlockInv
<1>10. Terminated(h) <=> c.op \in Terminators
  <2>1. Terminated(h) <=> Ended(w)
    BY <1>2, TerminatedIsEnded DEF w
  <2>2. w # <<>> /\ w[Len(w)] = c
    BY <1>2
  <2> QED
    BY <2>1, <2>2 DEF Ended
<1>11. c.op = "do" => Current(R, M, h) = Res(R, To(c.at + 1))
  <2>1. Current(R, M, h) = Res(R, Before(M, w, k, Len(w) + 1))
    BY <1>2 DEF Current, w
  <2>2. Len(w) + 1 # 1 /\ w[Len(w) + 1 - 1] = c
    BY <1>2
  <2> QED
    BY <2>1, <2>2 DEF Before
<1>12. CodeInv(t, R, M, h, P)
  <2>1. ASSUME NEW j \in 1..Len(h.blocks)
        PROVE  /\ BlockInv(t, R, M, h.blocks[j], j)
               /\ Ended(h.blocks[j]) \/ j = h.insert \/ j \in P
    <3>1. CASE j = k
      BY <1>2, <1>9, <3>1 DEF w
    <3>2. CASE j # k
      <4>1. h.blocks[j] = g.blocks[j] /\ j \in 1..Len(g.blocks)
        BY <1>2, <3>2
      <4> QED
        BY <1>2, <3>2, <4>1 DEF CodeInv
    <3> QED
      BY <3>1, <3>2
  <2>2. \A j \in P : j \in 1..Len(h.blocks) /\ h.blocks[j] = <<>> /\ j # h.insert
    BY <1>2 DEF CodeInv
  <2>3. M \in [1..Len(h.blocks) -> Points(t)] /\ h.insert \in 1..Len(h.blocks)
    BY <1>1, <1>2 DEF CodeInv
  <2> QED
    BY <1>2, <2>1, <2>2, <2>3 DEF CodeInv
<1> QED
  BY <1>2, <1>6, <1>7, <1>10, <1>11, <1>12 DEF h

Without(P, k) == P \ {k}
With(P, N, n) == P \cup ((N + 1)..(N + n))

(* Blocks are added, with the meanings in L.                               *)
Meant(Q, N, n, L)  == \A i \in 1..n : Q[N + i] = L[i]
Longer(M, N, n, L) == [k \in 1..(N + n) |-> IF k <= N THEN M[k] ELSE L[k - N]]

(* New blocks, that are to be filled, leave the code as it is right.       *)
LEMMA NewBlocksKeeps ==
  ASSUME NEW t, NEW R, NEW M, NEW g, NEW P, CodeInv(t, R, M, g, P),
         NEW n \in Nat, NEW L, \A i \in 1..n : L[i] \in Points(t)
  PROVE  LET N == Len(g.blocks)
             Q == Longer(M, N, n, L)
             h == NewBlocks(g, n)
         IN  /\ CodeInv(t, R, Q, h, With(P, N, n))
             /\ Agree(M, Q) /\ Meant(Q, N, n, L)
             /\ Terminated(h) <=> Terminated(g)
             /\ Current(R, Q, h) = Current(R, M, g)
             /\ N \in Nat /\ Len(h.blocks) = N + n /\ h.insert = g.insert
<1> DEFINE N == Len(g.blocks)
           Q == Longer(M, N, n, L)
           h == NewBlocks(g, n)
<1>1. g \in Codes /\ N \in Nat /\ g.insert \in 1..N /\ M \in [1..N -> Points(t)]
  BY DEF CodeInv, Codes
<1>2. /\ h \in Codes /\ h.insert = g.insert /\ Len(h.blocks) = N + n
      /\ \A k \in 1..N : h.blocks[k] = g.blocks[k]
      /\ \A k \in (N + 1)..(N + n) : h.blocks[k] = <<>>
  <2> HIDE DEF h, N
  <2> QED
    BY <1>1, NewBlocksIs DEF h, N
<1> HIDE DEF h, N
<1>3. Q \in [1..(N + n) -> Points(t)]
  <2> SUFFICES ASSUME NEW k \in 1..(N + n)
               PROVE  (IF k <= N THEN M[k] ELSE L[k - N]) \in Points(t)
    BY DEF Longer
  <2>1. k <= N => k \in 1..N
    BY <1>1
  <2>2. ~(k <= N) => k - N \in 1..n
    BY <1>1
  <2> QED
    BY <1>1, <2>1, <2>2
<1>4. DOMAIN Q = 1..(N + n) /\ \A k \in 1..(N + n) : Q[k] = IF k <= N THEN M[k] ELSE L[k - N]
  BY DEF Longer
<1> HIDE DEF Q
<1>5. Agree(M, Q)
  <2>1. DOMAIN M = 1..N /\ \A k \in 1..N : k \in 1..(N + n) /\ k <= N
    BY <1>1
  <2> QED
    BY <1>4, <2>1 DEF Agree
<1>6. \A i \in 1..n : Q[N + i] = L[i]
  <2> TAKE i \in 1..n
  <2> DEFINE k == N + i
  <2>1. k \in 1..(N + n) /\ ~(k <= N) /\ k - N = i
    BY <1>1
  <2>2. Q[k] = L[k - N]
    <3> HIDE DEF k
    <3> QED
      BY <1>4, <2>1
  <2> QED
    BY <2>1, <2>2
<1>7. ASSUME NEW k \in 1..N
      PROVE  BlockInv(t, R, Q, g.blocks[k], k)
  <2>1. BlockInv(t, R, M, g.blocks[k], k) /\ Q[k] = M[k]
    BY <1>1, <1>5 DEF CodeInv, Agree, N
  <2>2. \A b, r : Before(Q, b, k, r) = Before(M, b, k, r)
    BY <2>1 DEF Before
  <2> QED
    BY <1>5, <2>1, <2>2, FitsAgrees DEF BlockInv
<1>8. \A k : BlockInv(t, R, Q, <<>>, k)
  BY DEF BlockInv
<1>9. CodeInv(t, R, Q, h, P \cup ((N + 1)..(N + n)))
  <2>1. ASSUME NEW k \in 1..(N + n)
        PROVE  /\ BlockInv(t, R, Q, h.blocks[k], k)
               /\ Ended(h.blocks[k]) \/ k = h.insert \/ k \in P \cup ((N + 1)..(N + n))
    <3>1. CASE k \in 1..N
      BY <1>2, <1>7, <3>1 DEF CodeInv, N
    <3>2. CASE k \notin 1..N
      <4>1. k \in (N + 1)..(N + n)
        BY <1>1, <3>2
      <4> QED
        BY <1>2, <1>8, <4>1
    <3> QED
      BY <3>1, <3>2
  <2>2. ASSUME NEW k \in P \cup ((N + 1)..(N + n))
        PROVE  k \in 1..(N + n) /\ h.blocks[k] = <<>> /\ k # h.insert
    <3>1. CASE k \in P
      <4>1. k \in 1..N /\ g.blocks[k] = <<>> /\ k # g.insert
        BY <3>1 DEF CodeInv, N
      <4> QED
        BY <1>1, <1>2, <4>1
    <3>2. CASE k \in (N + 1)..(N + n)
      BY <1>1, <1>2, <3>2
    <3> QED
      BY <3>1, <3>2
  <2>3. h.insert \in 1..(N + n)
    BY <1>1, <1>2
  <2> QED
    BY <1>2, <1>3, <2>1, <2>2, <2>3 DEF CodeInv
<1>10. h.blocks[h.insert] = g.blocks[g.insert] /\ Q[g.insert] = M[g.insert]
  BY <1>1, <1>2, <1>5 DEF Agree
<1>11. Terminated(h) <=> Terminated(g)
  BY <1>10, TerminatedIsEnded
<1>12. Current(R, Q, h) = Current(R, M, g)
  BY <1>2, <1>10 DEF Current, Before
<1>13. CodeInv(t, R, Q, h, With(P, N, n)) /\ Meant(Q, N, n, L)
  BY <1>6, <1>9 DEF With, Meant
<1> QED
  BY <1>1, <1>2, <1>5, <1>6, <1>13, <1>11, <1>12 DEF h, N, Q

(* When a block is over the next one is filled.                            *)
LEMMA PointToKeeps ==
  ASSUME NEW t, NEW R, NEW M, NEW g, NEW P, CodeInv(t, R, M, g, P),
         Terminated(g), NEW k \in P
  PROVE  /\ CodeInv(t, R, M, PointTo(g, k), Without(P, k))
         /\ ~Terminated(PointTo(g, k)) /\ Current(R, M, PointTo(g, k)) = Res(R, M[k])
         /\ Len(PointTo(g, k).blocks) = Len(g.blocks)
<1> DEFINE h == PointTo(g, k)
<1>1. /\ g \in Codes /\ Len(g.blocks) \in Nat
      /\ k \in 1..Len(g.blocks) /\ g.blocks[k] = <<>> /\ k # g.insert
      /\ Ended(g.blocks[g.insert])
  BY TerminatedIsEnded DEF CodeInv, Codes
<1>2. h \in Codes /\ h.blocks = g.blocks /\ h.insert = k
  <2> HIDE DEF h
  <2> QED
    BY <1>1, PointToIs DEF h
<1> HIDE DEF h
<1>3. ~Terminated(h)
  BY <1>1, <1>2, TerminatedIsEnded DEF Ended
<1>4. Current(R, M, h) = Res(R, M[k])
  BY <1>1, <1>2 DEF Current, Before
<1>5. CodeInv(t, R, M, h, Without(P, k))
  BY <1>1, <1>2 DEF CodeInv, Without
<1> QED
  BY <1>2, <1>3, <1>4, <1>5 DEF h

(* What Instr makes is an instruction, for the construct that is           *)
(* generated.                                                              *)
LEMMA InstrIs ==
  ASSUME at \in Nat, NEW op \in Terminators \cup {"do"}, NEW to \in Seq(Nat)
  PROVE  /\ Instr(op, to) \in Instrs
         /\ Instr(op, to).op = op /\ Instr(op, to).at = at /\ Instr(op, to).to = to
BY DEF Instr, Instrs

(* A branch to where the text is.                                          *)
LEMMA BranchKeeps ==
  ASSUME NEW R, NEW M, NEW g, NEW P, CodeInv(body, R, M, g, P), at \in Nat,
         NEW k \in 1..Len(g.blocks),
         ~Terminated(g) => Current(R, M, g) = Res(R, M[k])
  PROVE  LET h == BranchUnlessTerminated(g, k)
         IN  /\ CodeInv(body, R, M, h, P) /\ Terminated(h)
             /\ h.insert = g.insert /\ Len(h.blocks) = Len(g.blocks)
<1>1. CASE Terminated(g)
  BY <1>1 DEF BranchUnlessTerminated
<1>2. CASE ~Terminated(g)
  <2> DEFINE c == Instr("br", <<k>>)
  <2>1. Len(g.blocks) \in Nat /\ DOMAIN M = 1..Len(g.blocks)
    BY DEF CodeInv, Codes
  <2>2. c \in Instrs /\ c.op = "br" /\ c.to = <<k>> /\ c.op \in Terminators
    <3>1. "br" \in Terminators /\ <<k>> \in Seq(Nat)
      BY <2>1 DEF Terminators
    <3> QED
      BY <3>1, InstrIs
  <2> HIDE DEF c
  <2>3. Performs(body, R, M, c, Current(R, M, g))
    BY <1>2, <2>1, <2>2 DEF Performs
  <2>4. BranchUnlessTerminated(g, k) = Emit(g, c)
    BY <1>2 DEF BranchUnlessTerminated, BranchTo, c
  <2> QED
    BY <1>2, <2>2, <2>3, <2>4, EmitKeeps
<1> QED
  BY <1>1, <1>2

(* The same for a branch from a block that is not terminated yet.          *)
LEMMA BranchToKeeps ==
  ASSUME NEW R, NEW M, NEW g, NEW P, CodeInv(body, R, M, g, P), at \in Nat,
         NEW k \in 1..Len(g.blocks),
         ~Terminated(g), Current(R, M, g) = Res(R, M[k])
  PROVE  LET h == BranchTo(g, k)
         IN  /\ CodeInv(body, R, M, h, P) /\ Terminated(h)
             /\ h.insert = g.insert /\ Len(h.blocks) = Len(g.blocks)
<1>1. BranchTo(g, k) = BranchUnlessTerminated(g, k)
  BY DEF BranchUnlessTerminated
<1> QED
  BY <1>1, BranchKeeps

(* An empty block gets a branch.                                           *)
LEMMA ArmKeeps ==
  ASSUME NEW R, NEW M, NEW g, NEW P, CodeInv(body, R, M, g, P), at \in Nat,
         Terminated(g), NEW k \in P, NEW m \in 1..Len(g.blocks), Res(R, M[k]) = Res(R, M[m])
  PROVE  LET h == BranchTo(PointTo(g, k), m)
         IN  /\ CodeInv(body, R, M, h, Without(P, k)) /\ Terminated(h)
             /\ Len(h.blocks) = Len(g.blocks)
<1> DEFINE f == PointTo(g, k)
           S == Without(P, k)
<1>1. /\ CodeInv(body, R, M, f, S) /\ ~Terminated(f) /\ Current(R, M, f) = Res(R, M[k])
      /\ Len(f.blocks) = Len(g.blocks)
  BY PointToKeeps
<1> HIDE DEF f, S
<1>2. CodeInv(body, R, M, BranchTo(f, m), S) /\ Terminated(BranchTo(f, m))
      /\ Len(BranchTo(f, m).blocks) = Len(f.blocks)
  BY <1>1, BranchToKeeps
<1> QED
  BY <1>1, <1>2 DEF f, S

(* The expression of a construct, an iif in it or not: what is left to do  *)
(* is the construct itself.                                                *)
LEMMA ExprKeeps ==
  ASSUME NEW R, NEW M, NEW g, NEW P, CodeInv(body, R, M, g, P),
         body \in Seq(Constructs), at \in 1..Len(body),
         ~Terminated(g) => Current(R, M, g).at = at /\ Current(R, M, g).how # "chosen",
         Terminated(g) => LateElif(body)
  PROVE  LET h == GenerateExpr(g)
         IN  \E L : /\ CodeInv(body, R, L, h, P) /\ Agree(M, L)
                    /\ ~Terminated(h) =>
                         Event(body, Current(R, L, h)) = [op |-> Kind(body[at].op), at |-> at]
                    /\ Terminated(h) => Terminated(g)
                    /\ Len(g.blocks) <= Len(h.blocks) /\ Len(g.blocks) \in Nat
<1> DEFINE n == Len(g.blocks)
<1>1. /\ Len(body) \in Nat /\ at \in Nat /\ ~(at > Len(body)) /\ n \in Nat
      /\ body[at].iif \in BOOLEAN
  <2>1. body[at] \in Constructs /\ Len(body) \in Nat
    OBVIOUS
  <2>2. n \in Nat
    BY DEF CodeInv, Codes
  <2>3. body[at].iif \in BOOLEAN
    BY <2>1 DEF Constructs
  <2> HIDE DEF n
  <2> QED
    BY <2>1, <2>2, <2>3
<1>2. CASE ~body[at].iif
  <2>1. GenerateExpr(g) = g
    BY <1>2 DEF GenerateExpr
  <2>2. ~Terminated(g) => Event(body, Current(R, M, g)) = [op |-> Kind(body[at].op), at |-> at]
    BY <1>1, <1>2 DEF Event
  <2> QED
    BY <1>1, <2>1, <2>2 DEF Agree
<1>3. CASE body[at].iif
  <2> DEFINE n1 == n + 1
             n2 == n + 2
             n3 == n + 3
             L3 == [i \in 1..3 |-> Chosen(at)]
             L  == Longer(M, n, 3, L3)
             b0 == NewBlocks(g, 3)
             to == <<n1, n2>>
             i0 == Instr("choose", to)
             c  == Emit(b0, i0)
             t1 == BranchTo(PointTo(c, n1), n3)
             f1 == BranchTo(PointTo(t1, n2), n3)
             h  == PointTo(f1, n3)
             Q0 == With(P, n, 3)
             Q1 == Without(Q0, n1)
             Q2 == Without(Q1, n2)
             Q3 == Without(Q2, n3)
  <2>1. Chosen(at) \in Points(body) /\ Res(R, Chosen(at)) = Chosen(at)
    BY <1>1 DEF Points, Chosen, Res
  <2>2. /\ n1 \in Nat /\ n2 \in Nat /\ n3 \in Nat /\ n1 \in 1..n3
        /\ n2 \in 1..n3 /\ n3 \in 1..n3
    BY <1>1
  <2>3. /\ CodeInv(body, R, L, b0, Q0) /\ Agree(M, L)
        /\ L[n1] = Chosen(at) /\ L[n2] = Chosen(at) /\ L[n3] = Chosen(at)
        /\ Terminated(b0) <=> Terminated(g)
        /\ Current(R, L, b0) = Current(R, M, g) /\ Len(b0.blocks) = n3
    <3>1. \A i \in 1..3 : L3[i] \in Points(body)
      BY <2>1
    <3>2. /\ CodeInv(body, R, L, b0, Q0) /\ Agree(M, L) /\ \A i \in 1..3 : L[n + i] = L3[i]
          /\ Terminated(b0) <=> Terminated(g)
          /\ Current(R, L, b0) = Current(R, M, g) /\ Len(b0.blocks) = n + 3
      <4> DEFINE three == 3
      <4>1. three \in Nat /\ \A i \in 1..three : L3[i] \in Points(body)
        BY <3>1
      <4> HIDE DEF L3, three
      <4>2. LET h1 == NewBlocks(g, three)
                K  == Longer(M, Len(g.blocks), three, L3)
            IN  /\ CodeInv(body, R, K, h1, With(P, Len(g.blocks), three))
                /\ Agree(M, K) /\ Meant(K, Len(g.blocks), three, L3)
                /\ Terminated(h1) <=> Terminated(g)
                /\ Current(R, K, h1) = Current(R, M, g)
                /\ Len(h1.blocks) = Len(g.blocks) + three
        BY <4>1, NewBlocksKeeps
      <4> QED
        BY <4>2 DEF three, Meant
    <3>3. 1 \in 1..3 /\ 2 \in 1..3 /\ 3 \in 1..3 /\ \A i \in 1..3 : L3[i] = Chosen(at)
      OBVIOUS
    <3> HIDE DEF L, b0, L3
    <3> QED
      BY <3>2, <3>3
  <2> HIDE DEF L3, L, b0
  <2>4. /\ i0 \in Instrs /\ i0.op = "choose" /\ i0.to = to /\ i0.at = at
        /\ i0.op \in Terminators
    <3>1. "choose" \in Terminators /\ to \in Seq(Nat)
      BY <2>2 DEF Terminators
    <3> HIDE DEF to
    <3> QED
      BY <1>1, <3>1, InstrIs
  <2>5. ToSet(to) = {n1, n2}
    <3> HIDE DEF n1, n2
    <3>1. DOMAIN to = {1, 2}
      OBVIOUS
    <3> QED
      BY <3>1 DEF ToSet
  <2> HIDE DEF i0
  <2>6. DOMAIN L = 1..n3
    BY <2>3 DEF CodeInv
  <2> HIDE DEF n1, n2, n3, to
  <2>7. ~Terminated(b0) => Performs(body, R, L, i0, Current(R, L, b0))
    <3> SUFFICES ASSUME ~Terminated(b0)
                 PROVE  Performs(body, R, L, i0, Current(R, L, b0))
      OBVIOUS
    <3>1. Event(body, Current(R, L, b0)) = [op |-> "choose", at |-> at]
      BY <1>1, <1>3, <2>3 DEF Event
    <3>2. \A x \in {n1, n2} : x \in DOMAIN L /\ L[x] = Chosen(at)
      BY <2>2, <2>3, <2>6
    <3> QED
      BY <2>4, <2>5, <3>1, <3>2 DEF Performs
  <2>8. CodeInv(body, R, L, c, Q0) /\ Terminated(c) /\ Len(c.blocks) = n3
    BY <2>3, <2>4, <2>7, EmitKeeps
  <2>9. n1 \in Q0 /\ n2 \in Q1 /\ n3 \in Q2 /\ Q3 = P
    <3>1. \A k \in P : k \in 1..n
      BY DEF CodeInv
    <3>2. (n + 1)..(n + 3) = {n1, n2, n3} /\ n1 # n2 /\ n1 # n3 /\ n2 # n3
      <4> HIDE DEF n
      <4> QED
        BY <1>1 DEF n1, n2, n3
    <3>3. n1 \notin P /\ n2 \notin P /\ n3 \notin P
      <4> HIDE DEF n
      <4> QED
        BY <1>1, <3>1 DEF n1, n2, n3
    <3> QED
      BY <3>2, <3>3 DEF With, Without
  <2> HIDE DEF Q0, Q1, Q2, Q3, c
  <2>10. Res(R, L[n1]) = Res(R, L[n3]) /\ Res(R, L[n2]) = Res(R, L[n3])
    BY <2>3
  <2>11. CodeInv(body, R, L, t1, Q1) /\ Terminated(t1) /\ Len(t1.blocks) = n3
    <3>1. n3 \in 1..Len(c.blocks)
      BY <2>2, <2>8
    <3>2. CodeInv(body, R, L, c, Q0) /\ Terminated(c) /\ n1 \in Q0 /\ at \in Nat
      BY <1>1, <2>8, <2>9
    <3>3. /\ CodeInv(body, R, L, t1, Without(Q0, n1)) /\ Terminated(t1)
          /\ Len(t1.blocks) = Len(c.blocks)
      BY <2>10, <3>1, <3>2, ArmKeeps
    <3> QED
      BY <2>8, <3>3 DEF Q1
  <2> HIDE DEF t1
  <2>12. CodeInv(body, R, L, f1, Q2) /\ Terminated(f1) /\ Len(f1.blocks) = n3
    <3>1. n3 \in 1..Len(t1.blocks)
      BY <2>2, <2>11
    <3>2. CodeInv(body, R, L, t1, Q1) /\ Terminated(t1) /\ n2 \in Q1 /\ at \in Nat
      BY <1>1, <2>9, <2>11
    <3>3. /\ CodeInv(body, R, L, f1, Without(Q1, n2)) /\ Terminated(f1)
          /\ Len(f1.blocks) = Len(t1.blocks)
      BY <2>10, <3>1, <3>2, ArmKeeps
    <3> QED
      BY <2>11, <3>3 DEF Q2
  <2> HIDE DEF f1
  <2>13. /\ CodeInv(body, R, L, h, Q3) /\ ~Terminated(h)
         /\ Current(R, L, h) = Chosen(at) /\ Len(h.blocks) = n3
    <3>1. CodeInv(body, R, L, f1, Q2) /\ Terminated(f1) /\ n3 \in Q2
      BY <2>9, <2>12
    <3>2. /\ CodeInv(body, R, L, h, Without(Q2, n3)) /\ ~Terminated(h)
          /\ Current(R, L, h) = Res(R, L[n3]) /\ Len(h.blocks) = Len(f1.blocks)
      BY <3>1, PointToKeeps
    <3> QED
      BY <2>1, <2>3, <2>12, <3>2 DEF Q3
  <2>14. h = GenerateExpr(g)
    BY <1>3 DEF GenerateExpr, f1, t1, c, b0, i0, to, n1, n2, n3
  <2>15. Event(body, Chosen(at)) = [op |-> Kind(body[at].op), at |-> at]
    BY <1>1 DEF Event, Chosen
  <2> HIDE DEF h
  <2>16. Len(g.blocks) <= Len(h.blocks) /\ Len(g.blocks) \in Nat
    BY <1>1, <2>13 DEF n3
  <2> QED
    BY <2>3, <2>9, <2>13, <2>14, <2>15, <2>16
<1> QED
  BY <1>1, <1>2, <1>3

-----------------------------------------------------------------------------
(* The links of a text that is over                                        *)

(* There is one next construct of a statement.                             *)
LEMMA NextIsUnique ==
  ASSUME NEW t, NEW d, NEW S, NEW i \in Nat, Len(t) \in Nat, NEW j, NEW k,
         NextAt(t, d, S, i, j), NextAt(t, d, S, i, k)
  PROVE  j = k
<1>1. j \in (i + 1)..Len(t) /\ k \in (i + 1)..Len(t)
  BY DEF NextAt
<1>2. ASSUME j < k
      PROVE  FALSE
  <2>1. j \in (i + 1)..(k - 1)
    BY <1>1, <1>2
  <2> QED
    BY <2>1 DEF NextAt, NoneIn
<1>3. ASSUME k < j
      PROVE  FALSE
  <2>1. k \in (i + 1)..(j - 1)
    BY <1>1, <1>3
  <2> QED
    BY <2>1 DEF NextAt, NoneIn
<1> QED
  BY <1>1, <1>2, <1>3

(* In a body that is read every part of a statement leads to the next one  *)
(* and to the end of the statement, both behind it.                        *)
LEMMA EndOf ==
  ASSUME NEW t, NEW d, Structured(t, <<>>, d), NEW i \in 1..Len(t), t[i].op \in Parts
  PROVE  /\ Continued(t, d, i) /\ t[i].next \in (i + 1)..Len(t)
         /\ NextAt(t, d, {"end"}, i, t[i].end) /\ t[i].end \in (i + 1)..Len(t)
         /\ t[t[i].next].op = "end" => t[i].next = t[i].end
<1>1. Len(t) \in Nat /\ PartInv(t, <<>>, d, i)
  BY DEF Structured
<1>2. Continued(t, d, i) /\ NextAt(t, d, {"end"}, i, t[i].end)
  BY <1>1 DEF PartInv, IsLast, IsOpen
<1>3. NextAt(t, d, Branches, i, t[i].next)
  BY <1>2 DEF Continued
<1>4. t[i].next \in (i + 1)..Len(t) /\ t[i].end \in (i + 1)..Len(t)
  BY <1>2, <1>3 DEF NextAt
<1>5. ASSUME t[t[i].next].op = "end"
      PROVE  t[i].next = t[i].end
  <2> DEFINE E == {"end"}
  <2>1. NextAt(t, d, E, i, t[i].next)
    <3>1. NoneIn(t, d, E, Level(t, d, i), i, t[i].next)
      BY <1>3 DEF NextAt, NoneIn, Branches
    <3> QED
      BY <1>3, <1>5, <3>1 DEF NextAt
  <2>2. NextAt(t, d, E, i, t[i].end)
    BY <1>2
  <2> HIDE DEF E
  <2> QED
    BY <1>1, <2>1, <2>2, NextIsUnique
<1> QED
  BY <1>2, <1>4, <1>5

(* pos[k] is the part of the k-th statement around i that i is in, n the   *)
(* statements that code is generated for, s those that are passed over.    *)
NestInv(t, d, pos, i, n, s) ==
  /\ pos \in [1..n -> 1..Len(t)]
  /\ i \in 1..(Len(t) + 1) /\ n \in Nat /\ s \in Nat /\ d[i] = n + s
  /\ \A k \in 1..n : /\ pos[k] < i /\ t[pos[k]].op \in Parts /\ Level(t, d, pos[k]) = k
                     /\ NoneIn(t, d, Branches, k, pos[k], i)

(* A branch or an end of the innermost statement is the next one of its    *)
(* part.                                                                   *)
LEMMA ComesNext ==
  ASSUME NEW t, NEW d, Structured(t, <<>>, d), NEW pos, NEW n, NEW i \in 1..Len(t),
         NestInv(t, d, pos, i, n, 0), n # 0, t[i].op \in Branches
  PROVE  /\ pos[n] \in 1..Len(t) /\ pos[n] < i /\ t[pos[n]].op \in Parts
         /\ t[pos[n]].next = i
         /\ t[i].op = "end" => t[pos[n]].end = i
         /\ t[i].op \in Parts => t[pos[n]].end = t[i].end
<1> DEFINE p == pos[n]
<1>1. Len(t) \in Nat /\ n \in 1..n /\ n \in Nat /\ d[i] = n
  BY DEF Structured, NestInv, Depths
<1>2. /\ p \in 1..Len(t) /\ p < i /\ t[p].op \in Parts /\ Level(t, d, p) = n
      /\ NoneIn(t, d, Branches, n, p, i)
  BY <1>1 DEF NestInv
<1> HIDE DEF p
<1>3. NextAt(t, d, Branches, p, i)
  BY <1>1, <1>2 DEF NextAt
<1>4. /\ Continued(t, d, p) /\ NextAt(t, d, {"end"}, p, t[p].end)
      /\ t[t[p].next].op = "end" => t[p].next = t[p].end
  BY <1>2, EndOf
<1>5. t[p].next = i
  <2>1. NextAt(t, d, Branches, p, t[p].next) /\ p \in Nat
    BY <1>2, <1>4 DEF Continued
  <2> QED
    BY <1>1, <1>3, <2>1, NextIsUnique
<1>6. ASSUME t[i].op \in Parts
      PROVE  t[p].end = t[i].end
  <2> DEFINE E == {"end"}
  <2>1. NextAt(t, d, E, i, t[i].end)
    BY <1>6, EndOf
  <2>2. t[i].op \notin Openers /\ t[i].op \notin E
    BY <1>6 DEF Branches, Parts, Openers
  <2>3. Level(t, d, i) = n
    BY <1>1, <2>2 DEF Level
  <2>4. t[i].end \in (i + 1)..Len(t) /\ NoneIn(t, d, E, n, i, t[i].end)
    BY <2>1, <2>3 DEF NextAt
  <2>5. NoneIn(t, d, E, n, p, t[i].end)
    <3> SUFFICES ASSUME NEW m \in (p + 1)..(t[i].end - 1), t[m].op \in E
                 PROVE  d[m] # n
      BY DEF NoneIn
    <3>1. CASE m < i
      <4>1. m \in (p + 1)..(i - 1) /\ t[m].op \in Branches
        BY <1>2, <2>4, <3>1 DEF Branches
      <4> QED
        BY <1>2, <4>1 DEF NoneIn
    <3>2. CASE m > i
      <4>1. m \in (i + 1)..(t[i].end - 1)
        BY <1>2, <2>4, <3>2
      <4> QED
        BY <2>4, <4>1 DEF NoneIn
    <3>3. m # i
      BY <2>2
    <3> QED
      BY <1>2, <2>4, <3>1, <3>2, <3>3
  <2>6. NextAt(t, d, E, p, t[i].end)
    <3>1. t[i].end \in (p + 1)..Len(t)
      BY <1>2, <2>4
    <3> QED
      BY <1>2, <2>1, <2>3, <2>5, <3>1 DEF NextAt
  <2>7. NextAt(t, d, E, p, t[p].end) /\ p \in Nat
    BY <1>2, <1>4
  <2> HIDE DEF E
  <2> QED
    BY <1>1, <2>6, <2>7, NextIsUnique
<1> QED
  BY <1>2, <1>4, <1>5, <1>6 DEF p

(* One construct more that is not of the statement.                        *)
LEMMA NoneInNext ==
  ASSUME NEW t, NEW d, NEW S, NEW k, NEW p \in Nat, NEW i \in Nat,
         NoneIn(t, d, S, k, p, i), t[i].op \in S => d[i] # k
  PROVE  NoneIn(t, d, S, k, p, i + 1)
<1>1. \A m \in (p + 1)..(i + 1 - 1) : m \in (p + 1)..(i - 1) \/ m = i
  OBVIOUS
<1> QED
  BY <1>1 DEF NoneIn

(* A step that opens and closes nothing code is generated for.             *)
LEMMA NestPasses ==
  ASSUME NEW t, NEW d, Depths(t, 0, d), Len(t) \in Nat, NEW pos, NEW n, NEW s, NEW i \in 1..Len(t),
         NestInv(t, d, pos, i, n, s), t[i].op \in Branches => s # 0,
         NEW x \in Nat, DepthAfter(t[i], n + s) = n + x
  PROVE  NestInv(t, d, pos, i + 1, n, x)
<1>1. /\ d[i + 1] = n + x /\ i + 1 \in 1..(Len(t) + 1) /\ d[i] = n + s
      /\ n \in Nat /\ s \in Nat
  BY DEF Depths, NestInv
<1>2. ASSUME NEW k \in 1..n
      PROVE  /\ pos[k] < i + 1 /\ t[pos[k]].op \in Parts /\ Level(t, d, pos[k]) = k
             /\ NoneIn(t, d, Branches, k, pos[k], i + 1)
  <2>1. /\ pos[k] < i /\ t[pos[k]].op \in Parts /\ Level(t, d, pos[k]) = k
        /\ pos[k] \in 1..Len(t)
        /\ NoneIn(t, d, Branches, k, pos[k], i)
    BY DEF NestInv
  <2>2. t[i].op \in Branches => d[i] # k
    BY <1>1
  <2>3. NoneIn(t, d, Branches, k, pos[k], i + 1)
    <3>1. pos[k] \in Nat /\ i \in Nat
      BY <2>1
    <3> QED
      BY <2>1, <2>2, <3>1, NoneInNext
  <2>4. pos[k] < i + 1
    BY <2>1
  <2> QED
    BY <2>1, <2>3, <2>4
<1> QED
  BY <1>1, <1>2 DEF NestInv

Pushed(pos, n, i) == [k \in 1..(n + 1) |-> IF k = n + 1 THEN i ELSE pos[k]]
Popped(pos, n)    == [k \in 1..(n - 1) |-> pos[k]]

(* A statement is opened.                                                  *)
LEMMA NestOpens ==
  ASSUME NEW t, NEW d, Depths(t, 0, d), Len(t) \in Nat, NEW pos, NEW n, NEW i \in 1..Len(t),
         NestInv(t, d, pos, i, n, 0), t[i].op \in Openers
  PROVE  NestInv(t, d, Pushed(pos, n, i), i + 1, n + 1, 0)
<1> DEFINE q == Pushed(pos, n, i)
<1>1. d[i + 1] = n + 1 /\ i + 1 \in 1..(Len(t) + 1) /\ d[i] = n /\ n \in Nat
  BY DEF Depths, DepthAfter, NestInv
<1>2. q \in [1..(n + 1) -> 1..Len(t)]
  <2>1. \A k \in 1..(n + 1) : k = n + 1 \/ k \in 1..n
    BY <1>1
  <2> QED
    BY <2>1 DEF Pushed, NestInv
<1>3. t[i].op \notin Branches /\ t[i].op \in Parts /\ Level(t, d, i) = n + 1
  BY <1>1 DEF Openers, Branches, Parts, Level
<1>4. ASSUME NEW k \in 1..(n + 1)
      PROVE  /\ q[k] < i + 1 /\ t[q[k]].op \in Parts /\ Level(t, d, q[k]) = k
             /\ NoneIn(t, d, Branches, k, q[k], i + 1)
  <2>1. CASE k = n + 1
    <3>1. q[k] = i
      BY <2>1 DEF Pushed
    <3>2. NoneIn(t, d, Branches, k, i, i + 1)
      BY DEF NoneIn
    <3> QED
      BY <1>3, <2>1, <3>1, <3>2
  <2>2. CASE k # n + 1
    <3>1. k \in 1..n /\ q[k] = pos[k]
      BY <1>1, <2>2 DEF Pushed
    <3>2. /\ pos[k] < i /\ t[pos[k]].op \in Parts /\ Level(t, d, pos[k]) = k
          /\ pos[k] \in 1..Len(t)
          /\ NoneIn(t, d, Branches, k, pos[k], i)
      BY <3>1 DEF NestInv
    <3>3. pos[k] \in Nat /\ i \in Nat
      BY <3>2
    <3>4. NoneIn(t, d, Branches, k, pos[k], i + 1)
      BY <1>3, <3>2, <3>3, NoneInNext
    <3>5. pos[k] < i + 1
      BY <3>2
    <3> QED
      BY <3>1, <3>2, <3>4, <3>5
  <2> QED
    BY <2>1, <2>2
<1>5. d[i + 1] = (n + 1) + 0 /\ n + 1 \in Nat /\ 0 \in Nat
  BY <1>1
<1> HIDE DEF q
<1>6. NestInv(t, d, q, i + 1, n + 1, 0)
  BY <1>1, <1>2, <1>4, <1>5 DEF NestInv
<1> QED
  BY <1>6 DEF q

(* The innermost statement is over.                                        *)
LEMMA NestCloses ==
  ASSUME NEW t, NEW d, Depths(t, 0, d), Len(t) \in Nat, NEW pos, NEW n, NEW i \in 1..Len(t),
         NestInv(t, d, pos, i, n, 0), n # 0, t[i].op = "end"
  PROVE  NestInv(t, d, Popped(pos, n), i + 1, n - 1, 0)
<1> DEFINE q == Popped(pos, n)
           m == n - 1
<1>1. d[i + 1] = m + 0 /\ i + 1 \in 1..(Len(t) + 1) /\ d[i] = n /\ n \in Nat /\ m \in Nat
  <2>1. d[i] = n /\ n \in Nat /\ i + 1 \in 1..(Len(t) + 1)
    BY DEF NestInv
  <2>2. d[i + 1] = DepthAfter(t[i], d[i])
    BY DEF Depths
  <2>3. d[i + 1] = n - 1
    BY <2>1, <2>2 DEF DepthAfter, Openers
  <2> QED
    BY <2>1, <2>3
<1>2. q \in [1..m -> 1..Len(t)] /\ \A k \in 1..m : q[k] = pos[k] /\ k \in 1..n /\ k # n
  <2>1. \A k \in 1..m : k \in 1..n /\ k # n
    BY <1>1
  <2> QED
    BY <2>1 DEF Popped, NestInv
<1> HIDE DEF q, m
<1>3. ASSUME NEW k \in 1..m
      PROVE  /\ q[k] < i + 1 /\ t[q[k]].op \in Parts /\ Level(t, d, q[k]) = k
             /\ NoneIn(t, d, Branches, k, q[k], i + 1)
  <2>1. k \in 1..n /\ q[k] = pos[k] /\ d[i] # k
    BY <1>1, <1>2
  <2>2. /\ pos[k] < i /\ t[pos[k]].op \in Parts /\ Level(t, d, pos[k]) = k
        /\ pos[k] \in 1..Len(t)
        /\ NoneIn(t, d, Branches, k, pos[k], i)
    BY <2>1 DEF NestInv
  <2>3. pos[k] \in Nat /\ i \in Nat
    BY <2>2
  <2>4. NoneIn(t, d, Branches, k, pos[k], i + 1)
    BY <2>1, <2>2, <2>3, NoneInNext
  <2>5. pos[k] < i + 1
    BY <2>2
  <2> QED
    BY <2>1, <2>2, <2>4, <2>5
<1>4. NestInv(t, d, q, i + 1, m, 0)
  BY <1>1, <1>2, <1>3 DEF NestInv
<1> QED
  BY <1>4 DEF q, m

(* The innermost statement goes on with another branch.                    *)
LEMMA NestContinues ==
  ASSUME NEW t, NEW d, Depths(t, 0, d), Len(t) \in Nat, NEW pos, NEW n, NEW i \in 1..Len(t),
         NestInv(t, d, pos, i, n, 0), n # 0, t[i].op \in {"elif", "else"}
  PROVE  NestInv(t, d, Pushed(Popped(pos, n), n - 1, i), i + 1, n, 0)
<1> DEFINE q == Pushed(Popped(pos, n), n - 1, i)
<1>1. d[i + 1] = n + 0 /\ i + 1 \in 1..(Len(t) + 1) /\ d[i] = n /\ n \in Nat
  <2>1. d[i] = n /\ n \in Nat /\ i + 1 \in 1..(Len(t) + 1)
    BY DEF NestInv
  <2>2. d[i + 1] = DepthAfter(t[i], d[i])
    BY DEF Depths
  <2>3. d[i + 1] = n
    BY <2>1, <2>2 DEF DepthAfter, Openers
  <2> QED
    BY <2>1, <2>3
<1>2. q = [k \in 1..n |-> IF k = n THEN i ELSE pos[k]]
  <2> DEFINE m == n - 1
             r == Popped(pos, n)
  <2>1. m + 1 = n
    BY <1>1
  <2>2. \A k \in 1..n : k # n => k \in 1..m
    BY <1>1
  <2>3. r = [k \in 1..m |-> pos[k]]
    BY DEF Popped
  <2> HIDE DEF m, r
  <2>4. Pushed(r, m, i) = [k \in 1..n |-> IF k = n THEN i ELSE r[k]]
    BY <2>1 DEF Pushed
  <2>5. [k \in 1..n |-> IF k = n THEN i ELSE r[k]] = [k \in 1..n |-> IF k = n THEN i ELSE pos[k]]
    BY <2>2, <2>3
  <2>6. q = Pushed(r, m, i)
    BY DEF m, r
  <2> QED
    BY <2>4, <2>5, <2>6
<1> HIDE DEF q
<1>3. q \in [1..n -> 1..Len(t)]
  BY <1>1, <1>2 DEF NestInv
<1>4. t[i].op \in Parts /\ Level(t, d, i) = n
  BY <1>1 DEF Openers, Branches, Parts, Level
<1>5. ASSUME NEW k \in 1..n
      PROVE  /\ q[k] < i + 1 /\ t[q[k]].op \in Parts /\ Level(t, d, q[k]) = k
             /\ NoneIn(t, d, Branches, k, q[k], i + 1)
  <2>1. CASE k = n
    <3>1. q[k] = i
      BY <1>2, <2>1
    <3>2. NoneIn(t, d, Branches, k, i, i + 1)
      BY DEF NoneIn
    <3> QED
      BY <1>4, <2>1, <3>1, <3>2
  <2>2. CASE k # n
    <3>1. q[k] = pos[k] /\ d[i] # k
      BY <1>1, <1>2, <2>2
    <3>2. /\ pos[k] < i /\ t[pos[k]].op \in Parts /\ Level(t, d, pos[k]) = k
          /\ pos[k] \in 1..Len(t)
          /\ NoneIn(t, d, Branches, k, pos[k], i)
      BY DEF NestInv
    <3>3. pos[k] \in Nat /\ i \in Nat
      BY <3>2
    <3>4. NoneIn(t, d, Branches, k, pos[k], i + 1)
      BY <3>1, <3>2, <3>3, NoneInNext
    <3>5. pos[k] < i + 1
      BY <3>2
    <3> QED
      BY <3>1, <3>2, <3>4, <3>5
  <2> QED
    BY <2>1, <2>2
<1>6. NestInv(t, d, q, i + 1, n, 0)
  BY <1>1, <1>3, <1>5 DEF NestInv
<1> QED
  BY <1>6 DEF q

-----------------------------------------------------------------------------
(* The blocks of the statements that code is being generated for           *)

Frames == [op : {"while"}, back : Nat, after : Nat] \cup
          [op : {"if"}, merge : Nat, otherwise : Nat]

(* Those that are not filled yet.                                          *)
Owed(f) == IF f.op = "while" THEN {f.after} ELSE {f.merge} \cup ({f.otherwise} \ {0})
Pending(fs) == UNION {Owed(fs[k]) : k \in 1..Len(fs)}

(* f is the frame of the statement whose part p code is generated for.     *)
FrameInv(t, M, f, p) ==
  /\ Owed(f) \subseteq DOMAIN M
  /\ f.op = "while" => /\ t[p].op = "while"
                       /\ f.back \in DOMAIN M /\ M[f.back] = To(p)
                       /\ M[f.after] = To(t[p].next + 1)
  /\ f.op = "if" => /\ t[p].op # "while"
                    /\ f.merge # 0 /\ M[f.merge] = To(t[p].end + 1)
                    /\ f.otherwise = 0 <=> t[p].op = "else"
                    /\ f.otherwise # 0 => (f.otherwise = f.merge <=> t[t[p].next].op = "end")
                    /\ f.otherwise \notin {0, f.merge} => M[f.otherwise] = OtherwiseOf(t, p)

FramesInv(t, M, fs, pos) ==
  /\ fs \in Seq(Frames)
  /\ \A k \in 1..Len(fs) : FrameInv(t, M, fs[k], pos[k])
  /\ \A j, k \in 1..Len(fs) : j # k => Owed(fs[j]) \cap Owed(fs[k]) = {}

(* What a frame says is the same when blocks are added.                    *)
LEMMA FrameAgrees ==
  ASSUME NEW t, NEW M, NEW L, Agree(M, L), NEW f \in Frames, NEW p, FrameInv(t, M, f, p)
  PROVE  FrameInv(t, L, f, p)
<1>1. Owed(f) \subseteq DOMAIN M /\ DOMAIN M \subseteq DOMAIN L
  BY DEF FrameInv, Agree
<1>2. CASE f.op = "while"
  <2>1. f.after \in DOMAIN M
    BY <1>1, <1>2 DEF Owed
  <2> QED
    BY <1>1, <1>2, <2>1 DEF FrameInv, Agree
<1>3. CASE f.op # "while"
  <2>1. f.merge \in DOMAIN M /\ (f.otherwise # 0 => f.otherwise \in DOMAIN M)
    BY <1>1, <1>3 DEF Owed
  <2> QED
    BY <1>1, <1>3, <2>1 DEF FrameInv, Agree
<1> QED
  BY <1>2, <1>3

(* And so for all the frames.                                              *)
LEMMA FramesAgree ==
  ASSUME NEW t, NEW M, NEW L, Agree(M, L), NEW fs, NEW pos, FramesInv(t, M, fs, pos)
  PROVE  FramesInv(t, L, fs, pos)
<1>1. \A k \in 1..Len(fs) : fs[k] \in Frames
  BY DEF FramesInv
<1>2. \A k \in 1..Len(fs) : FrameInv(t, L, fs[k], pos[k])
  BY <1>1, FrameAgrees DEF FramesInv
<1> QED
  BY <1>2 DEF FramesInv

(* A frame more, for blocks that no other frame owes.                      *)
LEMMA FramesOpen ==
  ASSUME NEW t, NEW M, NEW L, Agree(M, L), NEW fs, NEW pos, FramesInv(t, M, fs, pos),
         NEW f \in Frames, NEW p, FrameInv(t, L, f, p), \A x \in Owed(f) : x \notin Pending(fs)
  PROVE  /\ FramesInv(t, L, Append(fs, f), Pushed(pos, Len(fs), p))
         /\ Pending(Append(fs, f)) = Pending(fs) \cup Owed(f)
         /\ Len(fs) \in Nat /\ Len(Append(fs, f)) = Len(fs) + 1
<1> DEFINE gs == Append(fs, f)
           n  == Len(fs)
           q  == Pushed(pos, n, p)
<1>1. /\ gs \in Seq(Frames) /\ n \in Nat /\ Len(gs) = n + 1 /\ gs[n + 1] = f
      /\ \A k \in 1..n : gs[k] = fs[k]
  BY AppendProperties DEF FramesInv
<1>2. \A k \in 1..(n + 1) : k \in 1..n \/ k = n + 1
  BY <1>1
<1>3. \A k \in 1..n : k \in 1..(n + 1) /\ k # n + 1
  BY <1>1
<1>4. q[n + 1] = p /\ \A k \in 1..n : q[k] = pos[k]
  <2>1. n + 1 \in 1..(n + 1)
    BY <1>1
  <2> QED
    BY <1>3, <2>1 DEF Pushed
<1> HIDE DEF gs, n, q
<1>5. FramesInv(t, L, fs, pos)
  BY FramesAgree
<1>6. ASSUME NEW k \in 1..(n + 1)
      PROVE  FrameInv(t, L, gs[k], q[k])
  <2>1. CASE k = n + 1
    BY <1>1, <1>4, <2>1
  <2>2. CASE k \in 1..n
    BY <1>1, <1>4, <1>5, <2>2 DEF FramesInv, n
  <2> QED
    BY <1>2, <2>1, <2>2
<1>7. \A k \in 1..n : Owed(fs[k]) \subseteq Pending(fs)
  BY DEF Pending, n
<1>8. ASSUME NEW j \in 1..(n + 1), NEW k \in 1..(n + 1), j # k
      PROVE  Owed(gs[j]) \cap Owed(gs[k]) = {}
  <2>1. CASE j = n + 1
    <3>1. k \in 1..n /\ gs[j] = f /\ gs[k] = fs[k]
      BY <1>1, <1>2, <1>8, <2>1
    <3> QED
      BY <1>7, <3>1
  <2>2. CASE k = n + 1
    <3>1. j \in 1..n /\ gs[k] = f /\ gs[j] = fs[j]
      BY <1>1, <1>2, <1>8, <2>2
    <3> QED
      BY <1>7, <3>1
  <2>3. CASE j # n + 1 /\ k # n + 1
    <3>1. j \in 1..n /\ k \in 1..n /\ gs[j] = fs[j] /\ gs[k] = fs[k]
      BY <1>1, <1>2, <2>3
    <3> QED
      BY <1>8, <3>1 DEF FramesInv, n
  <2> QED
    BY <2>1, <2>2, <2>3
<1>9. FramesInv(t, L, gs, q)
  BY <1>1, <1>6, <1>8 DEF FramesInv
<1>10. Pending(gs) = Pending(fs) \cup Owed(f)
  <2>1. ASSUME NEW x \in Pending(gs)
        PROVE  x \in Pending(fs) \/ x \in Owed(f)
    <3>1. PICK k \in 1..(n + 1) : x \in Owed(gs[k])
      BY <1>1 DEF Pending
    <3> QED
      BY <1>1, <1>2, <1>7, <3>1
  <2>2. ASSUME NEW x \in Pending(fs)
        PROVE  x \in Pending(gs)
    <3>1. PICK k \in 1..n : x \in Owed(fs[k])
      BY DEF Pending, n
    <3>2. k \in 1..Len(gs) /\ gs[k] = fs[k]
      BY <1>1, <1>3
    <3> QED
      BY <3>1, <3>2 DEF Pending
  <2>3. ASSUME NEW x \in Owed(f)
        PROVE  x \in Pending(gs)
    <3>1. n + 1 \in 1..Len(gs) /\ gs[n + 1] = f
      BY <1>1
    <3> QED
      BY <3>1 DEF Pending
  <2> QED
    BY <2>1, <2>2, <2>3
<1> QED
  BY <1>1, <1>9, <1>10 DEF gs, n, q

(* A frame less: its blocks are owed by it alone.                          *)
LEMMA FramesClose ==
  ASSUME NEW t, NEW M, NEW fs, NEW pos, FramesInv(t, M, fs, pos), fs # <<>>
  PROVE  /\ FramesInv(t, M, Front(fs), Popped(pos, Len(fs)))
         /\ Pending(fs) = Pending(Front(fs)) \cup Owed(Last(fs))
         /\ Pending(Front(fs)) \cap Owed(Last(fs)) = {}
         /\ Last(fs) \in Frames /\ FrameInv(t, M, Last(fs), pos[Len(fs)])
         /\ Len(fs) \in Nat /\ Len(fs) # 0 /\ Len(Front(fs)) = Len(fs) - 1
<1> DEFINE gs == Front(fs)
           n  == Len(fs)
           m  == n - 1
           f  == Last(fs)
           q  == Popped(pos, n)
<1>1. fs \in Seq(Frames) /\ n \in Nat /\ n # 0 /\ m \in Nat /\ n \in 1..n
  <2>1. fs \in Seq(Frames) /\ Len(fs) \in Nat /\ Len(fs) # 0
    BY DEF FramesInv
  <2> QED
    BY <2>1
<1>2. /\ gs \in Seq(Frames) /\ Len(gs) = m /\ f = fs[n] /\ f \in Frames
      /\ \A k \in 1..m : gs[k] = fs[k]
  BY <1>1, FrontProps DEF Last
<1>3. \A k \in 1..n : k \in 1..m \/ k = n
  BY <1>1
<1>4. \A k \in 1..m : k \in 1..n /\ k # n
  BY <1>1
<1>5. \A k \in 1..m : q[k] = pos[k]
  BY DEF Popped
<1> HIDE DEF gs, n, m, f, q
<1>6. \A k \in 1..n : FrameInv(t, M, fs[k], pos[k])
  BY DEF FramesInv, n
<1>7. \A j, k \in 1..n : j # k => Owed(fs[j]) \cap Owed(fs[k]) = {}
  BY DEF FramesInv, n
<1>8. FramesInv(t, M, gs, q)
  <2>1. \A k \in 1..m : FrameInv(t, M, gs[k], q[k])
    BY <1>2, <1>4, <1>5, <1>6
  <2>2. \A j, k \in 1..m : j # k => Owed(gs[j]) \cap Owed(gs[k]) = {}
    BY <1>2, <1>4, <1>7
  <2> QED
    BY <1>2, <2>1, <2>2 DEF FramesInv
<1>9. Pending(fs) = Pending(gs) \cup Owed(f)
  <2>1. ASSUME NEW x \in Pending(fs)
        PROVE  x \in Pending(gs) \/ x \in Owed(f)
    <3>1. PICK k \in 1..n : x \in Owed(fs[k])
      BY DEF Pending, n
    <3>2. CASE k = n
      BY <1>2, <3>1, <3>2
    <3>3. CASE k \in 1..m
      BY <1>2, <3>1, <3>3 DEF Pending
    <3> QED
      BY <1>3, <3>2, <3>3
  <2>2. ASSUME NEW x \in Pending(gs)
        PROVE  x \in Pending(fs)
    <3>1. PICK k \in 1..m : x \in Owed(gs[k])
      BY <1>2 DEF Pending
    <3>2. k \in 1..n /\ gs[k] = fs[k]
      BY <1>2, <1>4
    <3> QED
      BY <3>1, <3>2 DEF Pending, n
  <2>3. ASSUME NEW x \in Owed(f)
        PROVE  x \in Pending(fs)
    BY <1>1, <1>2 DEF Pending, n
  <2> QED
    BY <2>1, <2>2, <2>3
<1>10. Pending(gs) \cap Owed(f) = {}
  <2> SUFFICES ASSUME NEW x \in Pending(gs), x \in Owed(f)
               PROVE  FALSE
    OBVIOUS
  <2>1. PICK k \in 1..m : x \in Owed(gs[k])
    BY <1>2 DEF Pending
  <2>2. k \in 1..n /\ gs[k] = fs[k] /\ k # n
    BY <1>2, <1>4
  <2> QED
    BY <1>1, <1>2, <1>7, <2>1, <2>2
<1>11. FrameInv(t, M, f, pos[n])
  BY <1>1, <1>2, <1>6
<1> QED
  BY <1>1, <1>2, <1>8, <1>9, <1>10, <1>11 DEF gs, n, m, f, q

-----------------------------------------------------------------------------
(* The code of a construct                                                 *)

Plus(P, k) == P \cup {k}

(* A condition is tested; code goes on where it holds.                     *)
LEMMA CondKeeps ==
  ASSUME NEW R, NEW M, NEW g, NEW P, CodeInv(body, R, M, g, P), at \in Nat,
         ~Terminated(g) => Event(body, Current(R, M, g)) = [op |-> "cond", at |-> at],
         Terminated(g) => LateElif(body),
         NEW j \in P, NEW k \in 1..Len(g.blocks),
         M[j] = To(at + 1), M[k] = OtherwiseOf(body, at)
  PROVE  LET h == PointTo(Emit(g, Instr("cond", <<j, k>>)), j)
         IN  /\ CodeInv(body, R, M, h, Without(P, j)) /\ Len(h.blocks) = Len(g.blocks)
             /\ ~Terminated(h) /\ Current(R, M, h) = Res(R, To(at + 1))
<1> DEFINE to == <<j, k>>
           i  == Instr("cond", to)
           e  == Emit(g, i)
           h  == PointTo(e, j)
           S  == Without(P, j)
<1>1. j \in 1..Len(g.blocks) /\ Len(g.blocks) \in Nat /\ DOMAIN M = 1..Len(g.blocks)
  BY DEF CodeInv, Codes
<1>2. to[1] = j /\ to[2] = k /\ to \in Seq(Nat)
  BY <1>1
<1> HIDE DEF to
<1>3. i \in Instrs /\ i.op = "cond" /\ i.to = to /\ i.at = at /\ i.op \in Terminators
  <2>1. "cond" \in Terminators
    BY DEF Terminators
  <2> QED
    BY <1>2, <2>1, InstrIs
<1> HIDE DEF i
<1>4. ~Terminated(g) => Performs(body, R, M, i, Current(R, M, g))
  BY <1>1, <1>2, <1>3 DEF Performs
<1>5. CodeInv(body, R, M, e, P) /\ Terminated(e) /\ Len(e.blocks) = Len(g.blocks)
  BY <1>3, <1>4, EmitKeeps
<1> HIDE DEF e
<1>6. /\ CodeInv(body, R, M, h, S) /\ Len(h.blocks) = Len(e.blocks)
      /\ ~Terminated(h) /\ Current(R, M, h) = Res(R, M[j])
  BY <1>5, PointToKeeps
<1> HIDE DEF h
<1> QED
  BY <1>5, <1>6 DEF h, e, i, to, S

(* What a part of a text that is over leads to.                            *)
LEMMA PartLeads ==
  ASSUME NEW t, NEW d, Structured(t, <<>>, d), NEW i \in 1..Len(t), t[i].op \in Parts
  PROVE  /\ To(i) \in Points(t) /\ To(i + 1) \in Points(t) /\ To(t[i].end + 1) \in Points(t)
         /\ OtherwiseOf(t, i) \in Points(t)
         /\ t[t[i].next].op = "end" => OtherwiseOf(t, i) = To(t[i].end + 1)
<1>1. /\ Len(t) \in Nat /\ t[i].next \in (i + 1)..Len(t) /\ t[i].end \in (i + 1)..Len(t)
      /\ t[t[i].next].op = "end" => t[i].next = t[i].end
  BY EndOf DEF Structured
<1>2. \A k \in 1..(Len(t) + 1) : To(k) \in Points(t) /\ Test(k) \in Points(t)
  BY DEF To, Test, Points
<1>3. /\ i + 1 \in 1..(Len(t) + 1) /\ t[i].next \in 1..(Len(t) + 1)
      /\ t[i].next + 1 \in 1..(Len(t) + 1) /\ t[i].end + 1 \in 1..(Len(t) + 1)
      /\ i \in 1..(Len(t) + 1)
  BY <1>1
<1>4. OtherwiseOf(t, i) \in Points(t)
  BY <1>2, <1>3 DEF OtherwiseOf
<1>5. t[t[i].next].op = "end" => OtherwiseOf(t, i) = To(t[i].end + 1)
  BY <1>1 DEF OtherwiseOf
<1> QED
  BY <1>2, <1>3, <1>4, <1>5

(* The branch of an if: its condition, and where it fails.                 *)
LEMMA TestedKeeps ==
  ASSUME NEW R, NEW M, NEW g, NEW P, CodeInv(body, R, M, g, P),
         NEW d, Structured(body, <<>>, d),
         at \in 1..Len(body), body[at].op \in {"if", "elif"},
         ~Terminated(g) => Current(R, M, g).at = at /\ Current(R, M, g).how # "chosen",
         Terminated(g) => LateElif(body),
         NEW merge \in P, M[merge] = To(body[at].end + 1)
  PROVE  LET h == Tested(g, merge).code
             f == Tested(g, merge).frame
         IN  \E L : /\ CodeInv(body, R, L, h, Plus(P, f.otherwise)) /\ Agree(M, L)
                    /\ ~Terminated(h) /\ Current(R, L, h) = Res(R, To(at + 1))
                    /\ f \in Frames /\ f.op = "if" /\ f.merge = merge /\ merge # 0
                    /\ f.otherwise # 0
                    /\ f.otherwise = merge <=> body[body[at].next].op = "end"
                    /\ f.otherwise # merge => f.otherwise \notin P
                    /\ L[f.otherwise] = OtherwiseOf(body, at)
<1> DEFINE e == GenerateExpr(g)
           n == Len(e.blocks)
           more == body[body[at].next].op # "end"
           w == IF more THEN 2 ELSE 1
           b == NewBlocks(e, w)
           n1 == n + 1
           o == IF more THEN n + 2 ELSE merge
           h == PointTo(Emit(b, Instr("cond", <<n1, o>>)), n1)
           f == [op |-> "if", merge |-> merge, otherwise |-> o]
           S == With(P, n, w)
           L1 == [i \in 1..2 |-> IF i = 1 THEN To(at + 1) ELSE OtherwiseOf(body, at)]
<1>1. body \in Seq(Constructs) /\ Len(body) \in Nat /\ at \in Nat /\ body[at].op \in Parts
  BY DEF Structured, Parts
<1>2. PICK K : /\ CodeInv(body, R, K, e, P) /\ Agree(M, K)
               /\ ~Terminated(e) =>
                    Event(body, Current(R, K, e)) = [op |-> Kind(body[at].op), at |-> at]
               /\ Terminated(e) => LateElif(body)
  BY <1>1, ExprKeeps
<1>3. Kind(body[at].op) = "cond"
  BY DEF Kind
<1> HIDE DEF e
<1>4. n \in Nat /\ K \in [1..n -> Points(body)] /\ merge \in 1..n /\ K[merge] = To(body[at].end + 1)
      /\ \A k \in P : k \in 1..n
  <2>1. n \in Nat /\ K \in [1..n -> Points(body)] /\ \A k \in P : k \in 1..n
    BY <1>2 DEF CodeInv, Codes
  <2>2. merge \in DOMAIN M
    BY DEF CodeInv
  <2> QED
    BY <1>2, <2>1, <2>2 DEF Agree
<1>5. w \in Nat /\ \A i \in 1..w : L1[i] \in Points(body)
  <2>1. To(at + 1) \in Points(body) /\ OtherwiseOf(body, at) \in Points(body)
    BY <1>1, PartLeads
  <2> QED
    BY <2>1
<1> DEFINE L == Longer(K, n, w, L1)
<1>6. /\ CodeInv(body, R, L, b, S) /\ Agree(K, L) /\ Meant(L, n, w, L1)
      /\ Terminated(b) <=> Terminated(e)
      /\ Current(R, L, b) = Current(R, K, e) /\ Len(b.blocks) = n + w
  <2> HIDE DEF w, L1
  <2> QED
    BY <1>2, <1>5, NewBlocksKeeps
<1> HIDE DEF L, b, n
<1>7. L[n1] = To(at + 1) /\ (more => L[n + 2] = OtherwiseOf(body, at))
  <2>1. 1 \in 1..w /\ L1[1] = To(at + 1)
    OBVIOUS
  <2>2. more => 2 \in 1..w /\ L1[2] = OtherwiseOf(body, at)
    OBVIOUS
  <2> HIDE DEF w, L1, more
  <2> QED
    BY <1>6, <2>1, <2>2 DEF Meant
<1>8. L[o] = OtherwiseOf(body, at) /\ o \in 1..Len(b.blocks) /\ o # 0 /\ o \in Nat
  <2>1. CASE more
    BY <1>4, <1>6, <1>7, <2>1
  <2>2. CASE ~more
    <3>1. L[merge] = K[merge] /\ merge \in 1..(n + 1)
      BY <1>4, <1>6 DEF Agree
    <3>2. OtherwiseOf(body, at) = To(body[at].end + 1)
      BY <1>1, <2>2, PartLeads
    <3> QED
      BY <1>4, <1>6, <2>2, <3>1, <3>2
  <2> QED
    BY <2>1, <2>2
<1>9. n1 \in S
  BY <1>4 DEF With
<1>10. Without(S, n1) = Plus(P, o)
  <2>1. CASE more
    <3>1. (n + 1)..(n + 2) = {n + 1, n + 2} /\ n + 1 \notin P /\ n + 1 # n + 2
      BY <1>4
    <3> QED
      BY <2>1, <3>1 DEF With, Without, Plus
  <2>2. CASE ~more
    <3>1. (n + 1)..(n + 1) = {n + 1} /\ n + 1 \notin P
      BY <1>4
    <3> QED
      BY <2>2, <3>1 DEF With, Without, Plus
  <2> QED
    BY <2>1, <2>2
<1>11. o = merge <=> ~more
  <2>1. n + 2 # merge
    BY <1>4
  <2> QED
    BY <2>1
<1>12. o # merge => o \notin P
  <2>1. n + 2 \notin P
    BY <1>4
  <2> QED
    BY <2>1
<1>13. f \in Frames /\ f.op = "if" /\ f.merge = merge /\ f.otherwise = o /\ merge # 0
  BY <1>4, <1>8 DEF Frames
<1>14. Tested(g, merge).code = h /\ Tested(g, merge).frame = f
  BY DEF Tested, e, b, n
<1>15. Agree(M, L)
  BY <1>2, <1>6 DEF Agree
<1> HIDE DEF n1, o, f, S, more
<1>16. /\ CodeInv(body, R, L, h, Without(S, n1))
       /\ ~Terminated(h) /\ Current(R, L, h) = Res(R, To(at + 1))
  <2>1. ~Terminated(b) => Event(body, Current(R, L, b)) = [op |-> "cond", at |-> at]
    BY <1>2, <1>3, <1>6
  <2>2. Terminated(b) => LateElif(body)
    BY <1>2, <1>6
  <2> QED
    BY <1>1, <1>6, <1>7, <1>8, <1>9, <2>1, <2>2, CondKeeps
<1> HIDE DEF h
<1> QED
  BY <1>8, <1>10, <1>11, <1>12, <1>13, <1>14, <1>15, <1>16 DEF more

(* The point the text is at, and what it comes to from there.              *)
LEMMA ResIs ==
  ASSUME NEW t, NEW R, Resolves(t, R), NEW i \in 1..(Len(t) + 1)
  PROVE  /\ Res(R, To(i)) = To(R[i])
         /\ Jumps(t, i) => R[i] = R[Target(t, i)]
         /\ ~Jumps(t, i) => Res(R, To(i)) = To(i)
BY DEF Resolves, Res, To

WhileCode(g) ==
  LET n    == Len(g.blocks)
      cond == PointTo(BranchTo(NewBlocks(g, 3), n + 1), n + 1)
  IN  PointTo(Emit(GenerateExpr(cond), Instr("cond", <<n + 2, n + 3>>)), n + 2)

(* OStmtWhile: the blocks of a loop mean what the text does there.         *)
LEMMA WhileKeeps ==
  ASSUME NEW R, Resolves(body, R), NEW M, NEW g, NEW P, CodeInv(body, R, M, g, P),
         NEW d, Structured(body, <<>>, d),
         at \in 1..Len(body), body[at].op = "while",
         ~Terminated(g), Current(R, M, g) = Res(R, To(at))
  PROVE  LET h == WhileCode(g)
             n == Len(g.blocks)
         IN  \E L : /\ CodeInv(body, R, L, h, Plus(P, n + 3)) /\ Agree(M, L)
                    /\ ~Terminated(h) /\ Current(R, L, h) = Res(R, To(at + 1))
                    /\ n \in Nat /\ n + 3 \notin P
                    /\ n + 1 \in DOMAIN L /\ L[n + 1] = To(at)
                    /\ n + 3 \in DOMAIN L /\ L[n + 3] = To(body[at].next + 1)
<1> DEFINE n  == Len(g.blocks)
           n1 == n + 1
           n2 == n + 2
           n3 == n + 3
           w  == 3
           b  == NewBlocks(g, w)
           b1 == BranchTo(b, n1)
           c  == PointTo(b1, n1)
           e  == GenerateExpr(c)
           h  == PointTo(Emit(e, Instr("cond", <<n2, n3>>)), n2)
           L1 == [i \in 1..3 |-> IF i = 1 THEN To(at)
                                ELSE IF i = 2 THEN To(at + 1) ELSE OtherwiseOf(body, at)]
           L  == Longer(M, n, w, L1)
           S  == With(P, n, w)
           S1 == Without(S, n1)
           S2 == Without(S1, n2)
<1>1. body \in Seq(Constructs) /\ Len(body) \in Nat /\ at \in Nat /\ body[at].op \in Parts
  BY DEF Structured, Parts
<1>2. n \in Nat /\ \A k \in P : k \in 1..n
  BY DEF CodeInv, Codes
<1>3. w \in Nat /\ \A i \in 1..w : L1[i] \in Points(body)
  <2>1. /\ To(at) \in Points(body) /\ To(at + 1) \in Points(body)
        /\ OtherwiseOf(body, at) \in Points(body)
    BY <1>1, PartLeads
  <2> QED
    BY <2>1
<1>4. OtherwiseOf(body, at) = To(body[at].next + 1)
  <2>1. Continued(body, d, at)
    BY <1>1, EndOf
  <2> QED
    BY <2>1 DEF Continued, OtherwiseOf
<1>5. Res(R, To(at)) = To(at) /\ To(at).at = at /\ To(at).how = "flow"
  <2>1. at \in 1..(Len(body) + 1) /\ ~Jumps(body, at)
    BY <1>1 DEF Jumps, Branches
  <2> QED
    BY <2>1, ResIs DEF To
<1>6. /\ CodeInv(body, R, L, b, S) /\ Agree(M, L) /\ Meant(L, n, w, L1)
      /\ ~Terminated(b)
      /\ Current(R, L, b) = Current(R, M, g) /\ Len(b.blocks) = n + w
  <2> HIDE DEF w, L1
  <2>1. CodeInv(body, R, L, b, S) /\ Agree(M, L) /\ Meant(L, n, w, L1)
    BY <1>3, NewBlocksKeeps
  <2>2. Terminated(b) <=> Terminated(g)
    BY <1>3, NewBlocksKeeps
  <2>3. Current(R, L, b) = Current(R, M, g) /\ Len(b.blocks) = n + w
    BY <1>3, NewBlocksKeeps
  <2> QED
    BY <2>1, <2>2, <2>3
<1>7. /\ 1 \in 1..w /\ 2 \in 1..w /\ 3 \in 1..w /\ L1[1] = To(at)
      /\ L1[2] = To(at + 1) /\ L1[3] = OtherwiseOf(body, at)
  OBVIOUS
<1> HIDE DEF L, b, n, L1
<1>8. L[n1] = To(at) /\ L[n2] = To(at + 1) /\ L[n3] = OtherwiseOf(body, at)
  <2> HIDE DEF w
  <2> QED
    BY <1>6, <1>7 DEF Meant
<1>9. n1 \in S /\ n2 \in S1 /\ S2 = Plus(P, n3) /\ n3 \notin P
  <2>1. (n + 1)..(n + 3) = {n1, n2, n3} /\ n1 # n2 /\ n2 # n3 /\ n1 # n3
        /\ n1 \notin P /\ n2 \notin P /\ n3 \notin P
    BY <1>2
  <2> QED
    BY <2>1 DEF With, Without, Plus
<1>10. Len(b.blocks) = n3 /\ n1 \in 1..n3 /\ n3 \in 1..n3 /\ n3 \in Nat
  BY <1>2, <1>6
<1>11. h = WhileCode(g)
  BY DEF WhileCode, n, b
<1> HIDE DEF n1, n2, n3, w, S, S1, S2
<1>12. CodeInv(body, R, L, b1, S) /\ Terminated(b1) /\ Len(b1.blocks) = n3
  <2>1. n1 \in 1..Len(b.blocks) /\ Current(R, L, b) = Res(R, L[n1])
    BY <1>6, <1>8, <1>10
  <2> QED
    BY <1>1, <1>6, <1>10, <2>1, BranchToKeeps
<1> HIDE DEF b1
<1>13. /\ CodeInv(body, R, L, c, S1) /\ ~Terminated(c) /\ Current(R, L, c) = To(at)
       /\ Len(c.blocks) = n3
  <2>1. /\ CodeInv(body, R, L, c, Without(S, n1)) /\ ~Terminated(c)
        /\ Current(R, L, c) = Res(R, L[n1])
        /\ Len(c.blocks) = Len(b1.blocks)
    BY <1>9, <1>12, PointToKeeps
  <2> QED
    BY <1>5, <1>8, <1>12, <2>1 DEF S1
<1> HIDE DEF c
<1>14. PICK K : /\ CodeInv(body, R, K, e, S1) /\ Agree(L, K)
                /\ ~Terminated(e) =>
                     Event(body, Current(R, K, e)) = [op |-> Kind(body[at].op), at |-> at]
                /\ Terminated(e) => Terminated(c)
                /\ Len(c.blocks) <= Len(e.blocks) /\ Len(c.blocks) \in Nat
  <2>1. ~Terminated(c) => Current(R, L, c).at = at /\ Current(R, L, c).how # "chosen"
    BY <1>5, <1>13
  <2>2. Terminated(c) => LateElif(body)
    BY <1>13
  <2> QED
    BY <1>1, <1>13, <2>1, <2>2, ExprKeeps
<1> HIDE DEF e
<1>15. K[n1] = To(at) /\ K[n2] = To(at + 1) /\ K[n3] = OtherwiseOf(body, at)
       /\ n1 \in DOMAIN K /\ n3 \in DOMAIN K /\ n3 \in 1..Len(e.blocks)
  <2>1. DOMAIN L = 1..n3 /\ n2 \in 1..n3
    BY <1>2, <1>10, <1>13 DEF CodeInv, n1, n2, n3
  <2>2. Len(e.blocks) \in Nat
    BY <1>14 DEF CodeInv, Codes
  <2>3. n3 \in 1..Len(e.blocks)
    BY <1>10, <1>13, <1>14, <2>2
  <2> QED
    BY <1>8, <1>10, <1>14, <2>1, <2>3 DEF Agree
<1>16. /\ CodeInv(body, R, K, h, Without(S1, n2)) /\ Len(h.blocks) = Len(e.blocks)
       /\ ~Terminated(h) /\ Current(R, K, h) = Res(R, To(at + 1))
  <2>1. Kind(body[at].op) = "cond"
    BY DEF Kind
  <2>2. ~Terminated(e)
    BY <1>13, <1>14
  <2> QED
    BY <1>1, <1>9, <1>14, <1>15, <2>1, <2>2, CondKeeps
<1> HIDE DEF h
<1>17. Agree(M, K)
  BY <1>6, <1>14 DEF Agree
<1>18. CodeInv(body, R, K, h, Plus(P, n3))
  BY <1>9, <1>16 DEF S2
<1> QED
  BY <1>2, <1>4, <1>9, <1>15, <1>16, <1>17, <1>11, <1>18 DEF n, n1, n3

IfTested(g) == Tested(NewBlocks(g, 1), Len(g.blocks) + 1)

(* OStmtIf: the blocks of the first branch mean what the text does there.  *)
LEMMA IfKeeps ==
  ASSUME NEW R, Resolves(body, R), NEW M, NEW g, NEW P, CodeInv(body, R, M, g, P),
         NEW d, Structured(body, <<>>, d),
         at \in 1..Len(body), body[at].op = "if",
         ~Terminated(g), Current(R, M, g) = Res(R, To(at))
  PROVE  LET h == IfTested(g).code
             f == IfTested(g).frame
             m == f.merge
         IN  \E L : /\ CodeInv(body, R, L, h, Plus(Plus(P, m), f.otherwise)) /\ Agree(M, L)
                    /\ ~Terminated(h) /\ Current(R, L, h) = Res(R, To(at + 1))
                    /\ f \in Frames /\ f.op = "if" /\ m # 0 /\ m \notin P
                    /\ f.otherwise # 0 /\ f.otherwise \notin P
                    /\ f.otherwise = m <=> body[body[at].next].op = "end"
                    /\ L[m] = To(body[at].end + 1)
                    /\ L[f.otherwise] = OtherwiseOf(body, at)
<1> DEFINE n  == Len(g.blocks)
           m  == n + 1
           w  == 1
           b  == NewBlocks(g, w)
           L1 == [i \in 1..1 |-> To(body[at].end + 1)]
           L  == Longer(M, n, w, L1)
           S  == With(P, n, w)
<1>1. body \in Seq(Constructs) /\ Len(body) \in Nat /\ at \in Nat /\ body[at].op \in Parts
  BY DEF Structured, Parts
<1>2. n \in Nat /\ \A k \in P : k \in 1..n
  BY DEF CodeInv, Codes
<1>3. w \in Nat /\ \A i \in 1..w : L1[i] \in Points(body)
  BY <1>1, PartLeads
<1>4. Res(R, To(at)) = To(at) /\ To(at).at = at /\ To(at).how # "chosen"
  <2>1. at \in 1..(Len(body) + 1) /\ ~Jumps(body, at)
    BY <1>1 DEF Jumps, Branches
  <2> QED
    BY <2>1, ResIs DEF To
<1>5. /\ CodeInv(body, R, L, b, S) /\ Agree(M, L) /\ Meant(L, n, w, L1)
      /\ ~Terminated(b)
      /\ Current(R, L, b) = Current(R, M, g) /\ Len(b.blocks) = n + w
  <2> HIDE DEF w, L1
  <2>1. CodeInv(body, R, L, b, S) /\ Agree(M, L) /\ Meant(L, n, w, L1)
    BY <1>3, NewBlocksKeeps
  <2>2. Terminated(b) <=> Terminated(g)
    BY <1>3, NewBlocksKeeps
  <2>3. Current(R, L, b) = Current(R, M, g) /\ Len(b.blocks) = n + w
    BY <1>3, NewBlocksKeeps
  <2> QED
    BY <2>1, <2>2, <2>3
<1>6. 1 \in 1..w /\ L1[1] = To(body[at].end + 1)
  OBVIOUS
<1>7. IfTested(g) = Tested(b, m)
  BY DEF IfTested
<1> HIDE DEF L, b, n, L1
<1>8. L[m] = To(body[at].end + 1)
  <2> HIDE DEF w
  <2> QED
    BY <1>5, <1>6 DEF Meant
<1>9. m \in S /\ S = Plus(P, m) /\ m \notin P
  <2>1. (n + 1)..(n + 1) = {n + 1} /\ m \notin P
    BY <1>2
  <2> QED
    BY <2>1 DEF With, Plus
<1> HIDE DEF m, w, S
<1> DEFINE h == Tested(b, m).code
           f == Tested(b, m).frame
<1>10. PICK K : /\ CodeInv(body, R, K, h, Plus(S, f.otherwise)) /\ Agree(L, K)
                /\ ~Terminated(h) /\ Current(R, K, h) = Res(R, To(at + 1))
                /\ f \in Frames /\ f.op = "if" /\ f.merge = m /\ m # 0
                /\ f.otherwise # 0
                /\ f.otherwise = m <=> body[body[at].next].op = "end"
                /\ f.otherwise # m => f.otherwise \notin S
                /\ K[f.otherwise] = OtherwiseOf(body, at)
  <2>1. ~Terminated(b) => Current(R, L, b).at = at /\ Current(R, L, b).how # "chosen"
    BY <1>4, <1>5
  <2>2. Terminated(b) => LateElif(body)
    BY <1>5
  <2> QED
    BY <1>5, <1>8, <1>9, <2>1, <2>2, TestedKeeps
<1> HIDE DEF h, f
<1>11. K[m] = To(body[at].end + 1) /\ Agree(M, K)
  <2>1. m \in DOMAIN L
    BY <1>5, <1>9 DEF CodeInv
  <2> QED
    BY <1>5, <1>8, <1>10, <2>1 DEF Agree
<1>12. f.otherwise \notin P
  BY <1>9, <1>10 DEF Plus
<1> QED
  BY <1>9, <1>7, <1>10, <1>11, <1>12 DEF h, f

-----------------------------------------------------------------------------
(* Code is generated for the text before at.                               *)

Reached(R, M, g, i, s) == ~Terminated(g) => s = 0 /\ Current(R, M, g) = Res(R, To(i))

Written(R, d, M, pos) ==
  /\ Resolves(body, R)
  /\ CodeInv(body, R, M, code, Pending(frames))
  /\ FramesInv(body, M, frames, pos)
  /\ NestInv(body, d, pos, at, Len(frames), skipped)
  /\ Reached(R, M, code, at, skipped)
  /\ M[1] = To(1)

(* A branch of an if is over.                                              *)
LEMMA BranchDoneKeeps ==
  ASSUME NEW R, NEW d, NEW M, NEW pos, Structured(body, <<>>, d), Written(R, d, M, pos),
         skipped = 0, InIf, at \in 1..Len(body), body[at].op \in Branches
  PROVE  LET n == Len(frames)
             p == pos[n]
             f == Last(frames)
             g == BranchDone
         IN  /\ CodeInv(body, R, M, g, Plus(Pending(Front(frames)), f.merge))
             /\ f.merge \notin Pending(Front(frames)) /\ f.merge # 0
             /\ M[f.merge] = To(body[p].end + 1)
             /\ p \in 1..Len(body) /\ p < at /\ body[p].next = at
             /\ f \in Frames /\ f.op = "if"
             /\ body[at].op # "end" => body[p].end = body[at].end
             /\ body[at].op = "end" => body[p].end = at /\ Terminated(g)
             /\ Terminated(g) \/ Current(R, M, g) = Res(R, OtherwiseOf(body, p))
             /\ body[at].op = "elif" /\ Terminated(g) => body[p].op = "else"
<1> DEFINE n  == Len(frames)
           p  == pos[n]
           f  == Last(frames)
           fs == Front(frames)
           P  == Pending(fs)
           S  == Pending(frames)
           m  == f.merge
           o  == f.otherwise
           c  == BranchUnlessTerminated(code, m)
           g  == BranchDone
<1>1. /\ Resolves(body, R) /\ CodeInv(body, R, M, code, S)
      /\ FramesInv(body, M, frames, pos)
      /\ NestInv(body, d, pos, at, n, 0) /\ Reached(R, M, code, at, 0)
      /\ frames # <<>> /\ f.op = "if"
  BY DEF Written, InIf
<1>2. /\ S = P \cup Owed(f) /\ P \cap Owed(f) = {} /\ f \in Frames
      /\ FrameInv(body, M, f, p)
      /\ n \in Nat /\ n # 0
  <2> HIDE DEF S, P, f, p, n, fs
  <2> QED
    BY <1>1, FramesClose DEF S, P, f, p, n, fs
<1>3. /\ p \in 1..Len(body) /\ p < at /\ body[p].op \in Parts /\ body[p].next = at
      /\ body[at].op = "end" => body[p].end = at
      /\ body[at].op \in Parts => body[p].end = body[at].end
  <2> HIDE DEF n
  <2> QED
    BY <1>1, <1>2, ComesNext
<1>4. g = IF o \in {0, m} THEN c ELSE PointTo(c, o)
  BY DEF BranchDone
<1>5. Len(body) \in Nat /\ at \in Nat /\ p \in Nat
  BY <1>3 DEF Structured
<1> HIDE DEF g, fs, P, S, f, p, c
<1>6. /\ m \in S /\ m # 0 /\ M[m] = To(body[p].end + 1) /\ body[p].op # "while"
      /\ o = 0 <=> body[p].op = "else"
      /\ o # 0 => (o = m <=> body[at].op = "end")
      /\ o \notin {0, m} => M[o] = OtherwiseOf(body, p) /\ o \in S
      /\ m \notin P
  BY <1>1, <1>2, <1>3 DEF FrameInv, Owed
<1>7. /\ R[at] = R[body[p].end + 1] /\ body[p].end + 1 \in 1..(Len(body) + 1)
      /\ at \in 1..(Len(body) + 1)
  <2>1. R[at] = R[Target(body, at)]
    BY <1>1, <1>5, ResIs DEF Jumps
  <2>2. Target(body, at) = body[p].end + 1
    <3>1. CASE body[at].op = "end"
      <4>1. Continued(body, d, p)
        BY <1>3, EndOf
      <4> QED
        BY <1>3, <1>6, <3>1, <4>1 DEF Continued, Target
    <3>2. CASE body[at].op # "end"
      BY <1>3, <3>2 DEF Target, Branches, Parts
    <3> QED
      BY <3>1, <3>2
  <2>3. body[p].end \in 1..Len(body)
    BY <1>3, <1>5, EndOf
  <2> QED
    BY <1>5, <2>1, <2>2, <2>3
<1>8. ~Terminated(code) => Current(R, M, code) = Res(R, M[m])
  <2>1. Res(R, To(at)) = Res(R, To(body[p].end + 1))
    BY <1>1, <1>7, ResIs
  <2> QED
    BY <1>1, <1>6, <2>1 DEF Reached
<1>9. CodeInv(body, R, M, c, S) /\ Terminated(c)
  <2>1. m \in 1..Len(code.blocks)
    BY <1>1, <1>6 DEF CodeInv
  <2> HIDE DEF m
  <2> QED
    BY <1>1, <1>8, <1>5, <2>1, BranchKeeps DEF c
<1>10. /\ CodeInv(body, R, M, g, Plus(P, m))
       /\ Terminated(g) \/ (o \notin {0, m} /\ Current(R, M, g) = Res(R, OtherwiseOf(body, p)))
       /\ Terminated(g) <=> o \in {0, m}
  <2>1. CASE o \in {0, m}
    <3>1. S = Plus(P, m)
      BY <1>1, <1>2, <2>1 DEF Owed, Plus
    <3> QED
      BY <1>9, <1>4, <2>1, <3>1
  <2>2. CASE o \notin {0, m}
    <3>1. Without(S, o) = Plus(P, m)
      BY <1>1, <1>2, <2>2 DEF Owed, Plus, Without
    <3>2. CodeInv(body, R, M, PointTo(c, o), Without(S, o)) /\ ~Terminated(PointTo(c, o))
          /\ Current(R, M, PointTo(c, o)) = Res(R, M[o])
      <4> HIDE DEF o, m
      <4> QED
        BY <1>6, <1>9, <2>2, PointToKeeps
    <3> QED
      BY <1>6, <1>4, <2>2, <3>1, <3>2
  <2> QED
    BY <2>1, <2>2
<1>11. body[at].op # "end" => body[at].op \in Parts
  BY DEF Branches, Parts
<1>12. body[at].op = "end" => Terminated(g)
  BY <1>6, <1>10
<1>13. body[at].op = "elif" /\ Terminated(g) => body[p].op = "else"
  BY <1>6, <1>10
<1> QED
  BY <1>1, <1>2, <1>3, <1>6, <1>10, <1>11, <1>12, <1>13 DEF g, fs, P, f, p

(* GenerateSimple: the instruction is what the text does next, as code is  *)
(* generated only where the text can be.                                   *)
LEMMA GenerateSimpleKeeps ==
  ASSUME NEW R, NEW d, NEW M, NEW pos, Structured(body, <<>>, d), Written(R, d, M, pos),
         NEW op \in {"do", "return"}, NEW instr, instr = Kind(op), GenerateSimple(op, instr)
  PROVE  \E L, q : Written(R, d, L, q)'
<1> DEFINE n == Len(frames)
           S == Pending(frames)
           e == GenerateExpr(code)
           c == Instr(instr, <<>>)
<1>1. /\ body \in Seq(Constructs) /\ Len(body) \in Nat /\ at \in 1..Len(body) /\ at \in Nat
      /\ body[at].op = op /\ skipped = 0 /\ Live
      /\ body' = body /\ frames' = frames /\ at' = at + 1 /\ skipped' = 0
      /\ code' = Emit(e, c) /\ Depths(body, 0, d)
  <2>1. body \in Seq(Constructs) /\ Len(body) \in Nat /\ Depths(body, 0, d)
    BY DEF Structured
  <2>2. at \in 1..(Len(body) + 1) /\ at <= Len(body)
    BY DEF Written, NestInv, GenerateSimple, Upcoming
  <2>3. at \in 1..Len(body) /\ at \in Nat
    BY <2>1, <2>2
  <2> QED
    BY <2>1, <2>3 DEF GenerateSimple, Upcoming, Generating
<1>2. /\ Resolves(body, R) /\ CodeInv(body, R, M, code, S)
      /\ FramesInv(body, M, frames, pos)
      /\ NestInv(body, d, pos, at, n, 0) /\ Reached(R, M, code, at, 0) /\ M[1] = To(1)
      /\ ~Terminated(code) /\ 1 \in DOMAIN M
  <2>1. CodeInv(body, R, M, code, S) /\ ~Terminated(code)
    BY <1>1 DEF Written, Live
  <2>2. 1 \in DOMAIN M
    BY <2>1 DEF CodeInv, Codes
  <2> QED
    BY <1>1, <2>1, <2>2 DEF Written
<1>3. Current(R, M, code) = To(at)
  <2>1. at \in 1..(Len(body) + 1) /\ ~Jumps(body, at)
    BY <1>1 DEF Jumps, Branches
  <2> QED
    BY <1>2, <2>1, ResIs DEF Reached
<1> HIDE DEF e, c, S, n
<1>4. PICK K : /\ CodeInv(body, R, K, e, S) /\ Agree(M, K)
               /\ ~Terminated(e) =>
                    Event(body, Current(R, K, e)) = [op |-> Kind(body[at].op), at |-> at]
               /\ Terminated(e) => Terminated(code)
  <2>1. ~Terminated(code) => Current(R, M, code).at = at /\ Current(R, M, code).how # "chosen"
    BY <1>3 DEF To
  <2>2. Terminated(code) => LateElif(body)
    BY <1>2
  <2> QED
    BY <1>1, <1>2, <2>1, <2>2, ExprKeeps DEF e
<1>5. c \in Instrs /\ c.op = instr /\ c.at = at /\ instr \in {"do", "ret"}
      /\ (instr = "do" \/ instr \in Terminators)
  <2>1. instr \in {"do", "ret"}
    BY DEF Kind
  <2>2. instr \in Terminators \cup {"do"} /\ <<>> \in Seq(Nat)
    BY <2>1 DEF Terminators
  <2> QED
    BY <1>1, <2>1, <2>2, InstrIs DEF c
<1>6. Performs(body, R, K, c, Current(R, K, e))
  BY <1>1, <1>2, <1>4, <1>5 DEF Performs
<1>7. /\ CodeInv(body, R, K, code', S)
      /\ instr \in Terminators => Terminated(code')
      /\ instr = "do" => Current(R, K, code') = Res(R, To(at + 1))
  BY <1>1, <1>2, <1>4, <1>5, <1>6, EmitKeeps
<1>8. FramesInv(body, K, frames, pos)
  BY <1>2, <1>4, FramesAgree
<1>9. NestInv(body, d, pos, at + 1, n, 0)
  <2>1. body[at].op \notin Branches
    BY <1>1 DEF Branches
  <2>2. DepthAfter(body[at], n + 0) = n + 0
    BY <1>1 DEF DepthAfter, Openers
  <2> QED
    BY <1>1, <1>2, <2>1, <2>2, NestPasses
<1>10. K[1] = To(1)
  BY <1>2, <1>4 DEF Agree
<1>11. Reached(R, K, code', at + 1, 0)
  BY <1>5, <1>7 DEF Reached
<1>12. Written(R, d, K, pos)'
  BY <1>1, <1>2, <1>7, <1>8, <1>9, <1>10, <1>11 DEF Written, S, n
<1> QED
  BY <1>12

(* SkipDead: what a terminator hides is passed over as a whole.            *)
LEMMA SkipDeadKeeps ==
  ASSUME NEW R, NEW d, NEW M, NEW pos, Structured(body, <<>>, d), Written(R, d, M, pos), SkipDead
  PROVE  \E L, q : Written(R, d, L, q)'
<1> DEFINE n == Len(frames)
           x == skipped'
<1>1. /\ body \in Seq(Constructs) /\ Len(body) \in Nat /\ at \in 1..Len(body) /\ at \in Nat
      /\ body' = body /\ frames' = frames /\ at' = at + 1 /\ code' = code
      /\ Depths(body, 0, d)
      /\ NestInv(body, d, pos, at, n, skipped) /\ skipped \in Nat /\ n \in Nat
  <2>1. body \in Seq(Constructs) /\ Len(body) \in Nat /\ Depths(body, 0, d)
    BY DEF Structured
  <2>2. at \in 1..(Len(body) + 1) /\ at <= Len(body) /\ NestInv(body, d, pos, at, n, skipped)
        /\ skipped \in Nat /\ n \in Nat
    BY DEF Written, NestInv, SkipDead
  <2>3. at \in 1..Len(body) /\ at \in Nat
    BY <2>1, <2>2
  <2> QED
    BY <2>1, <2>2, <2>3 DEF SkipDead, Generating
<1>2. /\ body[at].op \in Branches => skipped # 0
      /\ x \in Nat /\ DepthAfter(body[at], n + skipped) = n + x /\ Terminated(code)
  <2>1. CASE skipped > 0
    <3>1. Terminated(code)
      BY <1>1, <2>1 DEF Written, Reached
    <3>2. CASE body[at].op \in Openers
      <4>1. x = skipped + 1
        BY <2>1, <3>2 DEF SkipDead, Openers
      <4> QED
        BY <1>1, <2>1, <3>1, <3>2, <4>1 DEF DepthAfter
    <3>3. CASE body[at].op = "end"
      <4>1. x = skipped - 1
        BY <2>1, <3>3 DEF SkipDead, Openers
      <4> QED
        BY <1>1, <2>1, <3>1, <3>3, <4>1 DEF DepthAfter, Openers
    <3>4. CASE body[at].op \notin Openers /\ body[at].op # "end"
      <4>1. x = skipped
        BY <2>1, <3>4 DEF SkipDead
      <4> QED
        BY <1>1, <2>1, <3>1, <3>4, <4>1 DEF DepthAfter
    <3> QED
      BY <3>2, <3>3, <3>4
  <2>2. CASE ~(skipped > 0)
    <3>1. skipped = 0
      BY <1>1, <2>2
    <3>2. /\ Terminated(code) /\ body[at].op \in Openers \cup {"do", "return"}
          /\ x = IF body[at].op \in Openers THEN 1 ELSE 0
      BY <2>2 DEF SkipDead, Live
    <3>3. body[at].op \notin Branches
      BY <3>2 DEF Openers, Branches
    <3>4. CASE body[at].op \in Openers
      BY <1>1, <3>1, <3>2, <3>3, <3>4 DEF DepthAfter
    <3>5. CASE body[at].op \notin Openers
      <4>1. body[at].op # "end"
        BY <3>2, <3>5
      <4> QED
        BY <1>1, <3>1, <3>2, <3>3, <3>5, <4>1 DEF DepthAfter
    <3> QED
      BY <3>4, <3>5
  <2> QED
    BY <2>1, <2>2
<1> HIDE DEF x, n
<1>3. NestInv(body, d, pos, at + 1, n, x)
  BY <1>1, <1>2, NestPasses
<1>4. Written(R, d, M, pos)'
  BY <1>1, <1>2, <1>3 DEF Written, Reached, n, x
<1> QED
  BY <1>4

(* What GenerateWhile and GenerateIf start from.                           *)
LEMMA OpensLive ==
  ASSUME NEW R, NEW d, NEW M, NEW pos, Structured(body, <<>>, d), Written(R, d, M, pos),
         NEW op \in Openers, Upcoming(op), Live
  PROVE  /\ body \in Seq(Constructs) /\ Len(body) \in Nat /\ at \in 1..Len(body)
         /\ body[at].op = op /\ skipped = 0 /\ body[at].op \in Parts
         /\ body' = body /\ at' = at + 1 /\ skipped' = 0
         /\ Resolves(body, R) /\ CodeInv(body, R, M, code, Pending(frames))
         /\ FramesInv(body, M, frames, pos) /\ M[1] = To(1) /\ 1 \in DOMAIN M
         /\ ~Terminated(code) /\ Current(R, M, code) = Res(R, To(at))
         /\ NestInv(body, d, Pushed(pos, Len(frames), at), at + 1, Len(frames) + 1, 0)
         /\ Len(frames) \in Nat
<1> DEFINE n == Len(frames)
<1>1. body \in Seq(Constructs) /\ Len(body) \in Nat /\ Depths(body, 0, d)
  BY DEF Structured
<1>2. /\ Resolves(body, R) /\ CodeInv(body, R, M, code, Pending(frames))
      /\ FramesInv(body, M, frames, pos) /\ NestInv(body, d, pos, at, n, 0)
      /\ Reached(R, M, code, at, 0) /\ M[1] = To(1) /\ skipped = 0
  BY DEF Written, Upcoming
<1>3. at \in 1..(Len(body) + 1) /\ at <= Len(body) /\ n \in Nat
  BY <1>2 DEF NestInv, Upcoming
<1>4. at \in 1..Len(body) /\ body[at].op = op
  BY <1>1, <1>3 DEF Upcoming
<1>5. ~Terminated(code) /\ Current(R, M, code) = Res(R, To(at))
  BY <1>2 DEF Live, Reached
<1>6. 1 \in DOMAIN M
  BY <1>2 DEF CodeInv, Codes
<1>7. NestInv(body, d, Pushed(pos, n, at), at + 1, n + 1, 0)
  <2> HIDE DEF n
  <2> QED
    BY <1>1, <1>2, <1>4, NestOpens
<1>8. body[at].op \in Parts
  BY <1>4 DEF Openers, Parts
<1>9. body' = body /\ at' = at + 1 /\ skipped' = 0
  BY <1>2 DEF Upcoming, Generating
<1> QED
  BY <1>1, <1>2, <1>3, <1>4, <1>5, <1>6, <1>7, <1>8, <1>9

(* GenerateWhile opens a frame whose block after the loop is owed.         *)
LEMMA GenerateWhileKeeps ==
  ASSUME NEW R, NEW d, NEW M, NEW pos, Structured(body, <<>>, d), Written(R, d, M, pos),
         GenerateWhile
  PROVE  \E L, q : Written(R, d, L, q)'
<1> DEFINE k == Len(frames)
           n == Len(code.blocks)
           S == Pending(frames)
           f == [op |-> "while", back |-> n + 1, after |-> n + 3]
<1>1. /\ body \in Seq(Constructs) /\ Len(body) \in Nat /\ at \in 1..Len(body)
      /\ body[at].op = "while" /\ skipped = 0 /\ body[at].op \in Parts
      /\ body' = body /\ at' = at + 1 /\ skipped' = 0
      /\ Resolves(body, R) /\ CodeInv(body, R, M, code, S)
      /\ FramesInv(body, M, frames, pos) /\ M[1] = To(1) /\ 1 \in DOMAIN M
      /\ ~Terminated(code) /\ Current(R, M, code) = Res(R, To(at))
      /\ NestInv(body, d, Pushed(pos, k, at), at + 1, k + 1, 0)
  <2>1. Upcoming("while") /\ Live /\ "while" \in Openers
    BY DEF GenerateWhile, Openers
  <2> QED
    BY <2>1, OpensLive
<1>2. code' = WhileCode(code) /\ frames' = Append(frames, f)
  BY DEF GenerateWhile, WhileCode, LoopBack
<1>3. PICK L : /\ CodeInv(body, R, L, code', Plus(S, n + 3)) /\ Agree(M, L)
               /\ ~Terminated(code') /\ Current(R, L, code') = Res(R, To(at + 1))
               /\ n \in Nat /\ n + 3 \notin S
               /\ n + 1 \in DOMAIN L /\ L[n + 1] = To(at)
               /\ n + 3 \in DOMAIN L /\ L[n + 3] = To(body[at].next + 1)
  <2>1. \E L : /\ CodeInv(body, R, L, WhileCode(code), Plus(S, n + 3)) /\ Agree(M, L)
               /\ ~Terminated(WhileCode(code))
               /\ Current(R, L, WhileCode(code)) = Res(R, To(at + 1))
               /\ n \in Nat /\ n + 3 \notin S
               /\ n + 1 \in DOMAIN L /\ L[n + 1] = To(at)
               /\ n + 3 \in DOMAIN L /\ L[n + 3] = To(body[at].next + 1)
    <3> HIDE DEF S
    <3> QED
      BY <1>1, WhileKeeps
  <2> QED
    BY <1>2, <2>1
<1>4. /\ f \in Frames /\ Owed(f) = {n + 3} /\ f.op = "while" /\ f.back = n + 1
      /\ f.after = n + 3
  BY <1>3 DEF Frames, Owed
<1> HIDE DEF f, n, S
<1>5. FrameInv(body, L, f, at)
  BY <1>1, <1>3, <1>4 DEF FrameInv
<1>6. PICK q : q = Pushed(pos, k, at)
  OBVIOUS
<1>7. /\ FramesInv(body, L, frames', q)
      /\ Pending(frames') = Plus(S, n + 3) /\ Len(frames') = k + 1
  <2>1. \A x \in Owed(f) : x \notin Pending(frames)
    BY <1>3, <1>4 DEF S
  <2> QED
    <3>1. /\ FramesInv(body, L, Append(frames, f), Pushed(pos, Len(frames), at))
          /\ Pending(Append(frames, f)) = Pending(frames) \cup Owed(f)
          /\ Len(Append(frames, f)) = Len(frames) + 1
      <4>1. Agree(M, L) /\ FramesInv(body, M, frames, pos) /\ f \in Frames
        BY <1>1, <1>3, <1>4
      <4>2. FramesInv(body, L, Append(frames, f), Pushed(pos, Len(frames), at))
        BY <1>5, <2>1, <4>1, FramesOpen
      <4>3. Pending(Append(frames, f)) = Pending(frames) \cup Owed(f)
        BY <1>5, <2>1, <4>1, FramesOpen
      <4>4. Len(Append(frames, f)) = Len(frames) + 1
        BY <1>5, <2>1, <4>1, FramesOpen
      <4> QED
        BY <4>2, <4>3, <4>4
    <3> QED
      BY <1>2, <1>4, <1>6, <3>1 DEF S, Plus
<1>8. L[1] = To(1)
  BY <1>1, <1>3 DEF Agree
<1>9. Reached(R, L, code', at', skipped')
  BY <1>1, <1>3 DEF Reached
<1>10. Written(R, d, L, q)'
  BY <1>1, <1>3, <1>7, <1>8, <1>9, <1>6 DEF Written
<1> QED
  BY <1>10

(* GenerateIf opens a frame whose merge block, and the block of a branch   *)
(* that follows, are owed.                                                 *)
LEMMA GenerateIfKeeps ==
  ASSUME NEW R, NEW d, NEW M, NEW pos, Structured(body, <<>>, d), Written(R, d, M, pos),
         GenerateIf
  PROVE  \E L, q : Written(R, d, L, q)'
<1> DEFINE k == Len(frames)
           S == Pending(frames)
           f == IfTested(code).frame
<1>1. /\ body \in Seq(Constructs) /\ Len(body) \in Nat /\ at \in 1..Len(body)
      /\ body[at].op = "if" /\ skipped = 0 /\ body[at].op \in Parts
      /\ body' = body /\ at' = at + 1 /\ skipped' = 0
      /\ Resolves(body, R) /\ CodeInv(body, R, M, code, S)
      /\ FramesInv(body, M, frames, pos) /\ M[1] = To(1) /\ 1 \in DOMAIN M
      /\ ~Terminated(code) /\ Current(R, M, code) = Res(R, To(at))
      /\ NestInv(body, d, Pushed(pos, k, at), at + 1, k + 1, 0)
  <2>1. Upcoming("if") /\ Live /\ "if" \in Openers
    BY DEF GenerateIf, Openers
  <2> QED
    BY <2>1, OpensLive
<1>2. code' = IfTested(code).code /\ frames' = Append(frames, f)
  BY DEF GenerateIf, IfTested
<1>3. PICK L : /\ CodeInv(body, R, L, code', Plus(Plus(S, f.merge), f.otherwise)) /\ Agree(M, L)
               /\ ~Terminated(code') /\ Current(R, L, code') = Res(R, To(at + 1))
               /\ f \in Frames /\ f.op = "if" /\ f.merge # 0 /\ f.merge \notin S
               /\ f.otherwise # 0 /\ f.otherwise \notin S
               /\ f.otherwise = f.merge <=> body[body[at].next].op = "end"
               /\ L[f.merge] = To(body[at].end + 1)
               /\ L[f.otherwise] = OtherwiseOf(body, at)
  <2> DEFINE h == IfTested(code).code
  <2>1. \E L : /\ CodeInv(body, R, L, h, Plus(Plus(S, f.merge), f.otherwise)) /\ Agree(M, L)
               /\ ~Terminated(h) /\ Current(R, L, h) = Res(R, To(at + 1))
               /\ f \in Frames /\ f.op = "if" /\ f.merge # 0 /\ f.merge \notin S
               /\ f.otherwise # 0 /\ f.otherwise \notin S
               /\ f.otherwise = f.merge <=> body[body[at].next].op = "end"
               /\ L[f.merge] = To(body[at].end + 1)
               /\ L[f.otherwise] = OtherwiseOf(body, at)
    <3> HIDE DEF S
    <3> QED
      BY <1>1, IfKeeps
  <2> HIDE DEF h
  <2>2. code' = h
    BY <1>2 DEF h
  <2> QED
    BY <2>1, <2>2
<1> HIDE DEF f, S
<1>4. Owed(f) = {f.merge, f.otherwise} /\ Owed(f) \subseteq DOMAIN L
  <2>1. Owed(f) = {f.merge, f.otherwise}
    BY <1>3 DEF Owed
  <2>2. /\ f.merge \in Plus(Plus(S, f.merge), f.otherwise)
        /\ f.otherwise \in Plus(Plus(S, f.merge), f.otherwise)
    BY DEF Plus
  <2>3. f.merge \in DOMAIN L /\ f.otherwise \in DOMAIN L
    BY <1>3, <2>2 DEF CodeInv
  <2> QED
    BY <2>1, <2>3
<1>5. FrameInv(body, L, f, at)
  BY <1>1, <1>3, <1>4 DEF FrameInv
<1>6. PICK q : q = Pushed(pos, k, at)
  OBVIOUS
<1>7. /\ FramesInv(body, L, frames', q)
      /\ Pending(frames') = Plus(Plus(S, f.merge), f.otherwise) /\ Len(frames') = k + 1
  <2>1. \A x \in Owed(f) : x \notin Pending(frames)
    BY <1>3, <1>4 DEF S
  <2>2. /\ FramesInv(body, L, frames', q)
        /\ Pending(frames') = S \cup Owed(f) /\ Len(frames') = k + 1
    <3>1. /\ FramesInv(body, L, Append(frames, f), Pushed(pos, Len(frames), at))
          /\ Pending(Append(frames, f)) = Pending(frames) \cup Owed(f)
          /\ Len(Append(frames, f)) = Len(frames) + 1
      <4>1. Agree(M, L) /\ FramesInv(body, M, frames, pos) /\ f \in Frames
        BY <1>1, <1>3
      <4>2. FramesInv(body, L, Append(frames, f), Pushed(pos, Len(frames), at))
        BY <1>5, <2>1, <4>1, FramesOpen
      <4>3. Pending(Append(frames, f)) = Pending(frames) \cup Owed(f)
        BY <1>5, <2>1, <4>1, FramesOpen
      <4>4. Len(Append(frames, f)) = Len(frames) + 1
        BY <1>5, <2>1, <4>1, FramesOpen
      <4> QED
        BY <4>2, <4>3, <4>4
    <3> QED
      BY <1>2, <1>6, <3>1 DEF S
  <2> QED
    BY <1>4, <2>2 DEF Plus
<1>8. L[1] = To(1)
  BY <1>1, <1>3 DEF Agree
<1>9. Reached(R, L, code', at', skipped')
  BY <1>1, <1>3 DEF Reached
<1>10. Written(R, d, L, q)'
  BY <1>1, <1>3, <1>7, <1>8, <1>9, <1>6 DEF Written
<1> QED
  BY <1>10

(* What the steps of a branch and of the end of a statement start from.    *)
LEMMA ClosesFrame ==
  ASSUME NEW R, NEW d, NEW M, NEW pos, Structured(body, <<>>, d), Written(R, d, M, pos),
         NEW op \in Branches, Upcoming(op), frames # <<>>
  PROVE  LET n == Len(frames)
         IN  /\ body \in Seq(Constructs) /\ Len(body) \in Nat /\ at \in 1..Len(body)
             /\ body[at].op = op /\ skipped = 0 /\ Depths(body, 0, d)
             /\ body' = body /\ at' = at + 1 /\ skipped' = 0
             /\ Resolves(body, R) /\ CodeInv(body, R, M, code, Pending(frames))
             /\ FramesInv(body, M, frames, pos) /\ M[1] = To(1) /\ 1 \in DOMAIN M
             /\ Reached(R, M, code, at, 0)
             /\ NestInv(body, d, pos, at, n, 0) /\ n \in Nat /\ n # 0
             /\ FramesInv(body, M, Front(frames), Popped(pos, n))
             /\ Len(Front(frames)) = n - 1
             /\ FrameInv(body, M, Last(frames), pos[n])
             /\ Pending(frames) = Pending(Front(frames)) \cup Owed(Last(frames))
             /\ \A x \in Owed(Last(frames)) : x \notin Pending(Front(frames))
<1> DEFINE n == Len(frames)
<1>1. body \in Seq(Constructs) /\ Len(body) \in Nat /\ Depths(body, 0, d)
  BY DEF Structured
<1>2. /\ Resolves(body, R) /\ CodeInv(body, R, M, code, Pending(frames))
      /\ FramesInv(body, M, frames, pos) /\ NestInv(body, d, pos, at, n, 0)
      /\ Reached(R, M, code, at, 0) /\ M[1] = To(1) /\ skipped = 0
  BY DEF Written, Upcoming
<1>3. at \in 1..(Len(body) + 1) /\ at <= Len(body) /\ n \in Nat
  BY <1>2 DEF NestInv, Upcoming
<1>4. at \in 1..Len(body) /\ body[at].op = op
  BY <1>1, <1>3 DEF Upcoming
<1>5. 1 \in DOMAIN M
  BY <1>2 DEF CodeInv, Codes
<1>6. body' = body /\ at' = at + 1 /\ skipped' = 0
  BY <1>2 DEF Upcoming, Generating
<1>7. /\ FramesInv(body, M, Front(frames), Popped(pos, n))
      /\ Pending(frames) = Pending(Front(frames)) \cup Owed(Last(frames))
      /\ Pending(Front(frames)) \cap Owed(Last(frames)) = {}
      /\ FrameInv(body, M, Last(frames), pos[n])
      /\ n # 0 /\ Len(Front(frames)) = n - 1
  BY <1>2, FramesClose
<1>8. \A x \in Owed(Last(frames)) : x \notin Pending(Front(frames))
  BY <1>7
<1> HIDE DEF n
<1> QED
  BY <1>1, <1>2, <1>3, <1>4, <1>5, <1>6, <1>7, <1>8 DEF n

(* EndWhileCode goes back to the condition and on behind the loop.         *)
LEMMA EndWhileKeeps ==
  ASSUME NEW R, NEW d, NEW M, NEW pos, Structured(body, <<>>, d), Written(R, d, M, pos),
         EndWhileCode
  PROVE  \E L, q : Written(R, d, L, q)'
<1> DEFINE n == Len(frames)
           p == pos[n]
           f == Last(frames)
           S == Pending(frames)
           P == Pending(Front(frames))
           c == BranchUnlessTerminated(code, f.back)
<1>1. /\ Upcoming("end") /\ frames # <<>> /\ "end" \in Branches /\ f.op = "while"
      /\ frames' = Front(frames) /\ code' = PointTo(c, f.after)
  BY DEF EndWhileCode, Branches
<1>2. /\ body \in Seq(Constructs) /\ Len(body) \in Nat /\ at \in 1..Len(body)
      /\ body[at].op = "end" /\ skipped = 0 /\ Depths(body, 0, d)
      /\ body' = body /\ at' = at + 1 /\ skipped' = 0
      /\ Resolves(body, R) /\ CodeInv(body, R, M, code, S)
      /\ M[1] = To(1) /\ Reached(R, M, code, at, 0)
      /\ NestInv(body, d, pos, at, n, 0) /\ n \in Nat /\ n # 0
      /\ FramesInv(body, M, Front(frames), Popped(pos, n)) /\ Len(Front(frames)) = n - 1
      /\ FrameInv(body, M, f, p) /\ S = P \cup Owed(f) /\ \A x \in Owed(f) : x \notin P
  <2> DEFINE op == "end"
  <2>1. Upcoming(op) /\ op \in Branches
    BY <1>1
  <2> HIDE DEF op
  <2>2. /\ body \in Seq(Constructs) /\ Len(body) \in Nat /\ at \in 1..Len(body)
        /\ body[at].op = op /\ skipped = 0 /\ Depths(body, 0, d)
        /\ body' = body /\ at' = at + 1 /\ skipped' = 0
        /\ Resolves(body, R) /\ CodeInv(body, R, M, code, S)
        /\ M[1] = To(1) /\ Reached(R, M, code, at, 0)
        /\ NestInv(body, d, pos, at, n, 0) /\ n \in Nat /\ n # 0
        /\ FramesInv(body, M, Front(frames), Popped(pos, n)) /\ Len(Front(frames)) = n - 1
        /\ FrameInv(body, M, f, p) /\ S = P \cup Owed(f) /\ \A x \in Owed(f) : x \notin P
    BY <1>1, <2>1, ClosesFrame
  <2> QED
    BY <2>2 DEF op
<1>3. p \in 1..Len(body) /\ body[p].op \in Parts /\ body[p].next = at
  <2>1. body[at].op \in Branches
    BY <1>1, <1>2
  <2> HIDE DEF n
  <2> QED
    BY <1>2, <2>1, ComesNext
<1> HIDE DEF f, p, S, P, c
<1>4. /\ f.after \in S /\ S = Plus(P, f.after) /\ f.after \notin P
      /\ f.back \in DOMAIN M /\ M[f.back] = To(p) /\ M[f.after] = To(at + 1)
      /\ body[p].op = "while"
  BY <1>1, <1>2, <1>3 DEF FrameInv, Owed, Plus
<1>5. Res(R, To(at)) = Res(R, M[f.back])
  <2>1. body[at].next = p
    <3>1. Continued(body, d, p)
      BY <1>3, EndOf
    <3> QED
      BY <1>3, <1>4, <3>1 DEF Continued
  <2>2. at \in 1..(Len(body) + 1) /\ p \in 1..(Len(body) + 1) /\ Jumps(body, at)
    BY <1>1, <1>2, <1>3 DEF Jumps
  <2>3. Target(body, at) = p
    BY <1>2, <2>1 DEF Target
  <2> QED
    BY <1>2, <1>4, <2>2, <2>3, ResIs
<1>6. CodeInv(body, R, M, c, S) /\ Terminated(c)
  <2>1. f.back \in 1..Len(code.blocks) /\ at \in Nat
    BY <1>2, <1>4 DEF CodeInv
  <2>2. ~Terminated(code) => Current(R, M, code) = Res(R, M[f.back])
    BY <1>2, <1>5 DEF Reached
  <2> DEFINE b == f.back
  <2> HIDE DEF b
  <2>3. /\ b \in 1..Len(code.blocks) /\ at \in Nat
        /\ (~Terminated(code) => Current(R, M, code) = Res(R, M[b]))
    BY <2>1, <2>2 DEF b
  <2>4. /\ CodeInv(body, R, M, BranchUnlessTerminated(code, b), S)
        /\ Terminated(BranchUnlessTerminated(code, b))
    BY <1>2, <2>3, BranchKeeps
  <2> QED
    BY <2>4 DEF b, c
<1>7. /\ CodeInv(body, R, M, code', P) /\ ~Terminated(code')
      /\ Current(R, M, code') = Res(R, To(at + 1))
  <2> DEFINE k == f.after
  <2>1. Without(S, k) = P /\ k \in S
    BY <1>4 DEF Without, Plus
  <2> HIDE DEF k
  <2>2. /\ CodeInv(body, R, M, PointTo(c, k), Without(S, k)) /\ ~Terminated(PointTo(c, k))
        /\ Current(R, M, PointTo(c, k)) = Res(R, M[k])
    BY <1>6, <2>1, PointToKeeps
  <2> QED
    BY <1>1, <1>4, <2>1, <2>2 DEF k
<1>8. NestInv(body, d, Popped(pos, n), at + 1, n - 1, 0)
  <2> HIDE DEF n
  <2> QED
    BY <1>2, NestCloses
<1>9. PICK q : q = Popped(pos, n)
  OBVIOUS
<1>10. Reached(R, M, code', at', skipped')
  BY <1>2, <1>7 DEF Reached
<1> HIDE DEF n
<1>11. Written(R, d, M, q)'
  BY <1>1, <1>2, <1>7, <1>8, <1>9, <1>10 DEF Written, P
<1> QED
  BY <1>11

(* EndIfCode goes on in the merge block, which is the end of the if.       *)
LEMMA EndIfKeeps ==
  ASSUME NEW R, NEW d, NEW M, NEW pos, Structured(body, <<>>, d), Written(R, d, M, pos),
         EndIfCode
  PROVE  \E L, q : Written(R, d, L, q)'
<1> DEFINE n == Len(frames)
           p == pos[n]
           m == Last(frames).merge
           P == Pending(Front(frames))
           S == Plus(P, m)
           c == BranchDone
<1>1. /\ Upcoming("end") /\ frames # <<>> /\ "end" \in Branches /\ InIf
      /\ frames' = Front(frames) /\ code' = PointTo(c, m)
  BY DEF EndIfCode, Branches, InIf
<1>2. /\ body \in Seq(Constructs) /\ Len(body) \in Nat /\ at \in 1..Len(body)
      /\ body[at].op = "end" /\ skipped = 0 /\ Depths(body, 0, d)
      /\ body' = body /\ at' = at + 1 /\ skipped' = 0
      /\ Resolves(body, R) /\ M[1] = To(1)
      /\ NestInv(body, d, pos, at, n, 0) /\ n \in Nat /\ n # 0
      /\ FramesInv(body, M, Front(frames), Popped(pos, n)) /\ Len(Front(frames)) = n - 1
  <2> DEFINE op == "end"
  <2>1. Upcoming(op) /\ op \in Branches
    BY <1>1
  <2> HIDE DEF op
  <2>2. /\ body \in Seq(Constructs) /\ Len(body) \in Nat /\ at \in 1..Len(body)
        /\ body[at].op = op /\ skipped = 0 /\ Depths(body, 0, d)
        /\ body' = body /\ at' = at + 1 /\ skipped' = 0
        /\ Resolves(body, R) /\ M[1] = To(1)
        /\ NestInv(body, d, pos, at, n, 0) /\ n \in Nat /\ n # 0
        /\ FramesInv(body, M, Front(frames), Popped(pos, n)) /\ Len(Front(frames)) = n - 1
    BY <1>1, <2>1, ClosesFrame
  <2> QED
    BY <2>2 DEF op
<1>3. /\ CodeInv(body, R, M, c, S) /\ m \notin P /\ M[m] = To(at + 1) /\ Terminated(c)
  BY <1>1, <1>2, BranchDoneKeeps
<1> HIDE DEF c, P, m
<1>4. /\ CodeInv(body, R, M, code', P) /\ ~Terminated(code')
      /\ Current(R, M, code') = Res(R, To(at + 1))
  <2>1. Without(S, m) = P /\ m \in S
    BY <1>3 DEF Without, Plus
  <2> HIDE DEF S
  <2>2. /\ CodeInv(body, R, M, PointTo(c, m), Without(S, m)) /\ ~Terminated(PointTo(c, m))
        /\ Current(R, M, PointTo(c, m)) = Res(R, M[m])
    BY <1>3, <2>1, PointToKeeps
  <2> QED
    BY <1>1, <1>3, <2>1, <2>2
<1>5. NestInv(body, d, Popped(pos, n), at + 1, n - 1, 0)
  <2> HIDE DEF n
  <2> QED
    BY <1>2, NestCloses
<1>6. PICK q : q = Popped(pos, n)
  OBVIOUS
<1>7. Reached(R, M, code', at', skipped')
  BY <1>2, <1>4 DEF Reached
<1> HIDE DEF n
<1>8. Written(R, d, M, q)'
  BY <1>1, <1>2, <1>4, <1>5, <1>6, <1>7 DEF Written, P
<1> QED
  BY <1>8

(* What the steps of elif and else start from.                             *)
LEMMA Branched ==
  ASSUME NEW R, NEW d, NEW M, NEW pos, Structured(body, <<>>, d), Written(R, d, M, pos),
         NEW op \in {"elif", "else"}, Upcoming(op), InIf
  PROVE  LET n == Len(frames)
             m == Last(frames).merge
             p == pos[n]
         IN  /\ body \in Seq(Constructs) /\ Len(body) \in Nat /\ at \in 1..Len(body)
             /\ body[at].op = op /\ skipped = 0
             /\ body' = body /\ at' = at + 1 /\ skipped' = 0
             /\ Resolves(body, R) /\ M[1] = To(1) /\ 1 \in DOMAIN M
             /\ FramesInv(body, M, Front(frames), Popped(pos, n))
             /\ Len(Front(frames)) = n - 1
             /\ n \in Nat /\ n - 1 + 1 = n
             /\ NestInv(body, d, Pushed(Popped(pos, n), n - 1, at), at + 1, n, 0)
             /\ CodeInv(body, R, M, BranchDone, Plus(Pending(Front(frames)), m))
             /\ m \notin Pending(Front(frames)) /\ m # 0 /\ M[m] = To(body[at].end + 1)
             /\ p \in 1..Len(body) /\ p < at /\ body[p].end = body[at].end
             /\ body[p].next = at
             /\ Last(frames) \in Frames /\ Last(frames).op = "if"
             /\ Terminated(BranchDone) \/ Current(R, M, BranchDone) = Res(R, OtherwiseOf(body, p))
             /\ op = "elif" /\ Terminated(BranchDone) => body[p].op = "else"
<1> DEFINE n == Len(frames)
           m == Last(frames).merge
           p == pos[n]
<1>1. frames # <<>> /\ op \in Branches
  BY DEF InIf, Branches
<1>2. /\ body \in Seq(Constructs) /\ Len(body) \in Nat /\ at \in 1..Len(body)
      /\ body[at].op = op /\ skipped = 0 /\ Depths(body, 0, d)
      /\ body' = body /\ at' = at + 1 /\ skipped' = 0
      /\ Resolves(body, R) /\ M[1] = To(1) /\ 1 \in DOMAIN M
      /\ NestInv(body, d, pos, at, n, 0) /\ n \in Nat /\ n # 0
      /\ FramesInv(body, M, Front(frames), Popped(pos, n)) /\ Len(Front(frames)) = n - 1
  BY <1>1, ClosesFrame
<1>3. /\ CodeInv(body, R, M, BranchDone, Plus(Pending(Front(frames)), m))
      /\ m \notin Pending(Front(frames)) /\ m # 0 /\ M[m] = To(body[p].end + 1)
      /\ p \in 1..Len(body) /\ p < at /\ body[p].next = at
      /\ Last(frames) \in Frames /\ Last(frames).op = "if"
      /\ body[at].op # "end" => body[p].end = body[at].end
      /\ Terminated(BranchDone) \/ Current(R, M, BranchDone) = Res(R, OtherwiseOf(body, p))
      /\ body[at].op = "elif" /\ Terminated(BranchDone) => body[p].op = "else"
  BY <1>1, <1>2, BranchDoneKeeps
<1>4. NestInv(body, d, Pushed(Popped(pos, n), n - 1, at), at + 1, n, 0)
  <2> HIDE DEF n
  <2> QED
    BY <1>2, NestContinues
<1>5. n - 1 + 1 = n
  BY <1>2
<1> HIDE DEF n, m, p
<1> QED
  BY <1>2, <1>3, <1>4, <1>5 DEF n, m, p

(* GenerateElif tests its condition where the one before fails; behind an  *)
(* else, where nothing is owed, the block has ended.                       *)
LEMMA GenerateElifKeeps ==
  ASSUME NEW R, NEW d, NEW M, NEW pos, Structured(body, <<>>, d), Written(R, d, M, pos),
         GenerateElif
  PROVE  \E L, q : Written(R, d, L, q)'
<1> DEFINE n == Len(frames)
           m == Last(frames).merge
           p == pos[n]
           fs == Front(frames)
           P == Pending(fs)
           S == Plus(P, m)
           g == BranchDone
           h == Tested(g, m).code
           f == Tested(g, m).frame
<1>1. Upcoming("elif") /\ InIf /\ code' = h /\ frames' = Append(fs, f)
  BY DEF GenerateElif
<1>2. /\ body \in Seq(Constructs) /\ Len(body) \in Nat /\ at \in 1..Len(body)
      /\ body[at].op = "elif" /\ skipped = 0
      /\ body' = body /\ at' = at + 1 /\ skipped' = 0
      /\ Resolves(body, R) /\ M[1] = To(1) /\ 1 \in DOMAIN M
      /\ FramesInv(body, M, fs, Popped(pos, n)) /\ Len(fs) = n - 1
      /\ n \in Nat /\ n - 1 + 1 = n
      /\ NestInv(body, d, Pushed(Popped(pos, n), n - 1, at), at + 1, n, 0)
      /\ CodeInv(body, R, M, g, S)
      /\ m \notin P /\ m # 0 /\ M[m] = To(body[at].end + 1)
      /\ p \in 1..Len(body) /\ p < at /\ body[p].end = body[at].end /\ body[p].next = at
      /\ Terminated(g) \/ Current(R, M, g) = Res(R, OtherwiseOf(body, p))
      /\ Terminated(g) => body[p].op = "else"
  BY <1>1, Branched
<1> HIDE DEF n, m, p, fs, P, g, h, f
<1>3. ~Terminated(g) => Current(R, M, g).at = at /\ Current(R, M, g).how # "chosen"
  <2>1. Res(R, OtherwiseOf(body, p)) = Test(at)
    BY <1>2 DEF OtherwiseOf, Res, Test
  <2> QED
    BY <1>2, <2>1 DEF Test
<1>4. Terminated(g) => LateElif(body)
  BY <1>2 DEF LateElif
<1>5. PICK L : /\ CodeInv(body, R, L, h, Plus(S, f.otherwise)) /\ Agree(M, L)
               /\ ~Terminated(h) /\ Current(R, L, h) = Res(R, To(at + 1))
               /\ f \in Frames /\ f.op = "if" /\ f.merge = m
               /\ f.otherwise # 0
               /\ f.otherwise = m <=> body[body[at].next].op = "end"
               /\ f.otherwise # m => f.otherwise \notin S
               /\ L[f.otherwise] = OtherwiseOf(body, at)
  <2>1. m \in S
    BY DEF Plus
  <2> HIDE DEF S
  <2>2. \E L : /\ CodeInv(body, R, L, Tested(g, m).code, Plus(S, Tested(g, m).frame.otherwise))
               /\ Agree(M, L)
               /\ ~Terminated(Tested(g, m).code)
               /\ Current(R, L, Tested(g, m).code) = Res(R, To(at + 1))
               /\ Tested(g, m).frame \in Frames /\ Tested(g, m).frame.op = "if"
               /\ Tested(g, m).frame.merge = m
               /\ Tested(g, m).frame.otherwise # 0
               /\ Tested(g, m).frame.otherwise = m <=> body[body[at].next].op = "end"
               /\ Tested(g, m).frame.otherwise # m => Tested(g, m).frame.otherwise \notin S
               /\ L[Tested(g, m).frame.otherwise] = OtherwiseOf(body, at)
    BY <1>2, <1>3, <1>4, <2>1, TestedKeeps
  <2> QED
    BY <2>2 DEF h, f
<1>6. /\ Owed(f) = {m, f.otherwise} /\ Owed(f) \subseteq DOMAIN L /\ \A x \in Owed(f) : x \notin P
      /\ L[m] = To(body[at].end + 1)
  <2>1. Owed(f) = {m, f.otherwise}
    BY <1>5 DEF Owed
  <2>2. m \in Plus(S, f.otherwise) /\ f.otherwise \in Plus(S, f.otherwise)
    BY DEF Plus
  <2>3. m \in DOMAIN L /\ f.otherwise \in DOMAIN L
    BY <1>5, <2>2 DEF CodeInv
  <2>4. m \in DOMAIN M
    BY <1>2 DEF CodeInv, Plus
  <2> QED
    BY <1>2, <1>5, <2>1, <2>3, <2>4 DEF Agree, Plus
<1>7. FrameInv(body, L, f, at)
  BY <1>2, <1>5, <1>6 DEF FrameInv
<1>8. PICK q : q = Pushed(Popped(pos, n), n - 1, at)
  OBVIOUS
<1>9. /\ FramesInv(body, L, frames', q)
      /\ Pending(frames') = Plus(S, f.otherwise) /\ Len(frames') = n
  <2> DEFINE pq == Popped(pos, n)
  <2> HIDE DEF pq
  <2>1. /\ Agree(M, L) /\ FramesInv(body, M, fs, pq) /\ f \in Frames
        /\ \A x \in Owed(f) : x \notin Pending(fs)
    BY <1>2, <1>5, <1>6 DEF P, pq
  <2>2. FramesInv(body, L, Append(fs, f), Pushed(pq, Len(fs), at))
    BY <1>7, <2>1, FramesOpen
  <2>3. Pending(Append(fs, f)) = Pending(fs) \cup Owed(f)
    BY <1>7, <2>1, FramesOpen
  <2>4. Len(Append(fs, f)) = Len(fs) + 1
    BY <1>7, <2>1, FramesOpen
  <2> QED
    BY <1>1, <1>2, <1>6, <1>8, <2>2, <2>3, <2>4 DEF Plus, P, pq
<1>10. L[1] = To(1)
  BY <1>2, <1>5 DEF Agree
<1>11. Reached(R, L, code', at', skipped')
  BY <1>1, <1>2, <1>5 DEF Reached
<1>12. Written(R, d, L, q)'
  BY <1>1, <1>2, <1>5, <1>9, <1>8, <1>10, <1>11 DEF Written
<1> QED
  BY <1>12

(* GenerateElse goes on where the condition before fails.                  *)
LEMMA GenerateElseKeeps ==
  ASSUME NEW R, NEW d, NEW M, NEW pos, Structured(body, <<>>, d), Written(R, d, M, pos),
         GenerateElse
  PROVE  \E L, q : Written(R, d, L, q)'
<1> DEFINE n == Len(frames)
           m == Last(frames).merge
           p == pos[n]
           fs == Front(frames)
           P == Pending(fs)
           S == Plus(P, m)
           g == BranchDone
           f == [Last(frames) EXCEPT !.otherwise = 0]
<1>1. Upcoming("else") /\ InIf /\ code' = g /\ frames' = [frames EXCEPT ![n].otherwise = 0]
  BY DEF GenerateElse
<1>2. /\ body \in Seq(Constructs) /\ Len(body) \in Nat /\ at \in 1..Len(body)
      /\ body[at].op = "else" /\ skipped = 0
      /\ body' = body /\ at' = at + 1 /\ skipped' = 0
      /\ Resolves(body, R) /\ M[1] = To(1) /\ 1 \in DOMAIN M
      /\ FramesInv(body, M, fs, Popped(pos, n)) /\ Len(fs) = n - 1
      /\ n \in Nat /\ n - 1 + 1 = n
      /\ NestInv(body, d, Pushed(Popped(pos, n), n - 1, at), at + 1, n, 0)
      /\ CodeInv(body, R, M, g, S)
      /\ m \notin P /\ m # 0 /\ M[m] = To(body[at].end + 1)
      /\ p \in 1..Len(body) /\ p < at /\ body[p].end = body[at].end /\ body[p].next = at
      /\ Last(frames) \in Frames /\ Last(frames).op = "if"
      /\ Terminated(g) \/ Current(R, M, g) = Res(R, OtherwiseOf(body, p))
  BY <1>1, Branched
<1>3. frames \in Seq(Frames) /\ frames # <<>> /\ n \in 1..n
  <2>1. frames \in Seq(Frames)
    BY DEF Written, FramesInv
  <2>2. frames # <<>>
    BY <1>1 DEF InIf
  <2> QED
    BY <2>1, <2>2
<1>4. f \in Frames /\ f.op = "if" /\ f.merge = m /\ f.otherwise = 0
  BY <1>2 DEF Frames
<1>5. frames' = Append(fs, f)
  <2>1. frames[n] = Last(frames)
    BY DEF Last
  <2>2. frames' = [frames EXCEPT ![n] = f]
    <3> DEFINE l == Last(frames)
    <3>1. frames' = [frames EXCEPT ![n] = [frames[n] EXCEPT !.otherwise = 0]]
      BY <1>1, Zenon
    <3>2. frames[n] = l
      BY <2>1
    <3> HIDE DEF l, n
    <3> QED
      BY <3>1, <3>2, Zenon DEF f, l
  <2> HIDE DEF f
  <2>3. /\ frames' \in Seq(Frames) /\ Len(frames') = n /\ frames'[n] = f
        /\ \A k \in 1..n : k # n => frames'[k] = frames[k]
    BY <1>3, <1>4, <2>2, ExceptSeq
  <2>4. fs \in Seq(Frames) /\ \A k \in 1..(n - 1) : fs[k] = frames[k]
    BY <1>3, FrontProps
  <2> HIDE DEF fs
  <2>5. /\ Append(fs, f) \in Seq(Frames) /\ Len(Append(fs, f)) = n /\ Append(fs, f)[n] = f
        /\ \A k \in 1..(n - 1) : Append(fs, f)[k] = fs[k]
    BY <1>2, <1>4, <2>4, AppendProperties
  <2>6. \A k \in 1..n : k # n => k \in 1..(n - 1)
    BY <1>2
  <2> DEFINE a == Append(fs, f)
  <2> HIDE DEF a, n
  <2>7. \A k \in 1..n : frames'[k] = a[k]
    BY <2>3, <2>4, <2>5, <2>6 DEF a
  <2> QED
    BY <2>3, <2>5, <2>7, SeqEqual DEF a
<1> HIDE DEF n, m, p, fs, P, g, f
<1>6. Owed(f) = {m} /\ m \in DOMAIN M /\ \A x \in Owed(f) : x \notin P
  <2>1. m \in DOMAIN M
    BY <1>2 DEF CodeInv, Plus
  <2> QED
    BY <1>2, <1>4, <2>1 DEF Owed
<1>7. FrameInv(body, M, f, at)
  BY <1>2, <1>4, <1>6 DEF FrameInv
<1>8. PICK q : q = Pushed(Popped(pos, n), n - 1, at)
  OBVIOUS
<1>9. /\ FramesInv(body, M, frames', q)
      /\ Pending(frames') = S /\ Len(frames') = n
  <2> DEFINE pq == Popped(pos, n)
  <2> HIDE DEF pq
  <2>1. /\ Agree(M, M) /\ FramesInv(body, M, fs, pq) /\ f \in Frames
        /\ \A x \in Owed(f) : x \notin Pending(fs)
    BY <1>2, <1>4, <1>6 DEF P, pq, Agree
  <2>2. FramesInv(body, M, Append(fs, f), Pushed(pq, Len(fs), at))
    BY <1>7, <2>1, FramesOpen
  <2>3. Pending(Append(fs, f)) = Pending(fs) \cup Owed(f)
    BY <1>7, <2>1, FramesOpen
  <2>4. Len(Append(fs, f)) = Len(fs) + 1
    BY <1>7, <2>1, FramesOpen
  <2> QED
    BY <1>2, <1>5, <1>6, <1>8, <2>2, <2>3, <2>4 DEF Plus, P, pq
<1>10. Reached(R, M, code', at', skipped')
  <2>1. OtherwiseOf(body, p) = To(at + 1)
    BY <1>2 DEF OtherwiseOf
  <2> QED
    BY <1>1, <1>2, <2>1 DEF Reached
<1>11. Written(R, d, M, q)'
  BY <1>1, <1>2, <1>9, <1>8, <1>10 DEF Written
<1> QED
  BY <1>11

-----------------------------------------------------------------------------
(* The text is read                                                        *)

BodyTextInv == \E d : Structured(body, open, d)

(* What Construct makes is a construct without links.                      *)
LEMMA ConstructIs ==
  ASSUME NEW op \in Parts \cup {"do", "return", "end"}, NEW iif \in BOOLEAN
  PROVE  /\ Construct(op, iif) \in Constructs
         /\ Construct(op, iif).op = op /\ Construct(op, iif).next = 0
         /\ Construct(op, iif).end = 0
         /\ Construct(op, iif).iif = iif
BY DEF Construct, Constructs

(* A body starts with no construct and no open statement.                  *)
LEMMA EmptyIsStructured == Structured(<<>>, <<>>, [i \in 1..1 |-> 0])
<1>1. Depths(<<>>, 0, [i \in 1..1 |-> 0])
  BY DEF Depths
<1>2. <<>> \in Seq(Constructs) /\ <<>> \in Seq(Statements) /\ Len(<<>>) = 0
  OBVIOUS
<1> QED
  BY <1>1, <1>2 DEF Structured

(* ReadSimple: a construct in no statement of its own.                     *)
LEMMA ReadSimpleKeeps ==
  ASSUME BodyTextInv, NEW op \in {"do", "return"}, NEW iif \in BOOLEAN, ReadSimple(op, iif)
  PROVE  BodyTextInv'
<1>1. PICK d : Structured(body, open, d)
  BY DEF BodyTextInv
<1> DEFINE c == Construct(op, iif)
<1>2. c \in Constructs /\ c.op \in {"do", "return"}
  <2>1. op \in Parts \cup {"do", "return", "end"}
    OBVIOUS
  <2> QED
    BY <2>1, ConstructIs
<1>3. body' = Append(body, c) /\ open' = open
  BY DEF ReadSimple
<1> HIDE DEF c
<1>4. PICK e : Structured(Append(body, c), open, e)
  BY <1>1, <1>2, SimpleIsStructured
<1>5. Structured(body', open', e)
  BY <1>3, <1>4
<1> QED
  BY <1>5 DEF BodyTextInv

(* OpenStatement: the statements that are open stay open.                  *)
LEMMA OpenStatementKeeps ==
  ASSUME BodyTextInv, NEW op \in Openers, NEW iif \in BOOLEAN, OpenStatement(op, iif)
  PROVE  BodyTextInv'
<1>1. PICK d : Structured(body, open, d)
  BY DEF BodyTextInv
<1> DEFINE c == Construct(op, iif)
           s == [op |-> c.op, parts |-> <<Len(body) + 1>>, else_present |-> FALSE]
<1>2. c \in Constructs /\ c.op \in Openers /\ c.op = op /\ c.next = 0 /\ c.end = 0
  <2>1. op \in Parts \cup {"do", "return", "end"}
    BY DEF Openers, Parts
  <2> QED
    BY <2>1, ConstructIs
<1>3. body' = Append(body, c) /\ open' = Append(open, s)
  BY <1>2 DEF OpenStatement, here
<1> HIDE DEF c
<1>4. Structured(Append(body, c), Append(open, s), Deeper(body, d, Len(open) + 1))
  BY <1>1, <1>2, OpenedIsStructured
<1>5. PICK e : e = Deeper(body, d, Len(open) + 1)
  OBVIOUS
<1>6. Structured(body', open', e)
  BY <1>3, <1>4, <1>5
<1> QED
  BY <1>6 DEF BodyTextInv

(* ReadBranch: the part before it is linked to it.                         *)
LEMMA ReadBranchKeeps ==
  ASSUME BodyTextInv, NEW op \in {"elif", "else"}, NEW iif \in BOOLEAN, ReadBranch(op, iif)
  PROVE  BodyTextInv'
<1>1. PICK d : Structured(body, open, d)
  BY DEF BodyTextInv
<1> DEFINE n == Len(open)
           s == Last(open)
           j == Last(s.parts)
           c == Construct(op, iif)
           w == [body EXCEPT ![j].next = here]
           z == [s EXCEPT !.parts = Append(@, here), !.else_present = @ \/ (op = "else")]
<1>2. c \in Constructs /\ c.op = op /\ c.next = 0 /\ c.end = 0
  <2>1. op \in Parts \cup {"do", "return", "end"}
    BY DEF Parts
  <2> QED
    BY <2>1, ConstructIs
<1>3. body' = Append(w, c) /\ open # <<>> /\ s.op = "if"
  BY DEF ReadBranch
<1>4. open' = [open EXCEPT ![n] = z]
  BY DEF ReadBranch
<1>5. /\ body \in Seq(Constructs) /\ open \in Seq(Statements)
      /\ Len(body) \in Nat /\ here = Len(body) + 1
  BY <1>1 DEF Structured, here
<1>6. n \in 1..n /\ n \in Nat /\ s = open[n] /\ s \in Statements
  <2>1. n # 0 /\ n \in Nat
    BY <1>3, <1>5
  <2>2. n \in 1..n
    BY <2>1
  <2> QED
    BY <1>5, <2>1, <2>2 DEF Last
<1>7. s.parts \in Seq(Nat) /\ s.parts # <<>> /\ j \in 1..Len(body)
  <2>1. OpenInv(body, s, d, n)
    BY <1>1, <1>6 DEF Structured
  <2>2. s.parts \in Seq(Nat) /\ s.parts # <<>>
    BY <1>6, <2>1 DEF OpenInv, Statements
  <2>3. Len(s.parts) \in 1..Len(s.parts)
    BY <2>2
  <2> QED
    BY <2>1, <2>2, <2>3 DEF OpenInv, Last
<1>8. z \in Statements /\ z.op = s.op /\ z.parts = Append(s.parts, here)
  <2>1. Append(s.parts, here) \in Seq(Nat)
    BY <1>5, <1>7
  <2> QED
    BY <1>6, <2>1 DEF Statements
<1> HIDE DEF z, s, j
<1>9. /\ open' \in Seq(Statements) /\ Len(open') = n /\ open'[n] = z
      /\ \A k \in 1..n : k # n => open'[k] = open[k]
  BY <1>4, <1>5, <1>6, <1>8, ExceptSeq
<1>10. /\ w \in Seq(Constructs) /\ Len(w) = Len(body)
       /\ \A i \in 1..Len(body) : /\ w[i].op = body[i].op /\ w[i].end = body[i].end
                                  /\ w[i].next = IF i = j THEN here ELSE body[i].next
  <2> DEFINE y == [body[j] EXCEPT !.next = here]
  <2>1. w = [body EXCEPT ![j] = y]
    OBVIOUS
  <2>2. body[j] \in Constructs
    BY <1>5, <1>7
  <2>3. y \in Constructs /\ y.op = body[j].op /\ y.end = body[j].end /\ y.next = here
    BY <1>5, <2>2 DEF Constructs
  <2> HIDE DEF y, w
  <2>4. /\ w \in Seq(Constructs) /\ Len(w) = Len(body) /\ w[j] = y
        /\ \A i \in 1..Len(body) : i # j => w[i] = body[i]
    BY <1>5, <1>7, <2>1, <2>3, ExceptSeq
  <2> QED
    BY <2>3, <2>4
<1> HIDE DEF w, c
<1>11. /\ body' \in Seq(Constructs) /\ Len(body') = Len(body) + 1
       /\ body'[Len(body) + 1] = c
       /\ \A i \in 1..Len(body) : body'[i] = w[i]
  BY <1>2, <1>3, <1>5, <1>10, AppendProperties
<1>12. PICK e : e = Deeper(body, d, n)
  OBVIOUS
<1>13. Structured(body', open', e)
  <2>1. open[n].op = "if" /\ open'[n].op = "if" /\ Last(open[n].parts) = j
        /\ open'[n].parts = Append(open[n].parts, Len(body'))
    BY <1>3, <1>5, <1>6, <1>8, <1>9, <1>11 DEF j
  <2>2. \A k \in 1..(n - 1) : open'[k] = open[k]
    BY <1>6, <1>9
  <2>3. \A i \in 1..Len(body) :
           /\ body'[i].op = body[i].op /\ body'[i].end = body[i].end
           /\ body'[i].next = IF i = Last(open[n].parts) THEN Len(body') ELSE body[i].next
    BY <1>5, <1>10, <1>11, <2>1
  <2>4. /\ body'[Len(body')].op \in {"elif", "else"}
        /\ body'[Len(body')].next = 0 /\ body'[Len(body')].end = 0
    BY <1>2, <1>11
  <2> DEFINE u == body'
             v == open'
  <2>5. /\ u \in Seq(Constructs) /\ v \in Seq(Statements)
        /\ Len(u) = Len(body) + 1 /\ Len(v) = Len(open)
        /\ u[Len(u)].op \in {"elif", "else"} /\ u[Len(u)].next = 0 /\ u[Len(u)].end = 0
        /\ open[Len(open)].op = "if" /\ v[Len(open)].op = "if"
        /\ v[Len(open)].parts = Append(open[Len(open)].parts, Len(u))
        /\ \A k \in 1..(Len(open) - 1) : v[k] = open[k]
        /\ \A i \in 1..Len(body) :
             /\ u[i].op = body[i].op /\ u[i].end = body[i].end
             /\ u[i].next = IF i = Last(open[Len(open)].parts) THEN Len(u) ELSE body[i].next
    BY <1>9, <1>11, <2>1, <2>2, <2>3, <2>4
  <2> HIDE DEF u, v
  <2>6. Structured(u, v, Deeper(body, d, Len(open)))
    BY <1>1, <1>3, <2>5, BranchIsStructured
  <2> QED
    BY <1>12, <2>6 DEF u, v
<1> QED
  BY <1>13 DEF BodyTextInv

(* CloseStatement links the parts to the end, and the end of a loop to its *)
(* condition.                                                              *)
LEMMA CloseStatementKeeps ==
  ASSUME BodyTextInv, CloseStatement
  PROVE  BodyTextInv' /\ Len(body') = Len(body) + 1 /\ Len(open') = Len(open) - 1
<1>1. PICK d : Structured(body, open, d)
  BY DEF BodyTextInv
<1> DEFINE s == Last(open)
           L(i) == [body[i] EXCEPT !.next = IF @ = 0 THEN here ELSE @, !.end = here]
           x == IF s.op = "while" THEN s.parts[1] ELSE here + 1
           c == [Construct("end", FALSE) EXCEPT !.next = x]
           w == [i \in 1..Len(body) |-> IF i \in ToSet(s.parts) THEN L(i) ELSE body[i]]
<1>2. body' = Append(w, c) /\ open # <<>> /\ open' = Front(open)
  BY DEF CloseStatement
<1>3. /\ body \in Seq(Constructs) /\ open \in Seq(Statements)
      /\ Len(body) \in Nat /\ here = Len(body) + 1
  BY <1>1 DEF Structured, here
<1>4. /\ Len(open) \in 1..Len(open) /\ s = open[Len(open)] /\ s \in Statements
      /\ Len(Front(open)) = Len(open) - 1
  BY <1>2, <1>3, FrontProps
<1>5. x \in Nat
  <2>1. OpenInv(body, s, d, Len(open))
    BY <1>1, <1>4 DEF Structured
  <2>2. s.parts \in Seq(Nat) /\ s.parts # <<>>
    BY <1>4, <2>1 DEF OpenInv, Statements
  <2>3. s.parts[1] \in Nat
    BY <2>2
  <2> QED
    BY <1>3, <2>3
<1>6. c \in Constructs /\ c.op = "end" /\ c.next = x
  BY <1>5 DEF Construct, Constructs
<1>7. ASSUME NEW i \in 1..Len(body)
      PROVE  /\ L(i) \in Constructs /\ L(i).op = body[i].op /\ L(i).end = here
             /\ L(i).next = IF body[i].next = 0 THEN here ELSE body[i].next
  <2>1. body[i] \in Constructs /\ here \in Nat
    BY <1>3
  <2> QED
    BY <2>1 DEF Constructs
<1> HIDE DEF L, c, x
<1>8. w \in Seq(Constructs) /\ Len(w) = Len(body)
      /\ \A i \in 1..Len(body) : w[i] = IF i \in ToSet(s.parts) THEN L(i) ELSE body[i]
  <2>1. \A i \in 1..Len(body) : (IF i \in ToSet(s.parts) THEN L(i) ELSE body[i]) \in Constructs
    BY <1>3, <1>7
  <2> HIDE DEF s
  <2> QED
    BY <1>3, <2>1
<1> HIDE DEF w
<1>9. /\ body' \in Seq(Constructs) /\ Len(body') = Len(body) + 1 /\ body'[Len(body) + 1] = c
      /\ \A i \in 1..Len(body) : body'[i] = w[i]
  BY <1>2, <1>3, <1>6, <1>8, AppendProperties
<1>10. PICK e : e = Deeper(body, d, Len(open) - 1)
  OBVIOUS
<1>11. Structured(body', open', e)
  <2> DEFINE u == body'
  <2>1. u[Len(u)].op = "end"
        /\ u[Len(u)].next = IF Last(open).op = "while" THEN Last(open).parts[1] ELSE Len(u) + 1
    BY <1>3, <1>6, <1>9 DEF x
  <2>2. ASSUME NEW i \in 1..Len(body)
        PROVE  IF i \in ToSet(Last(open).parts)
                 THEN /\ u[i].op = body[i].op /\ u[i].end = Len(u)
                      /\ u[i].next = IF body[i].next = 0 THEN Len(u) ELSE body[i].next
                 ELSE u[i] = body[i]
    BY <1>3, <1>7, <1>8, <1>9
  <2>3. u \in Seq(Constructs) /\ Len(u) = Len(body) + 1
    BY <1>9
  <2> HIDE DEF u, s
  <2>4. Structured(u, Front(open), Deeper(body, d, Len(open) - 1))
    BY <1>1, <1>2, <2>1, <2>2, <2>3, ClosedIsStructured
  <2> QED
    BY <1>2, <1>10, <2>4 DEF u
<1> QED
  BY <1>2, <1>4, <1>9, <1>11 DEF BodyTextInv

-----------------------------------------------------------------------------
(* The text and the code side by side                                      *)

BlockAt(p) == code.blocks[p.block]

RunInv(R, M) ==
  /\ Resolves(body, R) /\ CodeInv(body, R, M, code, {}) /\ Terminated(code)
  /\ flow \in Points(body)
  /\ flow.how # "flow" => flow.at <= Len(body) /\ body[flow.at].op # "end"
  /\ pc \in [block : 1..Len(code.blocks), instr : Nat]
  /\ pc.instr \in 1..(Len(BlockAt(pc)) + 1)
  /\ Fresh(BlockAt(pc), pc.instr)
  /\ Res(R, flow) = Res(R, Before(M, BlockAt(pc), pc.block, pc.instr))

(* EndBodyCode: nothing is owed any more, every block has ended, and the   *)
(* text and the code start at the same point.                              *)
LEMMA EndBodyKeeps ==
  ASSUME NEW R, NEW d, NEW M, NEW pos, Structured(body, <<>>, d), Written(R, d, M, pos),
         flow = To(1), pc = Goto(1), EndBodyCode
  PROVE  /\ RunInv(R, M)' /\ frames' = <<>> /\ skipped' = 0
         /\ at' = Len(body) + 1 /\ body' = body
<1> DEFINE n == Len(frames)
           c == Instr("ret", <<>>)
<1>1. /\ body' = body /\ frames' = frames /\ skipped' = skipped /\ at' = at
      /\ flow' = flow /\ pc' = pc
      /\ code' = ImplicitReturn(code) /\ at = Len(body) + 1
  BY DEF EndBodyCode, Generating
<1>2. /\ Resolves(body, R) /\ CodeInv(body, R, M, code, Pending(frames))
      /\ FramesInv(body, M, frames, pos)
      /\ NestInv(body, d, pos, at, n, skipped)
      /\ Reached(R, M, code, at, skipped) /\ M[1] = To(1)
  BY DEF Written
<1>3. frames = <<>> /\ skipped = 0
  <2>1. d[at] = n + skipped /\ n \in Nat /\ skipped \in Nat
    BY <1>2 DEF NestInv
  <2>2. d[at] = 0
    BY <1>1 DEF Structured, Depths
  <2>3. n = 0 /\ skipped = 0
    BY <2>1, <2>2
  <2>4. frames \in Seq(Frames)
    BY <1>2 DEF FramesInv
  <2> QED
    BY <2>3, <2>4
<1>4. Pending(frames) = {}
  <2>1. 1..Len(frames) = {}
    BY <1>3
  <2> QED
    BY <2>1 DEF Pending
<1>5. Len(body) \in Nat /\ at \in Nat
  BY <1>1 DEF Structured
<1>6. CodeInv(body, R, M, code', {}) /\ Terminated(code')
  <2>1. CASE Terminated(code)
    BY <1>1, <1>2, <1>4, <2>1 DEF ImplicitReturn
  <2>2. CASE ~Terminated(code)
    <3>1. code' = Emit(code, c)
      BY <1>1, <2>2 DEF ImplicitReturn
    <3>2. c \in Instrs /\ c.op = "ret" /\ c.at = at /\ "ret" \in Terminators
      <4>1. "ret" \in Terminators /\ <<>> \in Seq(Nat)
        BY DEF Terminators
      <4> QED
        BY <1>5, <4>1, InstrIs
    <3> HIDE DEF c
    <3>3. Current(R, M, code) = To(at)
      <4>1. at \in 1..(Len(body) + 1) /\ ~Jumps(body, at)
        BY <1>1, <1>5 DEF Jumps
      <4> QED
        BY <1>2, <2>2, <4>1, ResIs DEF Reached
    <3>4. Performs(body, R, M, c, Current(R, M, code))
      <4>1. Event(body, To(at)) = [op |-> "ret", at |-> at]
        BY <1>1, <1>5 DEF Event, To
      <4> QED
        BY <3>2, <3>3, <4>1 DEF Performs
    <3> QED
      BY <1>2, <1>4, <2>2, <3>1, <3>2, <3>4, EmitKeeps
  <2> QED
    BY <2>1, <2>2
<1>7. /\ pc' \in [block : 1..Len(code'.blocks), instr : Nat] /\ pc'.block = 1
      /\ pc'.instr = 1
      /\ Len(BlockAt(pc)') \in Nat
  <2>1. /\ Len(code'.blocks) \in Nat /\ code'.insert \in 1..Len(code'.blocks)
        /\ code'.blocks \in Seq(Seq(Instrs))
    BY <1>6 DEF CodeInv, Codes
  <2>2. 1 \in 1..Len(code'.blocks)
    BY <2>1
  <2>3. pc' = [block |-> 1, instr |-> 1]
    BY <1>1 DEF Goto
  <2>4. BlockAt(pc)' = code'.blocks[1] /\ code'.blocks[1] \in Seq(Instrs)
    BY <2>1, <2>2, <2>3 DEF BlockAt
  <2> QED
    BY <2>2, <2>3, <2>4
<1>8. pc'.instr \in 1..(Len(BlockAt(pc)') + 1) /\ Fresh(BlockAt(pc)', pc'.instr)
      /\ Before(M, BlockAt(pc)', pc'.block, pc'.instr) = flow'
  BY <1>1, <1>2, <1>7 DEF Fresh, Before
<1>9. flow' \in Points(body) /\ flow'.how = "flow"
  <2>1. 1 \in 1..(Len(body) + 1)
    BY <1>5
  <2> QED
    BY <1>1, <2>1 DEF Points, To
<1>10. RunInv(R, M)'
  BY <1>1, <1>2, <1>6, <1>7, <1>8, <1>9 DEF RunInv
<1> QED
  BY <1>1, <1>3, <1>10

(* What the code does next is what the text does.                          *)
LEMMA SideBySide ==
  ASSUME NEW R, NEW M, RunInv(R, M)
  PROVE  /\ ~FellOff /\ pc.instr \in 1..Len(block)
         /\ Performs(body, R, M, instruction, Res(R, flow))
         /\ block = BlockAt(pc) /\ instruction \in Instrs
         /\ pc.block \in 1..Len(code.blocks) /\ DOMAIN M = 1..Len(code.blocks)
         /\ block \in Seq(Instrs) /\ Len(block) \in Nat
<1>1. /\ CodeInv(body, R, M, code, {}) /\ Terminated(code) /\ block = BlockAt(pc)
      /\ pc.block \in 1..Len(code.blocks) /\ pc.instr \in 1..(Len(block) + 1)
      /\ Fresh(block, pc.instr)
      /\ Res(R, flow) = Res(R, Before(M, block, pc.block, pc.instr))
  BY DEF RunInv, BlockAt, block
<1>2. code.blocks \in Seq(Seq(Instrs)) /\ block \in Seq(Instrs) /\ Len(block) \in Nat
      /\ DOMAIN M = 1..Len(code.blocks)
  <2>1. code.blocks \in Seq(Seq(Instrs)) /\ DOMAIN M = 1..Len(code.blocks)
    BY <1>1 DEF CodeInv, Codes
  <2>2. block \in Seq(Instrs)
    BY <1>1, <2>1 DEF block
  <2> QED
    BY <2>1, <2>2
<1>3. Ended(block) /\ BlockInv(body, R, M, block, pc.block)
  BY <1>1, TerminatedIsEnded DEF CodeInv, BlockAt
<1>4. pc.instr # Len(block) + 1
  <2> SUFFICES ASSUME pc.instr = Len(block) + 1
               PROVE  FALSE
    OBVIOUS
  <2>1. block # <<>> /\ block[Len(block)].op \in Terminators
    BY <1>3 DEF Ended
  <2>2. Len(block) # 0
    BY <1>2, <2>1
  <2>3. pc.instr # 1 /\ pc.instr - 1 = Len(block)
    BY <1>2, <2>2
  <2> QED
    BY <1>1, <2>1, <2>3 DEF Fresh, Terminators
<1>5. pc.instr \in 1..Len(block) /\ ~FellOff
  BY <1>1, <1>2, <1>4 DEF FellOff
<1>6. instruction \in Instrs
  BY <1>2, <1>5 DEF instruction
<1>7. Performs(body, R, M, instruction, Res(R, flow))
  BY <1>1, <1>3, <1>5 DEF BlockInv, instruction
<1> QED
  BY <1>1, <1>2, <1>5, <1>6, <1>7

(* When neither of them jumps.                                             *)
LEMMA EventIsText ==
  ASSUME NEW R, NEW M, RunInv(R, M), ~TextJumps, ~CodeJumps
  PROVE  /\ CodeEvent = TextEvent /\ TextEvent = Event(body, flow)
         /\ Performs(body, R, M, instruction, flow)
         /\ flow.at \in 1..(Len(body) + 1) /\ instruction.at = flow.at
         /\ CodeEvent.op = instruction.op
         /\ flow.at <= Len(body) => body[flow.at].op # "end"
<1>1. Resolves(body, R) /\ flow \in Points(body)
      /\ (flow.how # "flow" => flow.at <= Len(body) /\ body[flow.at].op # "end")
  BY DEF RunInv
<1>2. flow.at \in 1..(Len(body) + 1) /\ flow = [at |-> flow.at, how |-> flow.how]
  BY <1>1 DEF Points
<1>3. flow.how = "flow" => ~Jumps(body, flow.at) /\ flow = To(flow.at)
  BY <1>2 DEF TextJumps, Jumps, Branches, To
<1>4. Res(R, flow) = flow
  <2>1. CASE flow.how = "flow"
    BY <1>1, <1>2, <1>3, <2>1, ResIs
  <2>2. CASE flow.how # "flow"
    BY <2>2 DEF Res
  <2> QED
    BY <2>1, <2>2
<1>5. ~FellOff /\ Performs(body, R, M, instruction, flow) /\ instruction \in Instrs
  BY <1>4, SideBySide
<1>6. CodeEvent = [op |-> instruction.op, at |-> instruction.at]
  BY <1>5 DEF CodeEvent
<1>7. Event(body, flow) = CodeEvent
  BY <1>5, <1>6 DEF Performs, CodeJumps
<1>8. TextEvent = Event(body, flow)
  BY DEF TextEvent, Event, Kind
<1>9. Event(body, flow).at = flow.at
  BY DEF Event
<1>10. instruction.at = flow.at /\ CodeEvent.op = instruction.op
  <2>1. CodeEvent.at = flow.at
    BY <1>7, <1>9
  <2> QED
    BY <1>6, <2>1
<1>11. flow.at <= Len(body) => body[flow.at].op # "end"
  BY <1>1 DEF TextJumps
<1> QED
  BY <1>2, <1>5, <1>7, <1>8, <1>10, <1>11

(* FollowText: the text jumps, and comes to the same.                      *)
LEMMA FollowTextKeeps ==
  ASSUME NEW R, NEW d, NEW M, Structured(body, <<>>, d), RunInv(R, M), FollowText
  PROVE  RunInv(R, M)'
<1> DEFINE i == flow.at
           j == Target(body, i)
<1>1. /\ body' = body /\ code' = code /\ pc' = pc /\ flow' = To(j)
      /\ i <= Len(body) /\ flow.how = "flow" /\ body[i].op \in Branches
  BY DEF FollowText, Running, TextJumps, Branches, Target
<1>2. Resolves(body, R) /\ flow \in Points(body) /\ Len(body) \in Nat
  BY DEF RunInv, Structured
<1>3. i \in 1..Len(body) /\ i \in 1..(Len(body) + 1) /\ flow = To(i)
  BY <1>1, <1>2 DEF Points, To
<1>4. j \in 1..(Len(body) + 1)
  <2>1. j \in (i + 1)..(Len(body) + 1) \/ j \in 1..Len(body)
    BY <1>1, <1>3, TargetOf
  <2> QED
    BY <1>2, <1>3, <2>1
<1>5. Res(R, flow) = Res(R, To(j))
  BY <1>1, <1>2, <1>3, <1>4, ResIs DEF Jumps
<1>6. To(j) \in Points(body) /\ To(j).how = "flow"
  BY <1>4 DEF Points, To
<1> HIDE DEF j
<1>7. BlockAt(pc)' = BlockAt(pc)
  BY <1>1 DEF BlockAt
<1> QED
  BY <1>1, <1>2, <1>5, <1>6, <1>7 DEF RunInv

(* A jump of the code to a block that stands for the point of the text.    *)
LEMMA JumpKeeps ==
  ASSUME NEW R, NEW M, RunInv(R, M), NEW b \in DOMAIN M,
         body' = body, code' = code, pc' = Goto(b),
         flow' \in Points(body),
         flow'.how # "flow" => flow'.at <= Len(body) /\ body[flow'.at].op # "end",
         Res(R, flow') = Res(R, M[b])
  PROVE  RunInv(R, M)'
<1>1. b \in 1..Len(code.blocks) /\ code.blocks \in Seq(Seq(Instrs))
  BY DEF RunInv, CodeInv, Codes
<1>2. BlockAt(pc)' = code.blocks[b] /\ Len(code.blocks[b]) \in Nat
  <2>1. code.blocks[b] \in Seq(Instrs)
    BY <1>1
  <2> QED
    BY <2>1 DEF BlockAt, Goto
<1>3. /\ pc' \in [block : 1..Len(code.blocks), instr : Nat] /\ pc'.block = b
      /\ pc'.instr = 1
  BY <1>1 DEF Goto
<1>4. /\ pc'.instr \in 1..(Len(BlockAt(pc)') + 1) /\ Fresh(BlockAt(pc)', pc'.instr)
      /\ Before(M, BlockAt(pc)', pc'.block, pc'.instr) = M[b]
  BY <1>2, <1>3 DEF Fresh, Before
<1> QED
  BY <1>3, <1>4 DEF RunInv

(* FollowCode: a branch leads to a block that means the same point.        *)
LEMMA FollowCodeKeeps ==
  ASSUME NEW R, NEW M, RunInv(R, M), FollowCode
  PROVE  RunInv(R, M)'
<1> DEFINE b == instruction.to[1]
<1>1. /\ body' = body /\ code' = code /\ flow' = flow /\ pc' = Goto(b)
      /\ instruction.op = "br"
  BY DEF FollowCode, Running, CodeJumps
<1>2. b \in DOMAIN M /\ Res(R, M[b]) = Res(R, flow)
  BY <1>1, SideBySide DEF Performs
<1>3. /\ flow \in Points(body)
      /\ (flow.how # "flow" => flow.at <= Len(body) /\ body[flow.at].op # "end")
  BY DEF RunInv
<1> HIDE DEF b
<1> QED
  BY <1>1, <1>2, <1>3, JumpKeeps

(* Execute: both do the same, and are at the same point afterwards.        *)
LEMMA ExecuteKeeps ==
  ASSUME NEW R, NEW d, NEW M, Structured(body, <<>>, d), RunInv(R, M), Execute
  PROVE  RunInv(R, M)'
<1> DEFINE i == flow.at
           c == instruction
           r == pc.instr
<1>1. body' = body /\ code' = code /\ ~TextJumps /\ ~CodeJumps
  BY DEF Execute, Running
<1>2. /\ CodeEvent = TextEvent /\ TextEvent = Event(body, flow) /\ Performs(body, R, M, c, flow)
      /\ i \in 1..(Len(body) + 1) /\ c.at = i /\ CodeEvent.op = c.op
      /\ i <= Len(body) => body[i].op # "end"
  BY <1>1, EventIsText
<1>3. /\ r \in 1..Len(block) /\ c \in Instrs /\ block \in Seq(Instrs) /\ Len(block) \in Nat
      /\ block = BlockAt(pc) /\ c = block[r]
      /\ pc.block \in 1..Len(code.blocks) /\ DOMAIN M = 1..Len(code.blocks)
  BY SideBySide DEF instruction
<1>4. /\ body \in Seq(Constructs) /\ Len(body) \in Nat
      /\ flow \in Points(body) /\ pc \in [block : 1..Len(code.blocks), instr : Nat]
      /\ flow.how # "flow" => i <= Len(body) /\ body[i].op # "end"
  BY DEF RunInv, Structured
<1>5. Event(body, flow).op = c.op
  BY <1>2
<1>6. c.op # "ret" => i \in 1..Len(body)
  <2>1. i > Len(body) => c.op = "ret"
    BY <1>5 DEF Event
  <2> QED
    BY <1>2, <1>4, <2>1
<1>7. CASE c.op = "ret"
  <2>1. flow' = flow /\ pc' = pc
    BY <1>2, <1>7 DEF Execute
  <2>2. BlockAt(pc)' = BlockAt(pc)
    BY <1>1, <2>1 DEF BlockAt
  <2> QED
    BY <1>1, <2>1, <2>2 DEF RunInv
<1>8. CASE c.op = "do"
  <2>1. flow' = To(i + 1) /\ pc' = [pc EXCEPT !.instr = r + 1]
    BY <1>2, <1>8 DEF Execute
  <2>2. /\ pc' \in [block : 1..Len(code.blocks), instr : Nat]
        /\ pc'.block = pc.block /\ pc'.instr = r + 1
    BY <1>4, <2>1
  <2>3. BlockAt(pc)' = block
    BY <1>1, <1>3, <2>2 DEF BlockAt
  <2>4. /\ r + 1 \in 1..(Len(block) + 1) /\ r + 1 # 1 /\ r + 1 - 1 = r
    BY <1>3
  <2>5. Fresh(block, r + 1) /\ Before(M, block, pc.block, r + 1) = To(i + 1)
    BY <1>2, <1>3, <1>8, <2>4 DEF Fresh, Before
  <2>6. To(i + 1) \in Points(body) /\ To(i + 1).how = "flow"
    <3>1. i + 1 \in 1..(Len(body) + 1)
      BY <1>4, <1>6, <1>8
    <3> QED
      BY <3>1 DEF Points, To
  <2> QED
    BY <1>1, <2>1, <2>2, <2>3, <2>4, <2>5, <2>6 DEF RunInv
<1>9. CASE c.op = "choose"
  <2>1. flow' = [flow EXCEPT !.how = "chosen"] /\ pc' \in {Goto(b) : b \in ToSet(c.to)}
    BY <1>2, <1>9 DEF Execute
  <2>2. PICK b \in ToSet(c.to) : pc' = Goto(b)
    BY <2>1
  <2>3. b \in DOMAIN M /\ M[b] = Chosen(i)
    BY <1>2, <1>9, <2>2 DEF Performs
  <2>4. flow' = Chosen(i) /\ Chosen(i) \in Points(body) /\ Chosen(i).at = i
    BY <1>2, <1>4, <2>1 DEF Points, Chosen
  <2>5. i <= Len(body) /\ body[i].op # "end"
    BY <1>2, <1>6, <1>9
  <2> QED
    BY <1>1, <2>2, <2>3, <2>4, <2>5, JumpKeeps
<1>10. CASE c.op = "cond"
  <2>1. PICK holds \in BOOLEAN : /\ flow' = IF holds THEN To(i + 1) ELSE Otherwise(i)
                                 /\ pc' = Goto(c.to[IF holds THEN 1 ELSE 2])
    BY <1>2, <1>10 DEF Execute
  <2>2. i \in 1..Len(body) /\ body[i].op \in Parts
    <3>1. i \in 1..Len(body)
      BY <1>6, <1>10
    <3>2. body[i] \in Constructs
      BY <1>4, <3>1
    <3>3. body[i].op \in Parts \cup {"do", "return", "end"}
      BY <3>2 DEF Constructs
    <3>4. body[i].op # "do" /\ body[i].op # "return"
      BY <1>4, <1>5, <1>10, <3>1 DEF Event, Kind
    <3> QED
      BY <1>2, <3>1, <3>3, <3>4
  <2>3. /\ To(i + 1) \in Points(body) /\ OtherwiseOf(body, i) \in Points(body)
        /\ Otherwise(i) = OtherwiseOf(body, i)
    BY <2>2, PartLeads DEF Otherwise, OtherwiseOf
  <2>4. CASE holds
    <3> DEFINE b == c.to[1]
    <3>1. b \in DOMAIN M /\ Res(R, M[b]) = Res(R, To(i + 1))
      BY <1>2, <1>10 DEF Performs
    <3>2. flow' = To(i + 1) /\ pc' = Goto(b) /\ To(i + 1).how = "flow"
      BY <2>1, <2>4 DEF To
    <3> HIDE DEF b
    <3> QED
      BY <1>1, <2>3, <3>1, <3>2, JumpKeeps
  <2>5. CASE ~holds
    <3> DEFINE b == c.to[2]
    <3>1. b \in DOMAIN M /\ Res(R, M[b]) = Res(R, OtherwiseOf(body, i))
      BY <1>2, <1>10 DEF Performs
    <3>2. flow' = OtherwiseOf(body, i) /\ pc' = Goto(b)
      BY <2>1, <2>3, <2>5
    <3>3. OtherwiseOf(body, i).how # "flow"
             => OtherwiseOf(body, i).at <= Len(body) /\ body[OtherwiseOf(body, i).at].op # "end"
      <4>1. body[i].next \in (i + 1)..Len(body)
        BY <2>2, EndOf
      <4>2. body[i].next <= Len(body)
        BY <1>4, <2>2, <4>1
      <4> QED
        BY <4>2 DEF OtherwiseOf, To, Test
    <3> HIDE DEF b
    <3> QED
      BY <1>1, <2>3, <3>1, <3>2, <3>3, JumpKeeps
  <2> QED
    BY <2>4, <2>5
<1>11. c.op \in {"ret", "do", "choose", "cond"}
  <2>1. c.op \in Terminators \cup {"do"}
    BY <1>3 DEF Instrs
  <2>2. c.op # "br"
    BY <1>1, SideBySide DEF CodeJumps
  <2> QED
    BY <2>1, <2>2 DEF Terminators
<1> QED
  BY <1>7, <1>8, <1>9, <1>10, <1>11

-----------------------------------------------------------------------------
(* The inductive invariant                                                 *)

TextStage == /\ stage = "text"
             /\ at = 1 /\ skipped = 0 /\ code = Entry /\ frames = <<>>
             /\ flow = To(1) /\ pc = Goto(1)

CodeStage == /\ stage = "code" /\ open = <<>>
             /\ flow = To(1) /\ pc = Goto(1)
             /\ \E R, d, M, pos : Structured(body, <<>>, d) /\ Written(R, d, M, pos)

RunStage == /\ stage \in {"run", "done"} /\ open = <<>>
            /\ frames = <<>> /\ skipped = 0 /\ at = Len(body) + 1
            /\ \E R, d, M : Structured(body, <<>>, d) /\ RunInv(R, M)

BodyInv == /\ Len(body) + Len(open) <= MaxText
           /\ BodyTextInv
           /\ TextStage \/ CodeStage \/ RunStage

(* The room that is left                                                   *)
LEMMA RoomIs ==
  ASSUME NEW iif, HasRoom(iif)
  PROVE  Len(body) + Len(open) < MaxText
BY Zenon DEF HasRoom

(* The lengths of the text and of the open statements are numbers.         *)
LEMMA TextIs ==
  ASSUME BodyTextInv
  PROVE  /\ body \in Seq(Constructs) /\ open \in Seq(Statements)
         /\ Len(body) \in Nat /\ Len(open) \in Nat
BY DEF BodyTextInv, Structured

(* The invariant holds at first.                                           *)
LEMMA BodyInitInv == BodyInit => BodyInv
<1> SUFFICES ASSUME BodyInit
             PROVE  BodyInv
  OBVIOUS
<1>1. /\ stage = "text" /\ body = <<>> /\ open = <<>>
      /\ at = 1 /\ skipped = 0 /\ code = Entry /\ frames = <<>>
      /\ flow = To(1) /\ pc = Goto(1)
  BY DEF BodyInit, To, Goto
<1>2. BodyTextInv
  BY <1>1, EmptyIsStructured DEF BodyTextInv
<1>3. Len(body) + Len(open) <= MaxText
  BY <1>1, MaxTextAssumption
<1> QED
  BY <1>1, <1>2, <1>3 DEF BodyInv, TextStage

(* Reading a construct: what is generated and executed is left alone.      *)
LEMMA ReadingKeeps ==
  ASSUME BodyInv, ReadingBody, BodyTextInv', Len(body') + Len(open') <= MaxText
  PROVE  BodyInv'
<1>1. TextStage
  BY DEF BodyInv, ReadingBody, CodeStage, RunStage
<1>2. TextStage'
  BY <1>1, Zenon DEF TextStage, ReadingBody, To, Goto, Entry
<1> QED
  BY <1>2 DEF BodyInv

(* The reading of a construct keeps the invariant.                         *)
LEMMA TextKeeps ==
  ASSUME BodyInv,
         \/ \E iif \in BOOLEAN :
              \/ \E op \in {"do", "return"} : ReadSimple(op, iif)
              \/ \E op \in Openers : OpenStatement(op, iif)
              \/ \E op \in {"elif", "else"} : ReadBranch(op, iif)
         \/ CloseStatement
  PROVE  BodyInv'
<1>1. /\ BodyTextInv /\ Len(body) + Len(open) <= MaxText /\ MaxText \in Nat
      /\ body \in Seq(Constructs) /\ open \in Seq(Statements)
      /\ Len(body) \in Nat /\ Len(open) \in Nat
  BY TextIs, MaxTextAssumption DEF BodyInv
<1>2. ASSUME NEW iif \in BOOLEAN, NEW op \in {"do", "return"}, ReadSimple(op, iif)
      PROVE  BodyInv'
  <2>1. BodyTextInv'
    BY <1>1, <1>2, ReadSimpleKeeps
  <2>2. /\ ReadingBody /\ HasRoom(iif) /\ body' = Append(body, Construct(op, iif))
        /\ open' = open
    BY <1>2 DEF ReadSimple
  <2>3. Len(body') = Len(body) + 1
    BY <1>1, <2>2
  <2>4. Len(body') + Len(open') <= MaxText
    BY <1>1, <2>2, <2>3, RoomIs
  <2> QED
    BY <2>1, <2>2, <2>4, ReadingKeeps
<1>3. ASSUME NEW iif \in BOOLEAN, NEW op \in Openers, OpenStatement(op, iif)
      PROVE  BodyInv'
  <2>1. BodyTextInv'
    BY <1>1, <1>3, OpenStatementKeeps
  <2> DEFINE s == [op |-> op, parts |-> <<here>>, else_present |-> FALSE]
  <2>2. /\ ReadingBody /\ Len(body) + Len(open) + 1 < MaxText
        /\ body' = Append(body, Construct(op, iif)) /\ open' = Append(open, s)
    BY <1>3 DEF OpenStatement
  <2>3. Len(body') = Len(body) + 1 /\ Len(open') = Len(open) + 1
    <3> HIDE DEF s
    <3> QED
      BY <1>1, <2>2
  <2>4. Len(body') + Len(open') <= MaxText
    BY <1>1, <2>2, <2>3
  <2> QED
    BY <2>1, <2>2, <2>4, ReadingKeeps
<1>4. ASSUME NEW iif \in BOOLEAN, NEW op \in {"elif", "else"}, ReadBranch(op, iif)
      PROVE  BodyInv'
  <2>1. BodyTextInv'
    BY <1>1, <1>4, ReadBranchKeeps
  <2> DEFINE b == [body EXCEPT ![Last(Last(open).parts)].next = here]
             s == Last(open)
             w == [s EXCEPT !.parts = Append(@, here), !.else_present = @ \/ (op = "else")]
  <2>2. /\ ReadingBody /\ HasRoom(iif) /\ body' = Append(b, Construct(op, iif))
        /\ open' = [open EXCEPT ![Len(open)] = w]
    BY <1>4, Zenon DEF ReadBranch
  <2>3. Len(b) = Len(body) /\ Len(open') = Len(open)
    <3> HIDE DEF w
    <3> QED
      BY <1>1, <2>2
  <2>4. Len(body') = Len(body) + 1
    BY <1>1, <2>1, <2>2, <2>3, TextIs
  <2>5. Len(body') + Len(open') <= MaxText
    BY <1>1, <2>2, <2>3, <2>4, RoomIs
  <2> QED
    BY <2>1, <2>2, <2>5, ReadingKeeps
<1>5. CASE CloseStatement
  <2>1. BodyTextInv' /\ Len(body') = Len(body) + 1 /\ Len(open') = Len(open) - 1
    BY <1>1, <1>5, CloseStatementKeeps
  <2>2. ReadingBody
    BY <1>5 DEF CloseStatement
  <2>3. Len(body') + Len(open') <= MaxText
    BY <1>1, <2>1
  <2> QED
    BY <2>1, <2>2, <2>3, ReadingKeeps
<1> QED
  BY <1>2, <1>3, <1>4, <1>5

(* The text is over: the code is an empty block.                           *)
LEMMA EndBodyTextKeeps ==
  ASSUME BodyInv, EndBodyText
  PROVE  BodyInv'
<1>1. /\ stage' = "code" /\ open = <<>> /\ body' = body /\ open' = open /\ at' = at
      /\ skipped' = skipped /\ code' = code /\ frames' = frames /\ flow' = flow /\ pc' = pc
  BY DEF EndBodyText
<1>2. TextStage
  BY DEF BodyInv, EndBodyText, CodeStage, RunStage
<1>3. PICK d : Structured(body, <<>>, d)
  BY <1>1 DEF BodyInv, BodyTextInv
<1>4. PICK R : Resolves(body, R)
  BY <1>3, ResolvesExists
<1>5. /\ at = 1 /\ skipped = 0 /\ frames = <<>> /\ code.insert = 1
      /\ code.blocks = <<<<>>>> /\ code = Entry
  BY <1>2 DEF TextStage, Entry
<1>6. Len(body) \in Nat /\ Len(frames) = 0 /\ d[1] = 0
  BY <1>3, <1>5 DEF Structured, Depths
<1> DEFINE M == [k \in 1..1 |-> To(1)]
           pos == [k \in 1..0 |-> 1]
<1>7. Pending(frames) = {}
  <2>1. 1..Len(frames) = {}
    BY <1>6
  <2> QED
    BY <2>1 DEF Pending
<1>8. CodeInv(body, R, M, code, {})
  <2>1. Len(code.blocks) = 1 /\ code.blocks[1] = <<>> /\ code \in Codes
    <3>1. <<<<>>>> \in Seq(Seq(Instrs))
      OBVIOUS
    <3> QED
      BY <1>5, <3>1 DEF Codes, Entry
  <2>2. To(1) \in Points(body)
    BY <1>6 DEF To, Points
  <2>3. M \in [1..Len(code.blocks) -> Points(body)]
    <3>1. 1..Len(code.blocks) = 1..1
      BY <2>1
    <3> QED
      BY <2>2, <3>1
  <2> HIDE DEF M
  <2>4. BlockInv(body, R, M, <<>>, 1)
    BY DEF BlockInv
  <2>5. ASSUME NEW k \in 1..Len(code.blocks)
        PROVE  BlockInv(body, R, M, code.blocks[k], k) /\ k = code.insert
    <3>1. k = 1
      BY <2>1
    <3> QED
      BY <1>5, <2>1, <2>4, <3>1
  <2> QED
    BY <1>5, <2>1, <2>3, <2>5 DEF CodeInv
<1>9. M[1] = To(1)
  OBVIOUS
<1>10. FramesInv(body, M, frames, pos)
  <2>1. frames \in Seq(Frames)
    BY <1>5
  <2>2. 1..Len(frames) = {}
    BY <1>6
  <2> QED
    BY <2>1, <2>2 DEF FramesInv
<1>11. NestInv(body, d, pos, at, Len(frames), skipped)
  <2>1. 1..0 = {}
    OBVIOUS
  <2>2. pos \in [1..0 -> 1..Len(body)]
    BY <2>1
  <2> HIDE DEF pos
  <2> QED
    BY <1>5, <1>6, <2>1, <2>2 DEF NestInv
<1> HIDE DEF M, pos
<1>12. Reached(R, M, code, at, skipped)
  <2>1. Current(R, M, code) = Res(R, M[1])
    <3>1. Len(code.blocks[code.insert]) + 1 = 1
      BY <1>5
    <3> QED
      BY <1>5, <3>1 DEF Current, Before
  <2> QED
    BY <1>5, <1>9, <2>1 DEF Reached
<1>13. Written(R, d, M, pos)
  BY <1>4, <1>7, <1>8, <1>9, <1>10, <1>11, <1>12 DEF Written
<1>14. Written(R, d, M, pos)' <=> Written(R, d, M, pos)
  BY <1>1, Zenon DEF Written, Pending
<1>15. CodeStage'
  BY <1>1, <1>2, <1>3, <1>13, <1>14 DEF CodeStage, TextStage, To, Goto
<1>16. BodyTextInv' /\ Len(body') + Len(open') <= MaxText
  BY <1>1 DEF BodyInv, BodyTextInv
<1> QED
  BY <1>15, <1>16 DEF BodyInv

Generates == \/ GenerateSimple("do", "do")
             \/ GenerateSimple("return", "ret")
             \/ SkipDead
             \/ GenerateWhile
             \/ EndWhileCode
             \/ GenerateIf
             \/ GenerateElif
             \/ GenerateElse
             \/ EndIfCode

(* A construct is generated, or passed over.                               *)
LEMMA CodeKeeps ==
  ASSUME BodyInv, Generates
  PROVE  BodyInv'
<1>1. /\ stage = "code" /\ stage' = stage /\ body' = body /\ open' = open
      /\ flow' = flow /\ pc' = pc
  BY DEF Generates, GenerateSimple, SkipDead, GenerateWhile, EndWhileCode, GenerateIf,
         GenerateElif, GenerateElse, EndIfCode, Upcoming, Generating
<1>2. CodeStage
  BY <1>1 DEF BodyInv, TextStage, RunStage
<1>3. PICK R, d, M, pos : Structured(body, <<>>, d) /\ Written(R, d, M, pos)
  BY <1>2 DEF CodeStage
<1>4. \E L, q : Written(R, d, L, q)'
  <2>1. ASSUME GenerateSimple("do", "do")
        PROVE  \E L, q : Written(R, d, L, q)'
    <3>1. "do" \in {"do", "return"} /\ "do" = Kind("do")
      BY DEF Kind
    <3> QED
      BY <1>3, <2>1, <3>1, GenerateSimpleKeeps
  <2>2. ASSUME GenerateSimple("return", "ret")
        PROVE  \E L, q : Written(R, d, L, q)'
    <3>1. "return" \in {"do", "return"} /\ "ret" = Kind("return")
      BY DEF Kind
    <3> QED
      BY <1>3, <2>2, <3>1, GenerateSimpleKeeps
  <2>3. CASE SkipDead
    BY <1>3, <2>3, SkipDeadKeeps
  <2>4. CASE GenerateWhile
    BY <1>3, <2>4, GenerateWhileKeeps
  <2>5. CASE EndWhileCode
    BY <1>3, <2>5, EndWhileKeeps
  <2>6. CASE GenerateIf
    BY <1>3, <2>6, GenerateIfKeeps
  <2>7. CASE GenerateElif
    BY <1>3, <2>7, GenerateElifKeeps
  <2>8. CASE GenerateElse
    BY <1>3, <2>8, GenerateElseKeeps
  <2>9. CASE EndIfCode
    BY <1>3, <2>9, EndIfKeeps
  <2> QED
    BY <2>1, <2>2, <2>3, <2>4, <2>5, <2>6, <2>7, <2>8, <2>9 DEF Generates
<1>5. PICK L, q : Written(R, d, L, q)'
  BY <1>4
<1>6. Structured(body, <<>>, d)'
  BY <1>1, <1>3
<1>7. CodeStage'
  <2>1. /\ stage' = "code" /\ open' = <<>>
        /\ flow' = To(1)' /\ pc' = Goto(1)'
    BY <1>1, <1>2 DEF CodeStage, To, Goto
  <2> QED
    BY <1>5, <1>6, <2>1 DEF CodeStage
<1>8. BodyTextInv' /\ Len(body') + Len(open') <= MaxText
  BY <1>1 DEF BodyInv, BodyTextInv
<1> QED
  BY <1>7, <1>8 DEF BodyInv

(* The code is complete.                                                   *)
LEMMA EndBodyInv ==
  ASSUME BodyInv, EndBodyCode
  PROVE  BodyInv'
<1>1. stage = "code" /\ stage' = "run" /\ body' = body /\ open' = open
  BY DEF EndBodyCode, Generating
<1>2. CodeStage
  BY <1>1 DEF BodyInv, TextStage, RunStage
<1>3. PICK R, d, M, pos : Structured(body, <<>>, d) /\ Written(R, d, M, pos)
  BY <1>2 DEF CodeStage
<1>4. flow = To(1) /\ pc = Goto(1) /\ open = <<>>
  BY <1>2 DEF CodeStage
<1>5. RunInv(R, M)' /\ frames' = <<>> /\ skipped' = 0 /\ at' = Len(body) + 1
  BY <1>3, <1>4, EndBodyCode, EndBodyKeeps
<1>6. Structured(body, <<>>, d)'
  BY <1>1, <1>3
<1>7. RunStage'
  BY <1>1, <1>4, <1>5, <1>6 DEF RunStage
<1>8. BodyTextInv' /\ Len(body') + Len(open') <= MaxText
  BY <1>1 DEF BodyInv, BodyTextInv
<1> QED
  BY <1>7, <1>8 DEF BodyInv

(* A step of the text and the code.                                        *)
LEMMA RunKeeps ==
  ASSUME BodyInv, FollowText \/ FollowCode \/ Execute
  PROVE  BodyInv'
<1>1. /\ stage = "run" /\ body' = body /\ open' = open /\ at' = at /\ skipped' = skipped
      /\ frames' = frames
  BY DEF FollowText, FollowCode, Execute, Running
<1>2. RunStage
  BY <1>1 DEF BodyInv, TextStage, CodeStage
<1>3. PICK R, d, M : Structured(body, <<>>, d) /\ RunInv(R, M)
  BY <1>2 DEF RunStage
<1>4. RunInv(R, M)'
  BY <1>3, FollowTextKeeps, FollowCodeKeeps, ExecuteKeeps
<1>5. stage' \in {"run", "done"}
  <2>1. CASE FollowText \/ FollowCode
    BY <1>1, <2>1 DEF FollowText, FollowCode
  <2>2. CASE Execute
    <3>1. ~TextJumps /\ ~CodeJumps
      BY <2>2 DEF Execute
    <3>2. CodeEvent.op = instruction.op /\ instruction \in Instrs /\ instruction.op # "br"
      BY <1>3, <3>1, EventIsText, SideBySide DEF CodeJumps
    <3>3. CodeEvent.op \in {"ret", "do", "choose", "cond"}
      BY <3>2 DEF Instrs, Terminators
    <3> QED
      BY <1>1, <2>2, <3>3 DEF Execute
  <2> QED
    BY <2>1, <2>2
<1>6. Structured(body, <<>>, d)'
  BY <1>1, <1>3
<1>7. RunStage'
  BY <1>1, <1>2, <1>4, <1>5, <1>6 DEF RunStage
<1>8. BodyTextInv' /\ Len(body') + Len(open') <= MaxText
  BY <1>1 DEF BodyInv, BodyTextInv
<1> QED
  BY <1>7, <1>8 DEF BodyInv

(* Every step keeps the invariant.                                         *)
LEMMA BodyNextInv == BodyInv /\ [BodyNext]_bodyVars => BodyInv'
<1> SUFFICES ASSUME BodyInv, [BodyNext]_bodyVars
             PROVE  BodyInv'
  OBVIOUS
<1>1. CASE Generates
  BY <1>1, CodeKeeps
<1>2. CASE EndBodyText
  BY <1>2, EndBodyTextKeeps
<1>3. CASE EndBodyCode
  BY <1>3, EndBodyInv
<1>4. CASE FollowText \/ FollowCode \/ Execute
  BY <1>4, RunKeeps
<1>5. ASSUME \/ \E iif \in BOOLEAN :
                  \/ \E op \in {"do", "return"} : ReadSimple(op, iif)
                  \/ \E op \in Openers : OpenStatement(op, iif)
                  \/ \E op \in {"elif", "else"} : ReadBranch(op, iif)
             \/ CloseStatement
      PROVE  BodyInv'
  BY <1>5, TextKeeps
<1>6. CASE UNCHANGED bodyVars
  <2>1. /\ stage' = stage /\ body' = body /\ open' = open /\ at' = at /\ skipped' = skipped
        /\ code' = code /\ frames' = frames /\ flow' = flow /\ pc' = pc
    BY <1>6 DEF bodyVars
  <2>2. TextStage' <=> TextStage
    BY <2>1, Zenon DEF TextStage, Entry, To, Goto
  <2>3. CodeStage' <=> CodeStage
    BY <2>1, Zenon DEF CodeStage, To, Goto, Written, Pending
  <2>4. RunStage' <=> RunStage
    BY <2>1, Zenon DEF RunStage, RunInv, BlockAt
  <2>5. BodyTextInv' <=> BodyTextInv
    BY <2>1 DEF BodyTextInv
  <2> QED
    BY <2>1, <2>2, <2>3, <2>4, <2>5 DEF BodyInv
<1> QED
  BY <1>1, <1>2, <1>3, <1>4, <1>5, <1>6 DEF BodyNext, Generates

(* BodyInv holds in every state.                                           *)
LEMMA BodyInductive == BodySpec => []BodyInv
  BY BodyInitInv, BodyNextInv, PTL DEF BodySpec

-----------------------------------------------------------------------------
(* What follows from it                                                    *)

(* The types of the code generation: the construct that is generated next, *)
(* the insert point and the block that is executed exist, every statement  *)
(* is closed before code is generated, and at the end no statement is      *)
(* being generated or passed over.                                         *)
THEOREM BodyTypeCorrect == BodySpec => []BodyTypeOK
<1>1. BodyInv => BodyTypeOK
  <2> SUFFICES ASSUME BodyInv
               PROVE  BodyTypeOK
    OBVIOUS
  <2>1. /\ Len(body) \in Nat /\ Len(open) \in Nat /\ Len(body) + Len(open) <= MaxText
        /\ MaxText \in Nat
    BY TextIs, MaxTextAssumption DEF BodyInv
  <2>2. CASE TextStage
    <3>1. /\ at = 1 /\ skipped = 0 /\ code.insert = 1 /\ code.blocks = <<<<>>>>
          /\ pc.block = 1 /\ stage = "text"
      BY <2>2 DEF TextStage, Entry, Goto
    <3>2. Len(code.blocks) = 1
      BY <3>1
    <3> QED
      BY <2>1, <3>1, <3>2 DEF BodyTypeOK
  <2>3. CASE CodeStage
    <3>1. PICK R, d, M, pos : Structured(body, <<>>, d) /\ Written(R, d, M, pos)
      BY <2>3 DEF CodeStage
    <3>2. code.insert \in 1..Len(code.blocks) /\ Len(code.blocks) \in Nat
      BY <3>1 DEF Written, CodeInv, Codes
    <3>3. /\ at \in 1..(Len(body) + 1) /\ Len(frames) \in Nat /\ skipped \in Nat
          /\ d[at] = Len(frames) + skipped
      BY <3>1 DEF Written, NestInv
    <3>4. d[at] < at
      BY <3>1, <3>3 DEF Structured, Depths
    <3>5. skipped \in 0..MaxText
      BY <2>1, <3>3, <3>4
    <3>6. pc.block = 1 /\ stage = "code" /\ open = <<>>
      BY <2>3 DEF CodeStage, Goto
    <3> QED
      BY <2>1, <3>2, <3>3, <3>5, <3>6 DEF BodyTypeOK
  <2>4. CASE RunStage
    <3>1. PICK R, d, M : Structured(body, <<>>, d) /\ RunInv(R, M)
      BY <2>4 DEF RunStage
    <3>2. code.insert \in 1..Len(code.blocks) /\ pc.block \in 1..Len(code.blocks)
      BY <3>1 DEF RunInv, CodeInv
    <3> QED
      BY <2>1, <2>4, <3>2 DEF RunStage, BodyTypeOK
  <2> QED
    BY <2>2, <2>3, <2>4 DEF BodyInv
<1> QED
  BY <1>1, BodyInductive, PTL

(* Every block, also one that nothing leads to, ends with a terminator and *)
(* has no other: in every body, however its statements are nested, that    *)
(* has no elif after the else of its statement.                            *)
THEOREM BlocksTerminated == BodySpec => []OneTerminator
<1>1. BodyInv => OneTerminator
  <2> SUFFICES ASSUME BodyInv, stage \in {"run", "done"}, ~ElifAfterElse,
                      NEW b \in ToSet(code.blocks)
               PROVE  /\ b # <<>>
                      /\ \A i \in 1..Len(b) : b[i].op \in Terminators <=> i = Len(b)
    BY DEF OneTerminator
  <2>1. RunStage
    BY DEF BodyInv, TextStage, CodeStage
  <2>2. PICK R, d, M : RunInv(R, M)
    BY <2>1 DEF RunStage
  <2>3. CodeInv(body, R, M, code, {}) /\ Ended(code.blocks[code.insert])
    BY <2>2, TerminatedIsEnded DEF RunInv
  <2>4. PICK k \in 1..Len(code.blocks) : b = code.blocks[k]
    <3>1. code.blocks \in Seq(Seq(Instrs))
      BY <2>3 DEF CodeInv, Codes
    <3>2. b \in ToSet(code.blocks)
      OBVIOUS
    <3>3. \E k \in DOMAIN code.blocks : b = code.blocks[k]
      BY <3>2, Zenon DEF ToSet
    <3>4. DOMAIN code.blocks = 1..Len(code.blocks)
      BY <3>1
    <3> QED
      BY <3>3, <3>4
  <2>5. BlockInv(body, R, M, b, k) /\ Ended(b) /\ b \in Seq(Instrs)
    <3>1. /\ BlockInv(body, R, M, code.blocks[k], k)
          /\ Ended(code.blocks[k]) \/ k = code.insert
          /\ code.blocks \in Seq(Seq(Instrs))
      BY <2>3 DEF CodeInv, Codes
    <3>2. code.blocks[k] \in Seq(Instrs)
      BY <3>1
    <3> QED
      BY <2>3, <2>4, <3>1, <3>2
  <2>6. ~LateElif(body)
    BY DEF LateElif, ElifAfterElse
  <2>7. ASSUME NEW i \in 1..Len(b)
        PROVE  b[i].op \in Terminators <=> i = Len(b)
    <3>1. Len(b) \in Nat
      BY <2>5
    <3>2. i # Len(b) => i \in 1..(Len(b) - 1)
      BY <3>1
    <3> QED
      BY <2>5, <2>6, <3>2 DEF BlockInv, Ended
  <2> QED
    BY <2>5, <2>7 DEF Ended
<1> QED
  BY <1>1, BodyInductive, PTL

(* The generated code does what the body says, for every body and every    *)
(* outcome of its conditions: where neither the text nor the code jumps,   *)
(* the next instruction is what the text does next.                        *)
THEOREM CodeRunsAsWritten == BodySpec => []RunsAsWritten
<1>1. BodyInv => RunsAsWritten
  <2> SUFFICES ASSUME BodyInv, stage = "run", ~TextJumps, ~CodeJumps
               PROVE  CodeEvent = TextEvent
    BY DEF RunsAsWritten
  <2>1. RunStage
    BY DEF BodyInv, TextStage, CodeStage
  <2>2. PICK R, d, M : RunInv(R, M)
    BY <2>1 DEF RunStage
  <2> QED
    BY <2>2, EventIsText
<1> QED
  BY <1>1, BodyInductive, PTL

-----------------------------------------------------------------------------
(* Expressions                                                             *)

(* The powers of two are positive, and each is twice the one before.       *)
LEMMA Power2Of ==
  /\ \A n \in 0..HostBits : Power2[n] \in Nat \ {0}
  /\ Power2[0] = 1
  /\ \A n \in 1..HostBits : Power2[n] = 2 * Power2[n - 1]
<1> DEFINE S == Nat \ {0}
           P(f) == f = [n \in 0..HostBits |-> IF n = 0 THEN 1 ELSE 2 * f[n - 1]]
           h == [q \in S \X (1..HostBits) |-> 2 * q[1]]
<1>1. HostBits \in Nat
  BY ExprAssumption
<1>2. h \in [S \X (1..HostBits) -> S] /\ 1 \in S
  OBVIOUS
<1>3. \A x \in S, n \in 1..HostBits : h[<<x, n>>] = 2 * x
  OBVIOUS
<1> HIDE DEF h
<1>4. PICK g \in [0..HostBits -> S] : Recursion(g, HostBits, 1, h)
  <2> HIDE DEF S
  <2> QED
    BY <1>1, <1>2, RecursionExists
<1>5. P(g)
  <2>1. ASSUME NEW n \in 0..HostBits
        PROVE  g[n] = IF n = 0 THEN 1 ELSE 2 * g[n - 1]
    <3>1. CASE n = 0
      BY <1>4, <3>1 DEF Recursion
    <3>2. CASE n # 0
      <4>1. n \in 1..HostBits /\ n - 1 \in 0..HostBits
        BY <1>1, <3>2
      <4>2. g[n - 1] \in S
        BY <4>1
      <4> HIDE DEF S
      <4>3. h[<<g[n - 1], n>>] = 2 * g[n - 1]
        BY <1>3, <4>1, <4>2
      <4> QED
        BY <1>4, <3>2, <4>1, <4>3 DEF Recursion
    <3> QED
      BY <3>1, <3>2
  <2> HIDE DEF S
  <2>2. g = [n \in 0..HostBits |-> IF n = 0 THEN 1 ELSE 2 * g[n - 1]]
    BY <2>1
  <2> QED
    BY <2>2
<1>6. P(Power2)
  <2>1. Power2 = CHOOSE f : P(f)
    BY DEF Power2
  <2> QED
    BY <1>5, <2>1
<1>7. /\ Power2[0] = 1
      /\ \A n \in 1..HostBits : Power2[n] = 2 * Power2[n - 1]
  BY <1>1, <1>6
<1>8. \A n \in 0..HostBits : Power2[n] = g[n]
  <2> DEFINE Bad == {n \in 0..HostBits : Power2[n] # g[n]}
  <2>1. SUFFICES ASSUME Bad # {} PROVE FALSE
    OBVIOUS
  <2> DEFINE m == Min(Bad)
  <2>2. m \in Bad /\ \A x \in Bad : m =< x
    <3>1. Bad \in SUBSET Nat
      BY <1>1
    <3> HIDE DEF Bad
    <3> QED
      BY <2>1, <3>1, MinOf
  <2>3. m # 0
    BY <1>1, <1>5, <1>7, <2>2
  <2>4. m \in 1..HostBits /\ m - 1 \in 0..HostBits /\ m - 1 \notin Bad
    BY <1>1, <2>2, <2>3
  <2> HIDE DEF m
  <2> QED
    BY <1>1, <1>5, <1>7, <2>2, <2>4
<1> QED
  BY <1>7, <1>8

(* What the assumptions say of an integer type.                            *)
LEMMA IntTypeOf ==
  ASSUME NEW t \in IntTypes
  PROVE  /\ t.kind = "int" /\ t.bits \in 1..HostBits /\ t.signed \in BOOLEAN
         /\ t = IntType(t.bits, t.signed)
         /\ HostBits \in Nat \ {0} /\ t.bits \in Nat \ {0} /\ t.bits \in 0..HostBits
         /\ Power2[t.bits] \in Nat \ {0} /\ Power2[t.bits - 1] \in Nat \ {0}
         /\ Power2[t.bits] = 2 * Power2[t.bits - 1]
<1>1. HostBits \in Nat \ {0}
  BY ExprAssumption
<1>2. /\ t.kind = "int" /\ t.bits \in 1..HostBits /\ t.signed \in BOOLEAN
      /\ t = IntType(t.bits, t.signed)
  BY ExprAssumption DEF IntType
<1>3. t.bits \in Nat \ {0} /\ t.bits \in 0..HostBits /\ t.bits - 1 \in 0..HostBits
  BY <1>1, <1>2
<1> QED
  BY <1>1, <1>2, <1>3, Power2Of

(* The compiler's own int64 is one of the types.                           *)
LEMMA HostIntIs == HostInt \in IntTypes /\ HostInt.bits = HostBits /\ HostInt.signed = TRUE
  BY ExprAssumption DEF HostInt, IntType

(* A power of two is a multiple of every lower one.                        *)
LEMMA Power2Multiple ==
  ASSUME NEW b \in 0..HostBits, NEW n \in b..HostBits
  PROVE  \E k \in Nat \ {0} : Power2[n] = Power2[b] * k
<1> DEFINE Has(m) == \E k \in Nat \ {0} : Power2[m] = Power2[b] * k
           Bad == {m \in b..HostBits : ~Has(m)}
<1>1. HostBits \in Nat /\ b \in Nat
  BY ExprAssumption
<1>2. Has(b)
  <2>1. Power2[b] \in Nat
    BY Power2Of
  <2>2. Power2[b] = Power2[b] * 1
    BY <2>1
  <2> QED
    BY <2>2
<1>3. ASSUME NEW m \in (b + 1)..HostBits, Has(m - 1)
      PROVE  Has(m)
  <2>1. PICK k \in Nat \ {0} : Power2[m - 1] = Power2[b] * k
    BY <1>3
  <2>2. Power2[m] = 2 * Power2[m - 1] /\ Power2[b] \in Nat
    BY <1>1, Power2Of
  <2>3. Power2[m] = Power2[b] * (2 * k) /\ 2 * k \in Nat \ {0}
    <3>1. 2 * (Power2[b] * k) = Power2[b] * (2 * k)
      BY <2>2
    <3> QED
      BY <2>1, <2>2, <3>1
  <2> QED
    BY <2>3
<1>4. Bad = {}
  <2> HIDE DEF Has
  <2>1. SUFFICES ASSUME Bad # {} PROVE FALSE
    OBVIOUS
  <2> DEFINE m == Min(Bad)
  <2>2. m \in Bad /\ \A x \in Bad : m =< x
    <3>1. Bad \in SUBSET Nat
      BY <1>1
    <3> HIDE DEF Bad
    <3> QED
      BY <2>1, <3>1, MinOf
  <2> HIDE DEF m
  <2>3. m \in (b + 1)..HostBits /\ m - 1 \in b..HostBits
    BY <1>1, <1>2, <2>2
  <2>4. m - 1 \notin Bad
    BY <1>1, <2>2, <2>3
  <2> QED
    BY <1>3, <2>2, <2>3, <2>4
<1> QED
  BY <1>4

(* A higher power of two is greater.                                       *)
LEMMA Power2Grows ==
  ASSUME NEW b \in 0..HostBits, NEW n \in (b + 1)..HostBits
  PROVE  Power2[b] < Power2[n]
<1>1. b \in Nat /\ b + 1 \in 1..HostBits /\ HostBits \in Nat /\ b + 1 \in 0..HostBits
  BY ExprAssumption
<1>2. PICK k \in Nat \ {0} : Power2[n] = Power2[b + 1] * k
  BY <1>1, Power2Multiple
<1>3. Power2[b + 1] = 2 * Power2[b] /\ Power2[b] \in Nat \ {0}
  BY <1>1, Power2Of
<1>4. Power2[n] = 2 * (Power2[b] * k)
  BY <1>2, <1>3
<1>5. Power2[b] * k >= Power2[b] /\ Power2[b] * k \in Nat
  BY <1>3
<1> QED
  BY <1>3, <1>4, <1>5

Patterns(t) == 0..(Power2[t.bits] - 1)

(* A pattern is in the range of its width, and does not change with        *)
(* multiples of 2^bits.                                                    *)
LEMMA PatternOf ==
  ASSUME NEW t \in IntTypes, NEW n \in Int
  PROVE  /\ Pattern(t, n) \in Patterns(t)
         /\ n \in Patterns(t) => Pattern(t, n) = n
         /\ \A j \in Int : Pattern(t, n + Power2[t.bits] * j) = Pattern(t, n)
<1>1. Power2[t.bits] \in Nat \ {0}
  BY IntTypeOf
<1> QED
  BY <1>1, Remainder DEF Pattern, Patterns

(* A pattern's number, and its value in the compiler, is the pattern or the *)
(* pattern less 2^bits; they differ for the widest unsigned type only.     *)
LEMMA NumberOf ==
  ASSUME NEW t \in IntTypes, NEW p \in Int
  PROVE  /\ Number(t, p) \in Int /\ HostValue(t, p) \in Int
         /\ Number(t, p) = p \/ Number(t, p) = p - Power2[t.bits]
         /\ HostValue(t, p) = p \/ HostValue(t, p) = p - Power2[t.bits]
         /\ ~IsHostUnsigned(t) => HostValue(t, p) = Number(t, p)
         /\ IsHostUnsigned(t) => t.bits = HostBits /\ Number(t, p) = p
         /\ p \in Patterns(t) =>
              /\ t.signed => Number(t, p) \in (-Power2[t.bits - 1])..(Power2[t.bits - 1] - 1)
              /\ ~t.signed => Number(t, p) = p
<1>1. /\ Power2[t.bits] \in Nat \ {0} /\ Power2[t.bits - 1] \in Nat \ {0} /\ t.signed \in BOOLEAN
      /\ Power2[t.bits] = 2 * Power2[t.bits - 1]
  BY IntTypeOf
<1> DEFINE m == Power2[t.bits]
           h == Power2[t.bits - 1]
<1>2. m \in Nat \ {0} /\ h \in Nat \ {0} /\ m = 2 * h
  BY <1>1
<1>3. Signed(t.bits, p) = IF p >= h THEN p - m ELSE p
  BY DEF Signed
<1>4. Patterns(t) = 0..(m - 1)
  BY DEF Patterns
<1> HIDE DEF m, h
<1>5. /\ Number(t, p) = p \/ Number(t, p) = p - m
      /\ HostValue(t, p) = p \/ HostValue(t, p) = p - m
  BY <1>3 DEF Number, HostValue
<1>6. ~IsHostUnsigned(t) => HostValue(t, p) = Number(t, p)
  BY <1>1 DEF IsHostUnsigned, Number, HostValue
<1>7. IsHostUnsigned(t) => t.bits = HostBits /\ Number(t, p) = p
  BY DEF IsHostUnsigned, Number
<1>8. p \in Patterns(t) => /\ t.signed => Number(t, p) \in (-h)..(h - 1)
                           /\ ~t.signed => Number(t, p) = p
  BY <1>2, <1>3, <1>4 DEF Number
<1>9. Number(t, p) \in Int /\ HostValue(t, p) \in Int
  BY <1>2, <1>5
<1> QED
  BY <1>5, <1>6, <1>7, <1>8, <1>9 DEF m, h

(* The pattern of what a pattern stands for is the pattern.                *)
LEMMA OwnPattern ==
  ASSUME NEW t \in IntTypes, NEW p \in Patterns(t)
  PROVE  p \in Int /\ Pattern(t, Number(t, p)) = p /\ Pattern(t, HostValue(t, p)) = p
<1>1. Power2[t.bits] \in Nat \ {0} /\ p \in Int
  BY IntTypeOf DEF Patterns
<1>2. Pattern(t, p) = p /\ Pattern(t, p + Power2[t.bits] * (-1)) = p
  BY <1>1, PatternOf
<1>3. p + Power2[t.bits] * (-1) = p - Power2[t.bits]
  BY <1>1
<1>4. Pattern(t, p - Power2[t.bits]) = p
  BY <1>2, <1>3
<1>5. /\ Number(t, p) = p \/ Number(t, p) = p - Power2[t.bits]
      /\ HostValue(t, p) = p \/ HostValue(t, p) = p - Power2[t.bits]
  BY <1>1, NumberOf
<1> QED
  BY <1>1, <1>2, <1>4, <1>5

(* A conversion to any type of what the compiler holds for an integer, and *)
(* of what the program holds, gives the same pattern.                      *)
LEMMA ConvertedPattern ==
  ASSUME NEW s \in IntTypes, NEW t \in IntTypes, NEW p \in Patterns(s)
  PROVE  Pattern(t, HostValue(s, p)) = Pattern(t, Number(s, p))
<1>1. p \in Int
  BY OwnPattern
<1>2. CASE ~IsHostUnsigned(s)
  BY <1>1, <1>2, NumberOf
<1>3. CASE IsHostUnsigned(s)
  <2>1. s.bits = HostBits /\ Number(s, p) = p
    BY <1>1, <1>3, NumberOf
  <2>2. t.bits \in 0..HostBits /\ HostBits \in t.bits..HostBits
    BY IntTypeOf
  <2>3. PICK k \in Nat \ {0} : Power2[HostBits] = Power2[t.bits] * k
    BY <2>2, Power2Multiple
  <2>4. Power2[t.bits] \in Nat
    BY IntTypeOf
  <2>5. p - Power2[HostBits] = p + Power2[t.bits] * (-k)
    <3> DEFINE m == Power2[t.bits]
    <3> HIDE DEF m
    <3>1. m \in Nat /\ k \in Nat /\ Power2[HostBits] = m * k
      BY <2>3, <2>4 DEF m
    <3>2. m * (-k) = -(m * k) /\ m * k \in Int
      BY <3>1
    <3>3. p - Power2[HostBits] = p + m * (-k)
      BY <1>1, <3>1, <3>2
    <3> QED
      BY <3>3 DEF m
  <2>6. Pattern(t, p - Power2[HostBits]) = Pattern(t, p)
    <3>1. -k \in Int
      OBVIOUS
    <3> QED
      BY <1>1, <2>5, <3>1, PatternOf
  <2> QED
    BY <1>1, <2>1, <2>6, NumberOf
<1> QED
  BY <1>2, <1>3

(* The quotient of integers is an integer.                                 *)
LEMMA QuotientOf ==
  ASSUME NEW a \in Int, NEW b \in Int, b # 0
  PROVE  Quotient(a, b) \in Int
<1> DEFINE Abs(n) == IF n < 0 THEN -n ELSE n
<1>1. Abs(a) \in Nat /\ Abs(b) \in Nat /\ Abs(b) # 0
  OBVIOUS
<1>2. Abs(a) \div Abs(b) \in Int
  <2> HIDE DEF Abs
  <2> QED
    BY <1>1
<1> QED
  BY <1>2 DEF Quotient

(* A bit is 0 or 1.                                                        *)
LEMMA BitOf ==
  ASSUME NEW p \in Int, NEW n \in 0..HostBits
  PROVE  Bit(p, n) \in {0, 1}
<1>1. Power2[n] \in Nat \ {0}
  BY Power2Of
<1>2. p \div Power2[n] \in Int
  BY <1>1
<1>3. \A x \in Int : x % 2 \in {0, 1}
  OBVIOUS
<1> QED
  BY <1>2, <1>3 DEF Bit

BitwiseOps == {"AND", "OR", "XOR"}

(* The bit operators give an integer.                                      *)
LEMMA BitwiseOf ==
  ASSUME NEW op \in BitwiseOps, NEW p \in Int, NEW q \in Int
  PROVE  Bitwise(op, p, q) \in Int
<1> DEFINE Of(n) == Power2[n - 1] * BitOfBits(op, Bit(p, n - 1), Bit(q, n - 1))
           P(f) == f = [n \in 0..HostBits |->
                          IF n = 0 THEN 0 ELSE f[n - 1] + Of(n)]
           h == [x \in Int \X (1..HostBits) |-> x[1] + Of(x[2])]
<1>1. HostBits \in Nat
  BY ExprAssumption
<1>2. ASSUME NEW n \in 1..HostBits
      PROVE  Of(n) \in Int
  <2>1. n - 1 \in 0..HostBits
    BY <1>1
  <2>2. Bit(p, n - 1) \in {0, 1} /\ Bit(q, n - 1) \in {0, 1} /\ Power2[n - 1] \in Int
    BY <2>1, BitOf, Power2Of
  <2>3. \A x, y \in {0, 1} : BitOfBits(op, x, y) \in Int
    BY DEF BitOfBits, BitwiseOps
  <2>4. BitOfBits(op, Bit(p, n - 1), Bit(q, n - 1)) \in Int
    BY <2>2, <2>3
  <2> QED
    BY <2>2, <2>4
<1> HIDE DEF Of
<1>3. h \in [Int \X (1..HostBits) -> Int] /\ 0 \in Int
  BY <1>2
<1>4. \A x \in Int, n \in 1..HostBits : h[<<x, n>>] = x + Of(n)
  OBVIOUS
<1> HIDE DEF h
<1>5. PICK g \in [0..HostBits -> Int] : Recursion(g, HostBits, 0, h)
  BY <1>1, <1>3, RecursionExists
<1>6. P(g)
  <2>1. ASSUME NEW n \in 0..HostBits
        PROVE  g[n] = IF n = 0 THEN 0 ELSE g[n - 1] + Of(n)
    <3>1. CASE n = 0
      BY <1>5, <3>1 DEF Recursion
    <3>2. CASE n # 0
      <4>1. n \in 1..HostBits /\ n - 1 \in 0..HostBits
        BY <1>1, <3>2
      <4> QED
        BY <1>4, <1>5, <3>2, <4>1 DEF Recursion
    <3> QED
      BY <3>1, <3>2
  <2>2. g = [n \in 0..HostBits |-> IF n = 0 THEN 0 ELSE g[n - 1] + Of(n)]
    BY <2>1
  <2> QED
    BY <2>2
<1> DEFINE low == CHOOSE f : P(f)
<1>7. P(low)
  BY <1>6
<1>8. \A n \in 0..HostBits : low[n] \in Int
  <2> HIDE DEF low
  <2> DEFINE Bad == {n \in 0..HostBits : low[n] \notin Int}
  <2>1. SUFFICES ASSUME Bad # {} PROVE FALSE
    OBVIOUS
  <2> DEFINE m == Min(Bad)
  <2>2. m \in Bad /\ \A x \in Bad : m =< x
    <3>1. Bad \in SUBSET Nat
      BY <1>1
    <3> HIDE DEF Bad
    <3> QED
      BY <2>1, <3>1, MinOf
  <2> HIDE DEF m
  <2>3. low[0] = 0 /\ \A n \in 1..HostBits : low[n] = low[n - 1] + Of(n)
    BY <1>1, <1>7
  <2>4. m \in 1..HostBits /\ m - 1 \in 0..HostBits /\ m - 1 \notin Bad
    BY <1>1, <2>2, <2>3
  <2> QED
    BY <1>2, <2>2, <2>3, <2>4
<1>9. Bitwise(op, p, q) = low[HostBits]
  BY DEF Bitwise, Of
<1> QED
  BY <1>1, <1>8, <1>9

Forms == {"literal", "const", "tree", "trap"}

Fractions == Int \X (Nat \ {0})

InRange(t, bits) ==
  /\ t.kind = "int"   => bits \in Patterns(t)
  /\ t.kind = "bool"  => bits \in {0, 1}
  /\ t.kind = "float" => bits \in Fractions

IsNode(c) ==
  /\ c = [form |-> c.form, type |-> c.type, bits |-> c.bits, exact |-> c.exact]
  /\ c.form \in Forms /\ c.type \in ValueTypes /\ c.exact \in BOOLEAN
  /\ InRange(c.type, c.bits)
  /\ c.form = "trap" => ~c.exact

(* A type is known by its kind, an integer's apart.                        *)
LEMMA ValueTypeOf ==
  ASSUME NEW t \in ValueTypes
  PROVE  /\ t.kind \in {"int", "float", "bool"}
         /\ t.kind = "int" <=> t \in IntTypes
         /\ t.kind = "float" <=> t = Float
         /\ t.kind = "bool" <=> t = BoolType
<1>1. \A s \in IntTypes : s.kind = "int"
  BY IntTypeOf
<1>2. Float.kind = "float" /\ BoolType.kind = "bool"
  BY DEF Float, FloatType, BoolType
<1> QED
  BY <1>1, <1>2 DEF ValueTypes

(* A node of a value in its type's range is one, whether folded or not.    *)
LEMMA NodeOf ==
  ASSUME NEW t \in ValueTypes, NEW folds \in BOOLEAN, NEW bits, NEW exact \in BOOLEAN, InRange(t, bits)
  PROVE  /\ IsNode(Node(folds, t, bits, exact)) /\ Node(folds, t, bits, exact).type = t
         /\ Node(folds, t, bits, exact).bits = bits /\ Node(folds, t, bits, exact).exact = exact
  BY DEF Node, IsNode, Forms

(* The value of a node that is not followed any further is in range.       *)
LEMMA ZeroInRange ==
  ASSUME NEW t \in ValueTypes
  PROVE  InRange(t, Zero(t))
<1>1. t \in IntTypes => Power2[t.bits] \in Nat \ {0}
  BY IntTypeOf
<1>2. 0 \in Int /\ 1 \in Nat \ {0} /\ <<0, 1>> \in Fractions
  BY DEF Fractions
<1> QED
  BY <1>1, <1>2, ValueTypeOf DEF InRange, Zero, Patterns

(* A node with another form or exactness.                                  *)
LEMMA NodeWith ==
  ASSUME NEW c, NEW x, c = [form |-> c.form, type |-> c.type, bits |-> c.bits, exact |-> c.exact]
  PROVE  /\ [c EXCEPT !.form = x] = [form |-> x, type |-> c.type, bits |-> c.bits, exact |-> c.exact]
         /\ [c EXCEPT !.exact = x] = [form |-> c.form, type |-> c.type, bits |-> c.bits, exact |-> x]
<1>1. c \in [form : {c.form}, type : {c.type}, bits : {c.bits}, exact : {c.exact}]
  OBVIOUS
<1>2. [c EXCEPT !.form = x] = [form |-> x, type |-> c.type, bits |-> c.bits, exact |-> c.exact]
  <2>1. /\ [c EXCEPT !.form = x]
             \in [form : {c.form, x}, type : {c.type}, bits : {c.bits}, exact : {c.exact}]
        /\ [c EXCEPT !.form = x].form = x
    BY <1>1
  <2> QED
    BY <2>1
<1>3. [c EXCEPT !.exact = x] = [form |-> c.form, type |-> c.type, bits |-> c.bits, exact |-> x]
  <2>1. /\ [c EXCEPT !.exact = x]
             \in [form : {c.form}, type : {c.type}, bits : {c.bits}, exact : {c.exact, x}]
        /\ [c EXCEPT !.exact = x].exact = x
    BY <1>1
  <2> QED
    BY <2>1
<1> QED
  BY <1>2, <1>3

(* A node that is not followed any further is never exact.                 *)
LEMMA TreeOf ==
  ASSUME NEW t \in ValueTypes
  PROVE  /\ IsNode(Tree(t)) /\ Tree(t).type = t /\ ~Tree(t).exact /\ Tree(t).form = "tree"
         /\ IsNode(Trap(t)) /\ Trap(t).type = t /\ ~Trap(t).exact
<1>1. InRange(t, Zero(t))
  BY ZeroInRange
<1>2. Trap(t) = [form |-> "trap", type |-> t, bits |-> Zero(t), exact |-> FALSE]
  <2> DEFINE c == Tree(t)
  <2>1. /\ c = [form |-> c.form, type |-> c.type, bits |-> c.bits, exact |-> c.exact]
        /\ c.type = t /\ c.bits = Zero(t) /\ c.exact = FALSE
    BY DEF Tree
  <2>2. Trap(t) = [c EXCEPT !.form = "trap"]
    BY DEF Trap
  <2> HIDE DEF c
  <2>3. [c EXCEPT !.form = "trap"] = [form |-> "trap", type |-> c.type, bits |-> c.bits, exact |-> c.exact]
    BY <2>1, NodeWith
  <2> QED
    BY <2>1, <2>2, <2>3
<1>3. Tree(t) = [form |-> "tree", type |-> t, bits |-> Zero(t), exact |-> FALSE]
  BY DEF Tree
<1> DEFINE z == Zero(t)
<1> HIDE DEF z
<1>4. InRange(t, z)
  BY <1>1 DEF z
<1>5. /\ IsNode([form |-> "tree", type |-> t, bits |-> z, exact |-> FALSE])
      /\ IsNode([form |-> "trap", type |-> t, bits |-> z, exact |-> FALSE])
  BY <1>4 DEF IsNode, Forms
<1> QED
  BY <1>2, <1>3, <1>5 DEF z

-----------------------------------------------------------------------------
(* The result of integers is a pattern of its type.                        *)
LEMMA IntResultOf ==
  ASSUME NEW t \in IntTypes, NEW op \in IntOps, NEW a \in Int, NEW b \in Int,
         op \in {"IDIV", "IMOD"} => b # 0,
         op \in {"SHL", "SHR"} => b \in 0..(HostBits - 1)
  PROVE  IntResult(op, t, a, b) \in Patterns(t)
<1> DEFINE Of(n) == Pattern(t, n) \in Patterns(t)
<1>1. \A n \in Int : Of(n)
  BY PatternOf
<1>2. op = "IDIV" => Quotient(a, b) \in Int
  BY QuotientOf
<1>3. op = "IMOD" => a - b * Quotient(a, b) \in Int
  <2>1. op = "IMOD" => Quotient(a, b) \in Int
    BY QuotientOf
  <2>2. \A q \in Int : a - b * q \in Int
    OBVIOUS
  <2> QED
    BY <2>1, <2>2
<1>4. op \in {"SHL", "SHR"} => Power2[b] \in Nat \ {0}
  <2>1. op \in {"SHL", "SHR"} => b \in 0..HostBits
    BY ExprAssumption
  <2> QED
    BY <2>1, Power2Of
<1>5. op = "SHL" => a * Power2[b] \in Int
  <2>1. \A k \in Nat : a * k \in Int
    OBVIOUS
  <2> QED
    BY <1>4, <2>1
<1>6. op = "SHR" => a \div Power2[b] \in Int
  <2>1. \A k \in Nat \ {0} : a \div k \in Int
    OBVIOUS
  <2> QED
    BY <1>4, <2>1
<1>7. op \in {"AND", "OR", "XOR"} => Bitwise(op, Pattern(t, a), Pattern(t, b)) \in Int
  <2>1. Pattern(t, a) \in Int /\ Pattern(t, b) \in Int
    BY <1>1, OwnPattern
  <2> QED
    BY <2>1, BitwiseOf DEF BitwiseOps
<1>8. a + b \in Int /\ a - b \in Int /\ a * b \in Int
  OBVIOUS
<1> DEFINE v == CASE op = "+" -> a + b [] op = "-" -> a - b [] op = "*" -> a * b
                  [] op = "IDIV" -> Quotient(a, b)
                  [] op = "IMOD" -> a - b * Quotient(a, b)
                  [] op = "SHL" -> a * Power2[b]
                  [] op = "SHR" -> a \div Power2[b]
                  [] op \in {"AND", "OR", "XOR"} -> Bitwise(op, Pattern(t, a), Pattern(t, b))
<1>9. v \in Int
  <2> op \in {"+", "-", "*", "IDIV", "IMOD", "SHL", "SHR", "AND", "OR", "XOR"}
    BY DEF IntOps, BitOps
  <2>1. CASE op \in {"+", "-", "*"}
    BY <1>8, <2>1
  <2>2. CASE op \in {"IDIV", "IMOD"}
    BY <1>2, <1>3, <2>2
  <2>3. CASE op \in {"SHL", "SHR"}
    BY <1>5, <1>6, <2>3
  <2>4. CASE op \in {"AND", "OR", "XOR"}
    BY <1>7, <2>4
  <2> QED
    BY <2>1, <2>2, <2>3, <2>4
<1>10. IntResult(op, t, a, b) = Pattern(t, v)
  BY DEF IntResult
<1> HIDE DEF v
<1> QED
  BY <1>1, <1>9, <1>10

Congruent(m, x, y) == \E j \in Int : y = x + m * j

(* Numbers that differ by multiples of 2^bits give the same result.        *)
LEMMA IntResultAlike ==
  ASSUME NEW t \in IntTypes, NEW op \in IntOps, NEW x \in Int, NEW y \in Int, NEW X, NEW Y,
         Congruent(Power2[t.bits], x, X), Congruent(Power2[t.bits], y, Y),
         op \notin {"IDIV", "IMOD", "SHR"},
         op = "SHL" => Y = y /\ y \in 0..(HostBits - 1)
  PROVE  IntResult(op, t, X, Y) = IntResult(op, t, x, y)
<1> DEFINE m == Power2[t.bits]
<1>0. op \in {"+", "-", "*", "SHL", "AND", "OR", "XOR"}
  BY DEF IntOps, BitOps
<1>1. m \in Nat \ {0}
  BY IntTypeOf
<1>9. PICK j \in Int, k \in Int : X = x + m * j /\ Y = y + m * k
  BY DEF Congruent
<1>2. \A n, i \in Int : Pattern(t, n + m * i) = Pattern(t, n)
  BY PatternOf
<1> HIDE DEF m
<1>3. X \in Int /\ Y \in Int
  BY <1>1, <1>9
<1>4. CASE op = "+"
  <2>1. X + Y = (x + y) + m * (j + k) /\ x + y \in Int /\ j + k \in Int
    BY <1>1, <1>9
  <2>2. Pattern(t, X + Y) = Pattern(t, x + y)
    BY <1>2, <2>1
  <2> QED
    BY <1>4, <2>2 DEF IntResult
<1>5. CASE op = "-"
  <2>1. X - Y = (x - y) + m * (j - k) /\ x - y \in Int /\ j - k \in Int
    BY <1>1, <1>9
  <2>2. Pattern(t, X - Y) = Pattern(t, x - y)
    BY <1>2, <2>1
  <2> QED
    BY <1>5, <2>2 DEF IntResult
<1>6. CASE op = "*"
  <2>1. X * Y = x * y + m * (x * k + j * y + m * j * k)
    BY <1>1, <1>9
  <2>2. x * y \in Int /\ x * k + j * y + m * j * k \in Int
    BY <1>1
  <2>3. Pattern(t, X * Y) = Pattern(t, x * y)
    BY <1>2, <2>1, <2>2
  <2> QED
    BY <1>6, <2>3 DEF IntResult
<1>7. CASE op = "SHL"
  <2>1. Y = y
    BY <1>7
  <2>2. Power2[y] \in Nat
    <3>1. y \in 0..HostBits
      BY <1>7, ExprAssumption
    <3> QED
      BY <3>1, Power2Of
  <2>3. \A p \in Nat : X * p = x * p + m * (j * p) /\ x * p \in Int /\ j * p \in Int
    BY <1>1, <1>9
  <2>4. Pattern(t, X * Power2[y]) = Pattern(t, x * Power2[y])
    BY <1>2, <2>2, <2>3
  <2>5. IntResult(op, t, X, Y) = IntResult(op, t, x, y)
    BY <1>7, <2>1, <2>4 DEF IntResult
  <2> QED
    BY <2>5
<1>8. CASE op \in {"AND", "OR", "XOR"}
  <2>1. Pattern(t, X) = Pattern(t, x) /\ Pattern(t, Y) = Pattern(t, y)
    BY <1>2, <1>9
  <2>2. IntResult(op, t, X, Y) = IntResult(op, t, x, y)
    BY <1>8, <2>1 DEF IntResult
  <2> QED
    BY <2>2
<1> QED
  BY <1>0, <1>4, <1>5, <1>6, <1>7, <1>8

(* Where an operator is defined its divisor is not zero and its shift is   *)
(* less than the compiler's width.                                         *)
LEMMA DefinedOf ==
  ASSUME NEW T \in IntTypes, NEW op \in IntOps, NEW a \in Int, NEW b \in Int, Defined(op, T, a, b)
  PROVE  /\ op \in {"IDIV", "IMOD"} => b # 0
         /\ op \in {"SHL", "SHR"} => b \in 0..(HostBits - 1)
<1>1. T.bits \in 1..HostBits /\ HostBits \in Nat
  BY IntTypeOf
<1>2. op \in {"SHL", "SHR"} => b \in 0..(T.bits - 1)
  BY DEF Defined
<1>3. op \in {"IDIV", "IMOD"} => b # 0
  BY DEF Defined
<1> QED
  BY <1>1, <1>2, <1>3

(* What is defined for a type is defined for the compiler's own int.       *)
LEMMA DefinedInHost ==
  ASSUME NEW t \in IntTypes, NEW op \in IntOps, NEW p \in Patterns(t), NEW y \in Int,
         Defined(op, t, Number(t, p), y),
         IsHostUnsigned(t) => op \notin {"IDIV", "IMOD"}
  PROVE  Defined(op, HostInt, Number(t, p), y)
<1> DEFINE x == Number(t, p)
<1>1. /\ t.bits \in 1..HostBits /\ HostBits \in Nat \ {0} /\ t.signed \in BOOLEAN
      /\ HostInt.bits = HostBits /\ HostInt.signed = TRUE
  BY IntTypeOf, HostIntIs
<1>2. op \in {"SHL", "SHR"} => y \in 0..(HostBits - 1)
  BY DefinedOf, NumberOf, OwnPattern
<1>3. op \in {"IDIV", "IMOD"} => y # 0
  BY DEF Defined
<1>4. ASSUME op \in {"IDIV", "IMOD"}, y = -1
      PROVE  x # -Power2[HostBits - 1]
  <2>1. Power2[HostBits - 1] \in Nat \ {0} /\ Power2[t.bits - 1] \in Nat \ {0}
    BY IntTypeOf, HostIntIs
  <2>2. p \in Int
    BY OwnPattern
  <2>3. CASE t.signed /\ t.bits = HostBits
    BY <1>4, <2>3 DEF Defined
  <2>4. CASE t.signed /\ t.bits # HostBits
    <3>1. t.bits - 1 \in 0..HostBits /\ HostBits - 1 \in ((t.bits - 1) + 1)..HostBits
      BY <1>1, <2>4
    <3>2. Power2[t.bits - 1] < Power2[HostBits - 1]
      BY <3>1, Power2Grows
    <3>3. x \in (-Power2[t.bits - 1])..(Power2[t.bits - 1] - 1)
      BY <2>2, <2>4, NumberOf
    <3> HIDE DEF x
    <3> QED
      BY <2>1, <3>2, <3>3
  <2>5. CASE ~t.signed
    <3>1. x = p
      BY <2>2, <2>5, NumberOf
    <3>2. p >= 0
      BY DEF Patterns
    <3> HIDE DEF x
    <3> QED
      BY <2>1, <2>2, <3>1, <3>2
  <2> QED
    BY <2>3, <2>4, <2>5
<1> QED
  BY <1>1, <1>2, <1>3, <1>4 DEF Defined

(* The node of an operator with two integers.                              *)
LEMMA IntNodeOf ==
  ASSUME NEW t \in IntTypes, NEW op \in IntOps, NEW folds \in BOOLEAN, NEW a, NEW b,
         IsNode(a), IsNode(b), IsInt(a), IsInt(b)
  PROVE  LET n == IntNode(folds, op, t, a, b)
         IN  IsNode(n) /\ n.type = t /\ (n.exact => a.exact /\ b.exact /\ a.type.bits = b.type.bits)
<1> DEFINE Of(c) == IF folds THEN HostValue(t, Pattern(t, HostValue(c.type, c.bits))) ELSE Number(t, c.bits)
           x == Of(a)
           y == Of(b)
           T == IF folds THEN HostInt ELSE t
           v == IF Defined(op, T, x, y) THEN IntResult(op, t, x, y) ELSE 0
           e == /\ a.exact /\ b.exact /\ a.type.bits = b.type.bits
                /\ Defined(op, t, x, y)
                /\ ~(folds /\ IsHostUnsigned(t) /\ op \in {"IDIV", "IMOD", "SHR"})
           n == IntNode(folds, op, t, a, b)
<1>1. \A c : IsNode(c) /\ IsInt(c) => Of(c) \in Int
  <2> SUFFICES ASSUME NEW c, IsNode(c), IsInt(c)
               PROVE  Of(c) \in Int
    OBVIOUS
  <2>1. c.type \in IntTypes /\ c.bits \in Patterns(c.type)
    BY ValueTypeOf DEF IsNode, IsInt, InRange
  <2>2. c.bits \in Int /\ HostValue(c.type, c.bits) \in Int
    BY <2>1, OwnPattern, NumberOf
  <2>3. Pattern(t, HostValue(c.type, c.bits)) \in Int
    BY <2>2, PatternOf, OwnPattern
  <2> QED
    BY <2>2, <2>3, NumberOf
<1>2. x \in Int /\ y \in Int
  <2> HIDE DEF Of
  <2> QED
    BY <1>1
<1>3. n = IF folds /\ Traps(op, t, x, y) THEN Trap(t) ELSE Node(folds, t, v, e)
  BY DEF IntNode
<1>4. T \in IntTypes
  BY HostIntIs
<1>5. v \in Patterns(t)
  <2>1. 0 \in Patterns(t)
    BY IntTypeOf DEF Patterns
  <2> HIDE DEF x, y, T
  <2> QED
    BY <1>2, <1>4, <2>1, DefinedOf, IntResultOf
<1>6. InRange(t, v) /\ t \in ValueTypes
  <2> HIDE DEF v
  <2> QED
    BY <1>5, IntTypeOf DEF InRange, ValueTypes
<1>7. e \in BOOLEAN
  BY DEF IsNode
<1>8. e => a.exact /\ b.exact /\ a.type.bits = b.type.bits
  OBVIOUS
<1> HIDE DEF v, e, x, y, n
<1> QED
  BY <1>3, <1>6, <1>7, <1>8, NodeOf, TreeOf DEF n

(* Folded or generated, an operator on integers of the type gives the same *)
(* value unless the node is one of the known cases.                        *)
LEMMA IntNodesAgree ==
  ASSUME NEW t \in IntTypes, NEW op \in IntOps, NEW folds \in BOOLEAN, NEW off \in BOOLEAN, ~off,
         NEW a, NEW b, NEW A, NEW B,
         IsNode(a), IsNode(b), IsInt(a), IsInt(b), a.type.bits = t.bits,
         a.bits = A.bits, b.bits = B.bits,
         IntNode(folds, op, t, a, b).exact, IntNode(off, op, t, A, B).exact
  PROVE  IntNode(folds, op, t, a, b).bits = IntNode(off, op, t, A, B).bits
<1> DEFINE x == Number(t, a.bits)
           y == Number(t, b.bits)
           X == HostValue(t, a.bits)
           Y == HostValue(t, b.bits)
<1>1. /\ a.type \in IntTypes /\ a.bits \in Patterns(a.type)
      /\ b.type \in IntTypes /\ b.bits \in Patterns(b.type)
  BY ValueTypeOf DEF IsNode, IsInt, InRange
<1>2. b.type.bits = t.bits
  BY IntNodeOf
<1>3. a.bits \in Patterns(t) /\ b.bits \in Patterns(t) /\ a.bits \in Int /\ b.bits \in Int
  BY <1>1, <1>2, OwnPattern DEF Patterns
<1>4. x \in Int /\ y \in Int /\ X \in Int /\ Y \in Int
  BY <1>3, NumberOf
<1>5. /\ IntNode(off, op, t, A, B).bits = IntResult(op, t, x, y)
      /\ Defined(op, t, x, y)
  <2>1. off = FALSE
    OBVIOUS
  <2> QED
    BY <2>1 DEF IntNode, Node
<1>6. CASE folds = FALSE
  <2>1. IntNode(FALSE, op, t, a, b).bits = IntResult(op, t, x, y)
    BY <1>5, <1>6 DEF IntNode, Node
  <2> QED
    BY <1>5, <1>6, <2>1
<1>7. CASE folds = TRUE
  <2>1. /\ Pattern(t, HostValue(a.type, a.bits)) = a.bits
        /\ Pattern(t, HostValue(b.type, b.bits)) = b.bits
    <3>1. \A s \in IntTypes : \A n : s.bits = t.bits => Pattern(t, n) = Pattern(s, n)
      BY DEF Pattern
    <3> QED
      BY <1>1, <1>2, <3>1, OwnPattern
  <2>2. /\ HostValue(t, Pattern(t, HostValue(a.type, a.bits))) = X
        /\ HostValue(t, Pattern(t, HostValue(b.type, b.bits))) = Y
    BY <2>1
  <2> DEFINE F == IntNode(TRUE, op, t, a, b)
             e == /\ a.exact /\ b.exact /\ a.type.bits = b.type.bits
                  /\ Defined(op, t, X, Y)
                  /\ ~(TRUE /\ IsHostUnsigned(t) /\ op \in {"IDIV", "IMOD", "SHR"})
             v == IF Defined(op, HostInt, X, Y) THEN IntResult(op, t, X, Y) ELSE 0
  <2>3. F = IF Traps(op, t, X, Y) THEN Trap(t) ELSE Node(TRUE, t, v, e)
    <3> HIDE DEF X, Y
    <3> QED
      BY <2>2 DEF IntNode
  <2>4. ~Trap(t).exact
    BY TreeOf, IntTypeOf DEF ValueTypes
  <2>5. e /\ F.bits = v
    <3>1. F.exact
      BY <1>7
    <3> HIDE DEF e, v, X, Y, F
    <3>2. F = Node(TRUE, t, v, e)
      BY <2>3, <2>4, <3>1
    <3>3. F.exact = e /\ F.bits = v
      BY <3>2 DEF Node
    <3> QED
      BY <3>1, <3>3
  <2>6. Defined(op, t, X, Y) /\ (IsHostUnsigned(t) => op \notin {"IDIV", "IMOD", "SHR"})
    BY <2>5
  <2>7. v = IntResult(op, t, x, y)
    <3>1. CASE ~IsHostUnsigned(t)
      <4>1. X = x /\ Y = y
        BY <1>3, <3>1, NumberOf
      <4>2. Defined(op, HostInt, x, y)
        BY <1>3, <1>4, <1>5, <3>1, DefinedInHost
      <4> HIDE DEF x, y, X, Y
      <4> QED
        BY <4>1, <4>2
    <3>2. CASE IsHostUnsigned(t)
      <4>1. t.bits = HostBits /\ op \notin {"IDIV", "IMOD", "SHR"}
        BY <2>6, <3>2 DEF IsHostUnsigned
      <4>2. Defined(op, HostInt, X, Y)
        <5> HIDE DEF X, Y
        <5> QED
          BY <2>6, <4>1, HostIntIs DEF Defined
      <4>3. x = a.bits /\ y = b.bits
        BY <1>3, <3>2, NumberOf
      <4>4. Power2[t.bits] \in Nat \ {0}
        BY IntTypeOf
      <4>5. /\ X = a.bits \/ X = a.bits - Power2[t.bits]
            /\ Y = b.bits \/ Y = b.bits - Power2[t.bits]
        BY <1>3, NumberOf
      <4> HIDE DEF x, y, X, Y
      <4>6. Congruent(Power2[t.bits], x, X)
        <5>1. X = x + Power2[t.bits] * 0 \/ X = x + Power2[t.bits] * (-1)
          BY <1>4, <4>3, <4>4, <4>5
        <5> QED
          BY <5>1 DEF Congruent
      <4>7. Congruent(Power2[t.bits], y, Y)
        <5>1. Y = y + Power2[t.bits] * 0 \/ Y = y + Power2[t.bits] * (-1)
          BY <1>4, <4>3, <4>4, <4>5
        <5> QED
          BY <5>1 DEF Congruent
      <4>8. op = "SHL" => Y = y /\ y \in 0..(HostBits - 1)
        <5>1. op = "SHL" => Y \in 0..(HostBits - 1) /\ y \in 0..(HostBits - 1)
          BY <1>4, <1>5, <2>6, DefinedOf
        <5>2. b.bits < Power2[t.bits] /\ b.bits >= 0
          BY <1>3, <4>4 DEF Patterns
        <5> QED
          BY <1>3, <4>3, <4>4, <4>5, <5>1, <5>2
      <4>9. IntResult(op, t, X, Y) = IntResult(op, t, x, y)
        <5>1. op \notin {"IDIV", "IMOD", "SHR"} /\ x \in Int /\ y \in Int
          BY <1>4, <4>1
        <5> QED
          BY <4>6, <4>7, <4>8, <5>1, IntResultAlike
      <4> QED
        BY <4>2, <4>9
    <3> QED
      BY <3>1, <3>2
  <2> HIDE DEF v, x, y
  <2> QED
    BY <1>5, <1>7, <2>5, <2>7
<1> QED
  BY <1>6, <1>7

(* A fraction in lowest terms has a positive denominator.                  *)
LEMMA FractionOf ==
  ASSUME NEW n \in Int, NEW d \in Int, d # 0
  PROVE  Fraction(n, d) \in Fractions
<1> DEFINE sign == IF d < 0 THEN -1 ELSE 1
           a == d * sign
           S == {k \in 1..a : n % k = 0 /\ d % k = 0}
           g == IF n = 0 THEN a ELSE Max(S)
<1>1. a \in Nat \ {0} /\ sign \in Int
  OBVIOUS
<1>2. g \in 1..a
  <2>1. CASE n = 0
    <3> HIDE DEF a
    <3> QED
      BY <1>1, <2>1
  <2>2. CASE n # 0
    <3> HIDE DEF a
    <3>1. 1 \in S
      BY <1>1
    <3>2. S \in SUBSET (1..a) /\ a \in Nat
      BY <1>1
    <3> HIDE DEF S
    <3> QED
      BY <2>2, <3>1, <3>2, MaxOf
  <2> QED
    BY <2>1, <2>2
<1>3. Fraction(n, d) = <<(n * sign) \div g, a \div g>>
  BY DEF Fraction
<1>4. n * sign \in Int
  BY <1>1
<1> DEFINE b == n * sign
<1> HIDE DEF a, g, b
<1>5. b \div g \in Int /\ a \div g \in Nat \ {0}
  <2>1. b \div g \in Int /\ a \div g \in Int
    BY <1>1, <1>2, <1>4 DEF b
  <2>2. a \div g # 0 /\ a \div g >= 0
    BY <1>1, <1>2
  <2> QED
    BY <2>1, <2>2
<1> QED
  BY <1>3, <1>5 DEF Fractions, b

(* The result of floats is a float.                                        *)
LEMMA FloatResultOf ==
  ASSUME NEW op \in FloatOps, NEW x \in Fractions, NEW y \in Fractions
  PROVE  FloatResult(op, x, y) \in Fractions
<1>1. x[1] \in Int /\ x[2] \in Nat \ {0} /\ y[1] \in Int /\ y[2] \in Nat \ {0}
  BY DEF Fractions
<1>2. /\ \A m, n \in Int : m * n \in Int
      /\ \A m, n \in Int : m # 0 /\ n # 0 => m * n # 0
  OBVIOUS
<1>3. \A m, n \in Int : m + n \in Int /\ m - n \in Int
  OBVIOUS
<1>4. CASE op = "+"
  <2>1. x[1] * y[2] + y[1] * x[2] \in Int /\ x[2] * y[2] \in Int /\ x[2] * y[2] # 0
    BY <1>1, <1>2, <1>3
  <2> QED
    BY <1>4, <2>1, FractionOf DEF FloatResult
<1>5. CASE op = "-"
  <2>1. x[1] * y[2] - y[1] * x[2] \in Int /\ x[2] * y[2] \in Int /\ x[2] * y[2] # 0
    BY <1>1, <1>2, <1>3
  <2> QED
    BY <1>5, <2>1, FractionOf DEF FloatResult
<1>6. CASE op = "*"
  <2>1. x[1] * y[1] \in Int /\ x[2] * y[2] \in Int /\ x[2] * y[2] # 0
    BY <1>1, <1>2
  <2> QED
    BY <1>6, <2>1, FractionOf DEF FloatResult
<1>7. CASE op = "/"
  <2>1. CASE y[1] = 0
    BY <1>7, <2>1 DEF FloatResult, Fractions
  <2>2. CASE y[1] # 0
    <3>1. x[1] * y[2] \in Int /\ x[2] * y[1] \in Int /\ x[2] * y[1] # 0
      BY <1>1, <1>2, <2>2
    <3> QED
      BY <1>7, <2>2, <3>1, FractionOf DEF FloatResult
  <2> QED
    BY <2>1, <2>2
<1> QED
  BY <1>4, <1>5, <1>6, <1>7 DEF FloatOps

(* A rounded float is an integer.                                          *)
LEMMA RoundedOf ==
  ASSUME NEW mode \in RoundModes, NEW x \in Fractions
  PROVE  Rounded(mode, x) \in Int
<1>1. x[1] \in Int /\ x[2] \in Nat \ {0}
  BY DEF Fractions
<1>2. \A m \in Int, n \in Nat \ {0} : m \div n \in Int
  OBVIOUS
<1>3. /\ x[1] \div x[2] \in Int /\ (-x[1]) \div x[2] \in Int
      /\ (2 * x[1] + x[2]) \div (2 * x[2]) \in Int /\ (-2 * x[1] + x[2]) \div (2 * x[2]) \in Int
  <2>1. /\ -x[1] \in Int /\ 2 * x[1] + x[2] \in Int /\ -2 * x[1] + x[2] \in Int
        /\ 2 * x[2] \in Nat \ {0}
    BY <1>1
  <2> QED
    BY <1>1, <1>2, <2>1
<1>4. \A m \in Int : -m \in Int
  OBVIOUS
<1> QED
  BY <1>3, <1>4 DEF Rounded, RoundModes

(* A number's value as a float.                                            *)
LEMMA FloatOfNode ==
  ASSUME NEW c, IsNode(c), IsInt(c) \/ IsFloat(c)
  PROVE  FloatOf(c) \in Fractions
<1>1. CASE IsFloat(c)
  BY <1>1 DEF IsNode, InRange, IsFloat, FloatOf
<1>2. CASE ~IsFloat(c)
  <2>1. c.type \in IntTypes /\ c.bits \in Patterns(c.type)
    BY <1>2, ValueTypeOf DEF IsNode, IsInt, InRange
  <2>2. HostValue(c.type, c.bits) \in Int
    BY <2>1, NumberOf, OwnPattern
  <2>3. <<HostValue(c.type, c.bits), 1>> \in Int \X (Nat \ {0})
    BY <2>2
  <2> QED
    BY <1>2, <2>3 DEF FloatOf, Fractions
<1> QED
  BY <1>1, <1>2

-----------------------------------------------------------------------------
(* Conversions.                                                            *)

Likes(s, t) == s.kind = t.kind /\ (s.kind = "int" => s.bits = t.bits)

CanConvert(goal, seen) ==
  \/ goal = seen
  \/ goal.kind = "int" /\ seen.kind \in {"int", "bool"}
  \/ goal.kind = "float" /\ seen.kind = "int"

(* A conversion gives a node of the type converted to.                     *)
LEMMA ConvNodeOf ==
  ASSUME NEW folding \in BOOLEAN, NEW t \in ValueTypes, NEW c, IsNode(c),
         \/ t.kind = "int" /\ c.type.kind \in {"int", "bool"}
         \/ t.kind = "float" /\ c.type.kind = "int"
  PROVE  LET n == ConvNode(folding, t, c)
         IN  IsNode(n) /\ n.type = t /\ (n.exact => c.exact)
<1> DEFINE folds == folding /\ IsConst(c)
           v == IF IsBool(c) THEN c.bits
                ELSE IF folds THEN HostValue(c.type, c.bits) ELSE Number(c.type, c.bits)
           b == IF IsFloat(c) THEN c.bits ELSE IF t.kind = "float" THEN <<v, 1>> ELSE Pattern(t, v)
           e == c.exact /\ ~(folds /\ t.kind = "float" /\ IsHostUnsigned(c.type))
           n == ConvNode(folding, t, c)
<1>1. n = IF c.form = "trap" THEN Trap(t) ELSE Node(folds, t, b, e)
  BY DEF ConvNode
<1>2. ~IsFloat(c)
  BY DEF IsFloat
<1>3. v \in Int
  <2>1. CASE IsBool(c)
    BY <2>1 DEF IsNode, InRange, IsBool
  <2>2. CASE ~IsBool(c)
    <3>1. c.type \in IntTypes /\ c.bits \in Patterns(c.type)
      BY <2>2, ValueTypeOf DEF IsNode, InRange, IsBool
    <3> QED
      BY <2>2, <3>1, NumberOf, OwnPattern
  <2> QED
    BY <2>1, <2>2
<1> HIDE DEF v
<1>4. InRange(t, b)
  <2>1. CASE t.kind = "int"
    <3>1. t \in IntTypes /\ b = Pattern(t, v)
      BY <1>2, <2>1, ValueTypeOf
    <3> HIDE DEF b
    <3> QED
      BY <1>3, <2>1, <3>1, PatternOf DEF InRange
  <2>2. CASE t.kind = "float"
    <3>1. b = <<v, 1>> /\ <<v, 1>> \in Int \X (Nat \ {0})
      BY <1>2, <1>3, <2>2
    <3> HIDE DEF b
    <3> QED
      BY <2>2, <3>1 DEF InRange, Fractions
  <2> QED
    BY <2>1, <2>2
<1>5. folds \in BOOLEAN /\ e \in BOOLEAN /\ (e => c.exact)
  BY DEF IsNode
<1> HIDE DEF b, e, folds, n
<1> QED
  BY <1>1, <1>4, <1>5, NodeOf, TreeOf DEF n

(* So does a conversion that is left out because the types are the same.   *)
LEMMA ConvertedOf ==
  ASSUME NEW folding \in BOOLEAN, NEW goal \in ValueTypes, NEW seen \in ValueTypes, NEW c,
         IsNode(c), Likes(seen, c.type), CanConvert(goal, seen)
  PROVE  LET n == Converted(folding, goal, seen, c)
         IN  /\ IsNode(n) /\ (n.exact => c.exact)
             /\ Likes(goal, n.type)
             /\ seen = c.type => n.type = goal
<1>1. CASE goal = seen
  BY <1>1 DEF Converted
<1>2. CASE goal # seen
  <2> DEFINE n == ConvNode(folding, goal, c)
  <2>1. IsNode(n) /\ n.type = goal /\ (n.exact => c.exact)
    <3>1. \/ goal.kind = "int" /\ c.type.kind \in {"int", "bool"}
          \/ goal.kind = "float" /\ c.type.kind = "int"
      BY <1>2 DEF CanConvert, Likes
    <3> QED
      BY <3>1, ConvNodeOf
  <2>2. n = Converted(folding, goal, seen, c)
    BY <1>2 DEF Converted
  <2> HIDE DEF n
  <2> QED
    BY <2>1, <2>2 DEF Likes
<1> QED
  BY <1>1, <1>2

(* The type of a node that was converted from its own type.                *)
LEMMA ConvertedTo ==
  ASSUME NEW folding \in BOOLEAN, NEW goal \in ValueTypes, NEW c, IsNode(c), CanConvert(goal, c.type)
  PROVE  Converted(folding, goal, c.type, c).type = goal
<1>1. c.type \in ValueTypes /\ Likes(c.type, c.type)
  BY DEF IsNode, Likes
<1> QED
  BY <1>1, ConvertedOf

(* The operands of code and the operands without folding.                  *)
Same(c, p) == c.exact /\ p.exact /\ c.bits = p.bits /\ c.type = p.type

(* Conversions keep equal what is equal with and without folding.          *)
LEMMA ConvertedAgree ==
  ASSUME NEW goal \in ValueTypes, NEW seen, NEW c, NEW p, IsNode(c), IsNode(p),
         Same(c, p), seen = c.type, CanConvert(goal, seen),
         Converted(TRUE, goal, seen, c).exact, Converted(FALSE, goal, seen, p).exact
  PROVE  /\ Same(Converted(TRUE, goal, seen, c), Converted(FALSE, goal, seen, p))
         /\ Converted(TRUE, goal, seen, c).type = goal
<1>1. seen \in ValueTypes
  BY DEF IsNode
<1>2. c.exact /\ p.exact
  BY DEF Same
<1>3. Same(c, p) /\ seen = c.type
  OBVIOUS
<1>4. Converted(TRUE, goal, seen, c).type = goal /\ Converted(FALSE, goal, seen, p).type = goal
  <2>1. seen = c.type /\ seen = p.type
    BY <1>3 DEF Same
  <2>2. \A folding \in BOOLEAN : Converted(folding, goal, seen, c).type = goal
    BY <2>1, ConvertedTo
  <2>3. \A folding \in BOOLEAN : Converted(folding, goal, seen, p).type = goal
    BY <2>1, ConvertedTo
  <2> QED
    BY <2>2, <2>3
<1>5. Converted(TRUE, goal, seen, c).bits = Converted(FALSE, goal, seen, p).bits
  <2>1. CASE goal = seen
    BY <1>3, <2>1 DEF Converted, Same
  <2>2. CASE goal # seen
    <3> DEFINE n == ConvNode(TRUE, goal, c)
               q == ConvNode(FALSE, goal, p)
               folds == TRUE /\ IsConst(c)
               v == IF IsBool(c) THEN c.bits
                    ELSE IF folds THEN HostValue(c.type, c.bits) ELSE Number(c.type, c.bits)
               w == IF IsBool(c) THEN c.bits ELSE Number(c.type, c.bits)
               e == c.exact /\ ~(folds /\ goal.kind = "float" /\ IsHostUnsigned(c.type))
    <3>1. Converted(TRUE, goal, seen, c) = n /\ Converted(FALSE, goal, seen, p) = q
      BY <2>2 DEF Converted
    <3>2. n.exact /\ q.exact
      BY <1>3, <3>1 DEF Same
    <3>3. c.form # "trap" /\ p.form # "trap"
      BY <1>2 DEF IsNode
    <3>4. ~IsFloat(c) /\ ~IsFloat(p)
      BY <1>3, <2>2 DEF CanConvert, IsFloat, Same
    <3>5. n = Node(folds, goal, IF goal.kind = "float" THEN <<v, 1>> ELSE Pattern(goal, v), e)
      BY <3>3, <3>4 DEF ConvNode
    <3>6. q = Node(FALSE, goal, IF goal.kind = "float" THEN <<w, 1>> ELSE Pattern(goal, w), p.exact)
      BY <1>3, <3>3, <3>4 DEF ConvNode, Same, IsBool
    <3>7. /\ n.bits = IF goal.kind = "float" THEN <<v, 1>> ELSE Pattern(goal, v)
          /\ q.bits = IF goal.kind = "float" THEN <<w, 1>> ELSE Pattern(goal, w)
          /\ n.exact = e
      <4> HIDE DEF n, q, v, w, e, folds
      <4> QED
        BY <3>5, <3>6 DEF Node
    <3>8. e
      BY <3>2, <3>7
    <3>9. CASE goal.kind = "float"
      <4>1. c.type.kind = "int" /\ ~IsBool(c) /\ ~(folds /\ IsHostUnsigned(c.type))
        BY <1>3, <2>2, <3>8, <3>9 DEF CanConvert, IsBool
      <4>2. c.type \in IntTypes /\ c.bits \in Int
        BY <4>1, ValueTypeOf, OwnPattern DEF IsNode, InRange
      <4>3. v = w
        BY <4>1, <4>2, NumberOf
      <4> QED
        BY <3>1, <3>7, <4>3
    <3>10. CASE goal.kind # "float"
      <4>1. goal.kind = "int" /\ goal \in IntTypes /\ c.type.kind \in {"int", "bool"}
        BY <1>3, <2>2, <3>10, ValueTypeOf DEF CanConvert
      <4>2. Pattern(goal, v) = Pattern(goal, w)
        <5>1. CASE IsBool(c)
          BY <5>1
        <5>2. CASE ~IsBool(c)
          <6>1. c.type \in IntTypes /\ c.bits \in Patterns(c.type)
            BY <4>1, <5>2, ValueTypeOf DEF IsNode, InRange, IsBool
          <6> QED
            BY <4>1, <5>2, <6>1, ConvertedPattern
        <5> QED
          BY <5>1, <5>2
      <4> QED
        BY <3>1, <3>7, <3>10, <4>2
    <3> QED
      BY <3>9, <3>10
  <2> QED
    BY <2>1, <2>2
<1> QED
  BY <1>3, <1>4, <1>5 DEF Same

(* An operand as its type seen by the parser, its code and its code        *)
(* without folding.                                                        *)
Pair(t, c, p) ==
  /\ IsNode(c) /\ IsNode(p) /\ t \in ValueTypes
  /\ Likes(t, c.type) /\ p.type.kind = t.kind
  /\ c.exact /\ p.exact => Same(c, p) /\ t = c.type

(* Which conversions there are, by the kinds.                              *)
LEMMA CanConvertKinds ==
  ASSUME NEW goal \in ValueTypes, NEW seen \in ValueTypes
  PROVE  CanConvert(goal, seen) <=> \/ goal.kind = seen.kind
                                    \/ goal.kind = "int" /\ seen.kind = "bool"
                                    \/ goal.kind = "float" /\ seen.kind = "int"
  BY ValueTypeOf DEF CanConvert

(* Harmonized operands can be converted, and are of one kind and width.    *)
LEMMA HarmonizedOf ==
  ASSUME NEW lt \in ValueTypes, NEW rt \in ValueTypes
  PROVE  LET h == HarmonizeNumericOperands(lt, rt)
         IN  /\ h.ok <=> lt.kind \in Numeric /\ rt.kind \in Numeric
             /\ h.left \in ValueTypes /\ h.right \in ValueTypes
             /\ CanConvert(h.left, lt) /\ CanConvert(h.right, rt)
             /\ h.ok \/ lt = rt => Likes(h.left, h.right)
             /\ h.left.kind = IF lt.kind = "int" /\ rt.kind = "float" THEN "float" ELSE lt.kind
             /\ h.right.kind = IF lt.kind = "float" /\ rt.kind = "int" THEN "float" ELSE rt.kind
<1> DEFINE h == HarmonizeNumericOperands(lt, rt)
<1>1. /\ lt.kind \in {"int", "float", "bool"} /\ rt.kind \in {"int", "float", "bool"}
      /\ \A t \in ValueTypes : t.kind = "float" => t = Float
  BY ValueTypeOf
<1>2. /\ lt.kind = "int" => lt.bits \in Nat
      /\ rt.kind = "int" => rt.bits \in Nat
  BY ValueTypeOf, IntTypeOf
<1>3. CASE lt.kind = "int" /\ rt.kind = "int"
  <2>1. h = [ok |-> TRUE, left  |-> IF lt.bits < rt.bits THEN rt ELSE lt,
                          right |-> IF rt.bits < lt.bits THEN lt ELSE rt]
    BY <1>3 DEF HarmonizeNumericOperands, Numeric
  <2> HIDE DEF h
  <2> QED
    BY <1>2, <1>3, <2>1 DEF Numeric, CanConvert, Likes, h
<1>4. CASE lt.kind = "float" /\ rt.kind = "float"
  <2>1. lt = Float /\ rt = Float
    BY <1>1, <1>4
  <2>2. h = [ok |-> TRUE, left |-> lt, right |-> rt]
    BY <1>4, <2>1 DEF HarmonizeNumericOperands, Numeric
  <2> QED
    BY <1>4, <2>1, <2>2 DEF Numeric, CanConvert, Likes
<1>5. CASE lt.kind = "int" /\ rt.kind = "float"
  <2>1. h = [ok |-> TRUE, left |-> rt, right |-> rt]
    BY <1>5 DEF HarmonizeNumericOperands, Numeric
  <2> QED
    BY <1>5, <2>1 DEF Numeric, CanConvert, Likes
<1>6. CASE lt.kind = "float" /\ rt.kind = "int"
  <2>1. h = [ok |-> TRUE, left |-> lt, right |-> lt]
    BY <1>6 DEF HarmonizeNumericOperands, Numeric
  <2> QED
    BY <1>6, <2>1 DEF Numeric, CanConvert, Likes
<1>7. CASE lt.kind = "bool" \/ rt.kind = "bool"
  <2>1. h = [ok |-> FALSE, left |-> lt, right |-> rt]
    BY <1>7 DEF HarmonizeNumericOperands, Numeric
  <2> QED
    BY <1>7, <2>1 DEF Numeric, CanConvert, Likes
<1> QED
  BY <1>1, <1>3, <1>4, <1>5, <1>6, <1>7

(* The types CreateBinExpr converts to: only a bit operator and a division *)
(* may have operands of two widths.                                        *)
LEMMA BinGoalsOf ==
  ASSUME NEW op \in BinOps, NEW lt \in ValueTypes, NEW rt \in ValueTypes, AcceptsBin(op, lt, rt)
  PROVE  LET g == BinGoals(op, lt, rt)
         IN  /\ g.left \in ValueTypes /\ g.right \in ValueTypes /\ g.type \in ValueTypes
             /\ CanConvert(g.left, lt) /\ CanConvert(g.right, rt)
             /\ g.type.kind = "int" => op \in IntOps /\ g.left = g.type /\ g.right.kind = "int"
             /\ op \notin BitOps \cup {"/"} => Likes(g.left, g.right)
             /\ g.type.kind = IF op = "/" /\ lt.kind = "int" /\ rt.kind = "int" THEN "float"
                              ELSE IF lt.kind = "int" /\ rt.kind = "float" THEN "float" ELSE lt.kind
<1> DEFINE g == BinGoals(op, lt, rt)
           h == HarmonizeNumericOperands(lt, rt)
           ints == lt.kind = "int" /\ rt.kind = "int"
           floats == op = "/" /\ ints /\ lt.bits = rt.bits
           left == CASE op \in BitOps -> lt [] floats -> Float [] OTHER -> h.left
           right == CASE op \in BitOps -> rt [] floats -> Float [] OTHER -> h.right
<1>1. g = [left |-> left, right |-> right, type |-> IF op = "/" /\ ints THEN Float ELSE left]
  BY DEF BinGoals
<1>2. Float \in ValueTypes /\ Float.kind = "float"
  BY DEF ValueTypes, Float, FloatType
<1>3. /\ h.ok <=> lt.kind \in Numeric /\ rt.kind \in Numeric
      /\ h.left \in ValueTypes /\ h.right \in ValueTypes
      /\ CanConvert(h.left, lt) /\ CanConvert(h.right, rt)
      /\ h.ok \/ lt = rt => Likes(h.left, h.right)
      /\ h.left.kind = IF lt.kind = "int" /\ rt.kind = "float" THEN "float" ELSE lt.kind
      /\ h.right.kind = IF lt.kind = "float" /\ rt.kind = "int" THEN "float" ELSE rt.kind
  BY HarmonizedOf
<1>4. lt.kind \in {"int", "float", "bool"} /\ rt.kind \in {"int", "float", "bool"}
  BY ValueTypeOf
<1>5. CASE op \in BitOps
  <2>1. lt.kind = "int" /\ rt.kind = "int" /\ op # "/" /\ op \in IntOps
    BY <1>5 DEF AcceptsBin, BitOps, IntOps
  <2>2. g = [left |-> lt, right |-> rt, type |-> lt]
    BY <1>1, <1>5, <2>1
  <2> QED
    BY <1>5, <2>1, <2>2 DEF CanConvert
<1>6. CASE op \notin BitOps /\ floats
  <2>1. g = [left |-> Float, right |-> Float, type |-> Float]
    BY <1>1, <1>6
  <2>2. CanConvert(Float, lt) /\ CanConvert(Float, rt)
    BY <1>2, <1>6 DEF CanConvert
  <2> QED
    BY <1>2, <1>6, <2>1, <2>2
<1>7. CASE op \notin BitOps /\ ~floats
  <2>1. g = [left |-> h.left, right |-> h.right, type |-> IF op = "/" /\ ints THEN Float ELSE h.left]
    BY <1>1, <1>7
  <2>2. /\ h.left.kind = "int" => (op = "/" /\ ints) \/ (op \in IntOps /\ h.right.kind = "int")
        /\ Likes(h.left, h.right)
    <3>1. h.ok \/ lt.kind = rt.kind
      BY <1>7 DEF AcceptsBin
    <3>2. lt.kind = "bool" /\ rt.kind = "bool" => lt = rt
      BY ValueTypeOf
    <3>3. h.ok \/ lt = rt
      BY <1>3, <1>4, <3>1, <3>2 DEF Numeric
    <3>4. Likes(h.left, h.right)
      BY <1>3, <3>3
    <3>5. h.left.kind = "int" => h.right.kind = "int" /\ lt.kind = "int" /\ rt.kind = "int"
      BY <1>3, <1>4, <3>4 DEF Likes
    <3>6. op # "/" => op \in IntOps
      BY DEF BinOps, IntOps, FloatOps
    <3> HIDE DEF h
    <3> QED
      BY <3>4, <3>5, <3>6
  <2> HIDE DEF h
  <2> QED
    BY <1>2, <1>3, <1>7, <2>1, <2>2 DEF g
<1> QED
  BY <1>5, <1>6, <1>7

(* The node of an operator with floats; exact only if both are floats.     *)
LEMMA FloatNodeOf ==
  ASSUME NEW folding \in BOOLEAN, NEW op \in BinOps, NEW a, NEW b, IsNode(a), IsNode(b)
  PROVE  LET n == FloatNode(folding, op, a, b)
         IN  /\ IsNode(n) /\ n.type = Float
             /\ n.exact => /\ a.exact /\ b.exact /\ IsFloat(a) /\ IsFloat(b)
                           /\ n.bits = FloatResult(op, a.bits, b.bits)
<1> DEFINE folds == folding /\ IsFloatConst(a) /\ IsFloatConst(b) /\ op \in FloatOps
           fit   == IsFloat(a) /\ IsFloat(b) /\ op \in FloatOps
           v     == IF folds \/ fit THEN FloatResult(op, FloatOf(a), FloatOf(b)) ELSE Zero(Float)
           e     == a.exact /\ b.exact /\ fit /\ ~(op = "/" /\ FloatOf(b)[1] = 0)
           n     == FloatNode(folding, op, a, b)
<1>1. n = Node(folds, Float, v, e)
  BY DEF FloatNode
<1>2. Float \in ValueTypes /\ Float.kind = "float"
  BY DEF ValueTypes, Float, FloatType
<1>3. InRange(Float, v)
  <2>1. CASE folds \/ fit
    <3>1. /\ IsInt(a) \/ IsFloat(a)
          /\ IsInt(b) \/ IsFloat(b)
          /\ op \in FloatOps
      BY <2>1 DEF IsFloatConst
    <3>2. FloatResult(op, FloatOf(a), FloatOf(b)) \in Fractions
      BY <3>1, FloatOfNode, FloatResultOf
    <3>3. v = FloatResult(op, FloatOf(a), FloatOf(b))
      BY <2>1
    <3> HIDE DEF v
    <3> QED
      BY <1>2, <3>2, <3>3 DEF InRange
  <2>2. CASE ~(folds \/ fit)
    BY <1>2, <2>2, ZeroInRange
  <2> QED
    BY <2>1, <2>2
<1>4. folds \in BOOLEAN /\ e \in BOOLEAN
  BY DEF IsNode
<1>5. e => a.exact /\ b.exact /\ fit
  OBVIOUS
<1>6. fit => v = FloatResult(op, a.bits, b.bits)
  BY DEF FloatOf
<1>7. fit => IsFloat(a) /\ IsFloat(b)
  OBVIOUS
<1> HIDE DEF folds, fit, v, e, n
<1> QED
  BY <1>1, <1>2, <1>3, <1>4, <1>5, <1>6, <1>7, NodeOf DEF n

(* The node of an operator with two operands, and what they were converted *)
(* to.                                                                     *)
LEMMA BinNodeOf ==
  ASSUME NEW folding \in BOOLEAN, NEW op \in BinOps, NEW lt \in ValueTypes, NEW rt \in ValueTypes,
         NEW l, NEW r, IsNode(l), IsNode(r), Likes(lt, l.type), Likes(rt, r.type), AcceptsBin(op, lt, rt)
  PROVE  LET g == BinGoals(op, lt, rt)
             a == Converted(folding, g.left, lt, l)
             b == Converted(folding, g.right, rt, r)
             n == BinNode(folding, op, lt, l, rt, r)
         IN  /\ IsNode(n) /\ n.type = g.type
             /\ IsNode(a) /\ IsNode(b) /\ Likes(g.left, a.type) /\ Likes(g.right, b.type)
             /\ n.exact => /\ a.exact /\ b.exact /\ l.exact /\ r.exact
                           /\ \/ /\ g.type.kind = "int" /\ IsInt(a) /\ IsInt(b)
                                 /\ n = IntNode(folding /\ IsConst(a) /\ IsConst(b), op, g.type, a, b)
                              \/ /\ g.type.kind = "float"
                                 /\ n.bits = FloatResult(op, a.bits, b.bits)
<1> DEFINE g == BinGoals(op, lt, rt)
           a == Converted(folding, g.left, lt, l)
           b == Converted(folding, g.right, rt, r)
           o == BinOperands(folding, op, lt, l, rt, r)
           n == BinNode(folding, op, lt, l, rt, r)
<1>1. /\ g.left \in ValueTypes /\ g.right \in ValueTypes /\ g.type \in ValueTypes
      /\ CanConvert(g.left, lt) /\ CanConvert(g.right, rt)
      /\ g.type.kind = "int" => op \in IntOps /\ g.left = g.type /\ g.right.kind = "int"
  BY BinGoalsOf
<1>2. IsNode(a) /\ Likes(g.left, a.type) /\ (a.exact => l.exact)
  BY <1>1, ConvertedOf
<1>3. IsNode(b) /\ Likes(g.right, b.type) /\ (b.exact => r.exact)
  BY <1>1, ConvertedOf
<1>4. o[1] = a /\ o[2] = b
  BY DEF BinOperands
<1> DEFINE folds == folding /\ IsConst(a) /\ IsConst(b)
<1>5. n = IF "trap" \in {a.form, b.form} THEN Trap(g.type)
          ELSE CASE g.type.kind = "int"   -> IntNode(folds, op, g.type, a, b)
                 [] g.type.kind = "float" -> FloatNode(folding, op, a, b)
                 [] OTHER                 -> Tree(g.type)
  <2> HIDE DEF a, b, g, o
  <2>1. n = LET t == g.type
            IN  IF "trap" \in {o[1].form, o[2].form} THEN Trap(t)
                ELSE CASE t.kind = "int"   -> IntNode(folding /\ IsConst(o[1]) /\ IsConst(o[2]), op, t, o[1], o[2])
                       [] t.kind = "float" -> FloatNode(folding, op, o[1], o[2])
                       [] OTHER            -> Tree(t)
    BY DEF BinNode, g, o
  <2> HIDE DEF n
  <2> QED
    BY <1>4, <2>1
<1> HIDE DEF a, b, n, g, o
<1>6. CASE "trap" \in {a.form, b.form}
  BY <1>1, <1>2, <1>3, <1>5, <1>6, TreeOf DEF a, b, n, g
<1>7. CASE "trap" \notin {a.form, b.form} /\ g.type.kind = "int"
  <2>1. n = IntNode(folds, op, g.type, a, b)
    BY <1>5, <1>7
  <2>2. IsInt(a) /\ IsInt(b) /\ g.type \in IntTypes /\ op \in IntOps
    BY <1>1, <1>2, <1>3, <1>7, ValueTypeOf DEF Likes, IsInt
  <2>3. folds \in BOOLEAN
    BY DEF IsConst
  <2>4. IsNode(n) /\ n.type = g.type /\ (n.exact => a.exact /\ b.exact)
    <3> HIDE DEF folds
    <3> QED
      BY <1>2, <1>3, <2>1, <2>2, <2>3, IntNodeOf
  <2> QED
    BY <1>2, <1>3, <1>7, <2>1, <2>2, <2>4 DEF a, b, n, g
<1>8. CASE "trap" \notin {a.form, b.form} /\ g.type.kind = "float"
  <2>1. n = FloatNode(folding, op, a, b) /\ g.type = Float
    BY <1>1, <1>5, <1>8, ValueTypeOf
  <2>2. /\ IsNode(n) /\ n.type = g.type
        /\ n.exact => a.exact /\ b.exact /\ n.bits = FloatResult(op, a.bits, b.bits)
    BY <1>2, <1>3, <2>1, FloatNodeOf
  <2> QED
    BY <1>2, <1>3, <1>8, <2>2 DEF a, b, n, g
<1>9. CASE "trap" \notin {a.form, b.form} /\ g.type.kind \notin {"int", "float"}
  <2>1. n = Tree(g.type)
    BY <1>5, <1>9
  <2> QED
    BY <1>1, <1>2, <1>3, <2>1, TreeOf DEF a, b, n, g
<1> QED
  BY <1>6, <1>7, <1>8, <1>9

(* What a pair of operands gives if all of it is exact.                    *)
LEMMA ExactPair ==
  ASSUME NEW t, NEW c, NEW p, Pair(t, c, p), c.exact, p.exact
  PROVE  Same(c, p) /\ t = c.type /\ p.type = t
  BY DEF Pair, Same

(* A node's type is like itself.                                           *)
LEMMA LikesItself ==
  ASSUME NEW c, IsNode(c)
  PROVE  Likes(c.type, c.type) /\ c.type \in ValueTypes
  BY DEF Likes, IsNode

(* Folding does not change what an operator with two operands gives.       *)
LEMMA BinPair ==
  ASSUME NEW op \in BinOps, NEW lt, NEW rt, NEW l, NEW r, NEW pl, NEW pr,
         Pair(lt, l, pl), Pair(rt, r, pr), AcceptsBin(op, lt, rt)
  PROVE  Pair(BinGoals(op, lt, rt).type, BinNode(TRUE, op, lt, l, rt, r),
              BinNode(FALSE, op, pl.type, pl, pr.type, pr))
<1> DEFINE n == BinNode(TRUE, op, lt, l, rt, r)
           q == BinNode(FALSE, op, pl.type, pl, pr.type, pr)
           g == BinGoals(op, lt, rt)
<1>1. /\ lt \in ValueTypes /\ rt \in ValueTypes /\ IsNode(l) /\ IsNode(r)
      /\ Likes(lt, l.type) /\ Likes(rt, r.type)
      /\ IsNode(pl) /\ IsNode(pr) /\ pl.type.kind = lt.kind /\ pr.type.kind = rt.kind
  BY DEF Pair
<1>2. /\ pl.type \in ValueTypes /\ pr.type \in ValueTypes
      /\ Likes(pl.type, pl.type) /\ Likes(pr.type, pr.type)
  BY <1>1, LikesItself
<1>3. AcceptsBin(op, pl.type, pr.type)
  <2>1. /\ HarmonizeNumericOperands(lt, rt).ok <=> lt.kind \in Numeric /\ rt.kind \in Numeric
        /\ HarmonizeNumericOperands(pl.type, pr.type).ok
             <=> pl.type.kind \in Numeric /\ pr.type.kind \in Numeric
    BY <1>1, <1>2, HarmonizedOf
  <2> QED
    BY <1>1, <2>1 DEF AcceptsBin
<1>4. \A folding \in BOOLEAN :
        /\ IsNode(BinNode(folding, op, lt, l, rt, r)) /\ BinNode(folding, op, lt, l, rt, r).type = g.type
        /\ BinNode(folding, op, lt, l, rt, r).exact => l.exact /\ r.exact
  BY <1>1, BinNodeOf
<1>5. \A folding \in BOOLEAN :
        /\ IsNode(BinNode(folding, op, pl.type, pl, pr.type, pr))
        /\ BinNode(folding, op, pl.type, pl, pr.type, pr).type = BinGoals(op, pl.type, pr.type).type
        /\ BinNode(folding, op, pl.type, pl, pr.type, pr).exact => pl.exact /\ pr.exact
  BY <1>1, <1>2, <1>3, BinNodeOf
<1>6. g.type \in ValueTypes /\ BinGoals(op, pl.type, pr.type).type.kind = g.type.kind
  <2>1. /\ g.type \in ValueTypes
        /\ g.type.kind = IF op = "/" /\ lt.kind = "int" /\ rt.kind = "int" THEN "float"
                              ELSE IF lt.kind = "int" /\ rt.kind = "float" THEN "float" ELSE lt.kind
    BY <1>1, BinGoalsOf
  <2>2. BinGoals(op, pl.type, pr.type).type.kind
          = IF op = "/" /\ pl.type.kind = "int" /\ pr.type.kind = "int" THEN "float"
            ELSE IF pl.type.kind = "int" /\ pr.type.kind = "float" THEN "float" ELSE pl.type.kind
    BY <1>2, <1>3, BinGoalsOf
  <2> QED
    BY <1>1, <2>1, <2>2
<1>7. IsNode(n) /\ IsNode(q) /\ n.type = g.type /\ q.type.kind = g.type.kind
  BY <1>4, <1>5, <1>6
<1>8. ASSUME n.exact, q.exact
      PROVE  Same(n, q)
  <2>1. l.exact /\ r.exact /\ pl.exact /\ pr.exact
    BY <1>4, <1>5, <1>8
  <2>2. Same(l, pl) /\ lt = l.type /\ pl.type = lt /\ Same(r, pr) /\ rt = r.type /\ pr.type = rt
    BY <2>1, ExactPair
  <2> DEFINE A(folding, c, s) == Converted(folding, g.left, s, c)
             B(folding, c, s) == Converted(folding, g.right, s, c)
             a == Converted(TRUE, g.left, lt, l)
             b == Converted(TRUE, g.right, rt, r)
             x == Converted(FALSE, g.left, lt, pl)
             y == Converted(FALSE, g.right, rt, pr)
  <2>3. q = BinNode(FALSE, op, lt, pl, rt, pr)
    BY <2>2
  <2>4. \A folding \in BOOLEAN :
          LET c == Converted(folding, g.left, lt, l)
              d == Converted(folding, g.right, rt, r)
              m == BinNode(folding, op, lt, l, rt, r)
          IN  m.exact => /\ c.exact /\ d.exact /\ IsNode(c) /\ IsNode(d)
                         /\ \/ /\ g.type.kind = "int" /\ IsInt(c) /\ IsInt(d)
                               /\ m = IntNode(folding /\ IsConst(c) /\ IsConst(d), op, g.type, c, d)
                            \/ /\ g.type.kind = "float"
                               /\ m.bits = FloatResult(op, c.bits, d.bits)
    BY <1>1, BinNodeOf
  <2>5. \A folding \in BOOLEAN :
          LET c == Converted(folding, g.left, lt, pl)
              d == Converted(folding, g.right, rt, pr)
              m == BinNode(folding, op, lt, pl, rt, pr)
          IN  m.exact => /\ c.exact /\ d.exact
                         /\ \/ /\ g.type.kind = "int"
                               /\ m = IntNode(folding /\ IsConst(c) /\ IsConst(d), op, g.type, c, d)
                            \/ /\ g.type.kind = "float"
                               /\ m.bits = FloatResult(op, c.bits, d.bits)
    <3>1. Likes(lt, pl.type) /\ Likes(rt, pr.type)
      BY <1>2, <2>2
    <3> QED
      BY <1>1, <3>1, BinNodeOf
  <2>6. /\ a.exact /\ b.exact /\ IsNode(a) /\ IsNode(b)
        /\ \/ /\ g.type.kind = "int" /\ IsInt(a) /\ IsInt(b)
              /\ n = IntNode(TRUE /\ IsConst(a) /\ IsConst(b), op, g.type, a, b)
           \/ /\ g.type.kind = "float"
              /\ n.bits = FloatResult(op, a.bits, b.bits)
    BY <1>8, <2>4
  <2>7. /\ x.exact /\ y.exact
        /\ \/ /\ g.type.kind = "int"
              /\ q = IntNode(FALSE /\ IsConst(x) /\ IsConst(y), op, g.type, x, y)
           \/ /\ g.type.kind = "float"
              /\ q.bits = FloatResult(op, x.bits, y.bits)
    BY <1>8, <2>3, <2>5
  <2>8. /\ g.left \in ValueTypes /\ g.right \in ValueTypes /\ CanConvert(g.left, lt) /\ CanConvert(g.right, rt)
        /\ g.type.kind = "int" => op \in IntOps /\ g.left = g.type
    BY <1>1, BinGoalsOf
  <2>9. Same(a, x) /\ a.type = g.left /\ Same(b, y)
    <3>1. Same(a, x) /\ a.type = g.left
      BY <1>1, <2>2, <2>6, <2>7, <2>8, ConvertedAgree
    <3>2. Same(b, y)
      BY <1>1, <2>2, <2>6, <2>7, <2>8, ConvertedAgree
    <3> QED
      BY <3>1, <3>2
  <2> HIDE DEF a, b, x, y, g
  <2>10. n.bits = q.bits
    <3>1. CASE g.type.kind = "int"
      <4> DEFINE folds == TRUE /\ IsConst(a) /\ IsConst(b)
      <4>1. /\ n = IntNode(folds, op, g.type, a, b) /\ q = IntNode(FALSE, op, g.type, x, y)
            /\ IsInt(a) /\ IsInt(b)
        BY <2>6, <2>7, <3>1
      <4>2. folds \in BOOLEAN /\ g.type \in IntTypes /\ op \in IntOps /\ a.type.bits = g.type.bits
        BY <1>6, <2>8, <2>9, <3>1, ValueTypeOf DEF IsConst
      <4>3. a.bits = x.bits /\ b.bits = y.bits
        BY <2>9 DEF Same
      <4>4. IntNode(folds, op, g.type, a, b).exact /\ IntNode(FALSE, op, g.type, x, y).exact
        BY <1>8, <4>1
      <4> HIDE DEF folds, n, q
      <4> QED
        <5> DEFINE t == g.type
                   off == FALSE
        <5>1. /\ t \in IntTypes /\ op \in IntOps /\ a.type.bits = t.bits
              /\ IsNode(a) /\ IsNode(b) /\ IsInt(a) /\ IsInt(b)
          BY <2>6, <4>1, <4>2
        <5>3. off \in BOOLEAN /\ ~off
          OBVIOUS
        <5> HIDE DEF t, off
        <5>2. \A f \in BOOLEAN :
                IntNode(f, op, t, a, b).exact /\ IntNode(off, op, t, x, y).exact
                  => IntNode(f, op, t, a, b).bits = IntNode(off, op, t, x, y).bits
          BY <4>3, <5>1, <5>3, IntNodesAgree
        <5> QED
          BY <4>1, <4>2, <4>4, <5>2 DEF t, off
    <3>2. CASE g.type.kind = "float"
      BY <2>6, <2>7, <2>9, <3>2 DEF Same
    <3> QED
      BY <2>6, <3>1, <3>2
  <2>11. q.type = g.type
    BY <1>5, <2>2 DEF g
  <2> HIDE DEF n, q
  <2> QED
    BY <1>7, <1>8, <2>10, <2>11 DEF Same
<1>9. Likes(g.type, n.type)
  BY <1>7 DEF Likes
<1> HIDE DEF n, q, g
<1> QED
  BY <1>6, <1>7, <1>8, <1>9 DEF Pair, n, q, g

(* Bool is one of the types.                                               *)
LEMMA BoolIs == BoolType \in ValueTypes /\ BoolType.kind = "bool" /\ \A b \in {0, 1} : InRange(BoolType, b)
  BY DEF ValueTypes, BoolType, InRange

(* The node of a comparison; a folded one that is exact compares integers  *)
(* of one sign.                                                            *)
LEMMA CompareNodeOf ==
  ASSUME NEW folding \in BOOLEAN, NEW op \in CompareOps, NEW lt \in ValueTypes, NEW rt \in ValueTypes,
         NEW l, NEW r, IsNode(l), IsNode(r), Likes(lt, l.type), Likes(rt, r.type)
  PROVE  LET h     == HarmonizeNumericOperands(lt, rt)
             a     == Converted(folding, h.left, lt, l)
             b     == Converted(folding, h.right, rt, r)
             n     == CompareNode(folding, op, lt, l, rt, r)
             ints  == IsInt(a) /\ IsInt(b)
             folds == folding /\ IsConst(a) /\ IsConst(b) /\ (ints \/ (IsFloat(a) /\ IsFloatConst(b)))
         IN  /\ IsNode(n) /\ n.type = BoolType
             /\ IsNode(a) /\ IsNode(b) /\ Likes(h.left, a.type) /\ Likes(h.right, b.type)
             /\ n.exact =>
                  /\ a.exact /\ b.exact /\ l.exact /\ r.exact
                  /\ \/ /\ ints /\ a.type.bits = b.type.bits
                        /\ folds => a.type.signed = b.type.signed /\ ~IsHostUnsigned(a.type)
                        /\ n.bits = AsBit(IF folds THEN Compares(op, HostValue(a.type, a.bits), HostValue(b.type, b.bits))
                                                   ELSE Compares(op, Number(a.type, a.bits), Number(a.type, b.bits)))
                     \/ /\ ~ints /\ IsFloat(a) /\ IsFloat(b)
                        /\ n.bits = AsBit(Compares(op, a.bits[1] * b.bits[2], b.bits[1] * a.bits[2]))
<1> DEFINE h     == HarmonizeNumericOperands(lt, rt)
           a     == Converted(folding, h.left, lt, l)
           b     == Converted(folding, h.right, rt, r)
           n     == CompareNode(folding, op, lt, l, rt, r)
           o     == CompareOperands(folding, lt, l, rt, r)
           ints  == IsInt(a) /\ IsInt(b)
           folds == folding /\ IsConst(a) /\ IsConst(b) /\ (ints \/ (IsFloat(a) /\ IsFloatConst(b)))
           fit   == (ints /\ a.type.bits = b.type.bits) \/ (IsFloat(a) /\ IsFloat(b))
           byint == IF folds THEN Compares(op, HostValue(a.type, a.bits), HostValue(b.type, b.bits))
                             ELSE Compares(op, Number(a.type, a.bits), Number(a.type, b.bits))
           byflt == LET x == FloatOf(a)
                        y == FloatOf(b)
                    IN  Compares(op, x[1] * y[2], y[1] * x[2])
           holds == IF ints THEN byint ELSE byflt
           e     == /\ a.exact /\ b.exact /\ fit
                    /\ ~(folds /\ ints /\ (a.type.signed # b.type.signed \/ IsHostUnsigned(a.type)))
<1>1. /\ h.left \in ValueTypes /\ h.right \in ValueTypes
      /\ CanConvert(h.left, lt) /\ CanConvert(h.right, rt)
  BY HarmonizedOf
<1>2. IsNode(a) /\ Likes(h.left, a.type) /\ (a.exact => l.exact)
  BY <1>1, ConvertedOf
<1>3. IsNode(b) /\ Likes(h.right, b.type) /\ (b.exact => r.exact)
  BY <1>1, ConvertedOf
<1>4. o[1] = a /\ o[2] = b
  BY DEF CompareOperands
<1>5. n = IF "trap" \in {a.form, b.form} THEN Trap(BoolType)
          ELSE IF ~(folds \/ fit) THEN Tree(BoolType)
          ELSE Node(folds, BoolType, AsBit(holds), e)
  <2> HIDE DEF a, b, h
  <2> QED
    BY <1>4 DEF CompareNode
<1>6. folds \in BOOLEAN /\ e \in BOOLEAN /\ AsBit(holds) \in {0, 1}
  <2>1. folds \in BOOLEAN
    BY DEF IsInt, IsFloat
  <2>2. AsBit(holds) \in {0, 1}
    <3> HIDE DEF holds
    <3> QED
      BY DEF AsBit
  <2>3. a.exact \in BOOLEAN /\ b.exact \in BOOLEAN
    BY <1>2, <1>3 DEF IsNode
  <2> HIDE DEF a, b
  <2>4. e \in BOOLEAN
    BY <2>3
  <2> QED
    BY <2>1, <2>2, <2>4
<1>7. e => a.exact /\ b.exact /\ fit /\ (folds /\ ints => a.type.signed = b.type.signed /\ ~IsHostUnsigned(a.type))
  OBVIOUS
<1>8. /\ ints => AsBit(holds) = AsBit(byint)
      /\ IsFloat(a) /\ IsFloat(b) =>
           ~ints /\ AsBit(holds) = AsBit(Compares(op, a.bits[1] * b.bits[2], b.bits[1] * a.bits[2]))
  <2> HIDE DEF a, b, byint
  <2>1. ints => AsBit(holds) = AsBit(byint)
    OBVIOUS
  <2>2. IsFloat(a) /\ IsFloat(b) => ~ints /\ FloatOf(a) = a.bits /\ FloatOf(b) = b.bits
    BY DEF IsFloat, IsInt, FloatOf
  <2> QED
    BY <2>1, <2>2
<1> DEFINE v == AsBit(holds)
<1>9. v \in {0, 1} /\ (fit => \/ ints /\ a.type.bits = b.type.bits /\ v = AsBit(byint)
                              \/ /\ ~ints /\ IsFloat(a) /\ IsFloat(b)
                                 /\ v = AsBit(Compares(op, a.bits[1] * b.bits[2], b.bits[1] * a.bits[2])))
  <2> HIDE DEF a, b, byint, holds, ints
  <2> QED
    BY <1>6, <1>8
<1>10. /\ IsNode(n) /\ n.type = BoolType
       /\ n.exact => e /\ n.bits = v
  <2> HIDE DEF e, v, folds, a, b, fit
  <2>1. InRange(BoolType, v)
    BY <1>9, BoolIs
  <2>2. /\ IsNode(Node(folds, BoolType, v, e)) /\ Node(folds, BoolType, v, e).type = BoolType
        /\ Node(folds, BoolType, v, e).bits = v /\ Node(folds, BoolType, v, e).exact = e
    BY <1>6, <2>1, BoolIs, NodeOf
  <2>3. n \in {Trap(BoolType), Tree(BoolType), Node(folds, BoolType, v, e)}
    BY <1>5 DEF v
  <2> HIDE DEF n
  <2> QED
    BY <2>2, <2>3, BoolIs, TreeOf
<1>11. n.exact =>
         /\ a.exact /\ b.exact
         /\ \/ /\ ints /\ a.type.bits = b.type.bits
               /\ folds => a.type.signed = b.type.signed /\ ~IsHostUnsigned(a.type)
               /\ n.bits = AsBit(byint)
            \/ /\ ~ints /\ IsFloat(a) /\ IsFloat(b)
               /\ n.bits = AsBit(Compares(op, a.bits[1] * b.bits[2], b.bits[1] * a.bits[2]))
  <2> HIDE DEF e, v, folds, a, b, fit, ints, byint, n
  <2> QED
    BY <1>7, <1>9, <1>10
<1> HIDE DEF a, b, n, h
<1> QED
  BY <1>2, <1>3, <1>10, <1>11 DEF a, b, n, h

(* Folding does not change what a comparison gives.                        *)
LEMMA ComparePair ==
  ASSUME NEW op \in CompareOps, NEW lt, NEW rt, NEW l, NEW r, NEW pl, NEW pr,
         Pair(lt, l, pl), Pair(rt, r, pr)
  PROVE  Pair(BoolType, CompareNode(TRUE, op, lt, l, rt, r),
              CompareNode(FALSE, op, pl.type, pl, pr.type, pr))
<1> DEFINE n == CompareNode(TRUE, op, lt, l, rt, r)
           q == CompareNode(FALSE, op, pl.type, pl, pr.type, pr)
           h == HarmonizeNumericOperands(lt, rt)
<1>1. /\ lt \in ValueTypes /\ rt \in ValueTypes /\ IsNode(l) /\ IsNode(r)
      /\ Likes(lt, l.type) /\ Likes(rt, r.type)
      /\ IsNode(pl) /\ IsNode(pr)
  BY DEF Pair
<1>2. /\ pl.type \in ValueTypes /\ pr.type \in ValueTypes
      /\ Likes(pl.type, pl.type) /\ Likes(pr.type, pr.type)
  BY <1>1, LikesItself
<1>3. \A folding \in BOOLEAN :
        /\ IsNode(CompareNode(folding, op, lt, l, rt, r))
        /\ CompareNode(folding, op, lt, l, rt, r).type = BoolType
        /\ CompareNode(folding, op, lt, l, rt, r).exact => l.exact /\ r.exact
  BY <1>1, CompareNodeOf
<1>4. \A folding \in BOOLEAN :
        /\ IsNode(CompareNode(folding, op, pl.type, pl, pr.type, pr))
        /\ CompareNode(folding, op, pl.type, pl, pr.type, pr).type = BoolType
        /\ CompareNode(folding, op, pl.type, pl, pr.type, pr).exact => pl.exact /\ pr.exact
  BY <1>1, <1>2, CompareNodeOf
<1>5. IsNode(n) /\ IsNode(q) /\ n.type = BoolType /\ q.type = BoolType
  BY <1>3, <1>4
<1>6. ASSUME n.exact, q.exact
      PROVE  Same(n, q)
  <2>1. l.exact /\ r.exact /\ pl.exact /\ pr.exact
    BY <1>3, <1>4, <1>6
  <2>2. Same(l, pl) /\ lt = l.type /\ pl.type = lt /\ Same(r, pr) /\ rt = r.type /\ pr.type = rt
    BY <2>1, ExactPair
  <2> DEFINE a == Converted(TRUE, h.left, lt, l)
             b == Converted(TRUE, h.right, rt, r)
             x == Converted(FALSE, h.left, lt, pl)
             y == Converted(FALSE, h.right, rt, pr)
             ints == IsInt(a) /\ IsInt(b)
             folds == TRUE /\ IsConst(a) /\ IsConst(b) /\ (ints \/ (IsFloat(a) /\ IsFloatConst(b)))
  <2>3. q = CompareNode(FALSE, op, lt, pl, rt, pr) /\ Likes(lt, pl.type) /\ Likes(rt, pr.type)
    BY <1>2, <2>2
  <2>4. /\ a.exact /\ b.exact /\ IsNode(a) /\ IsNode(b)
        /\ \/ /\ ints /\ a.type.bits = b.type.bits
              /\ folds => a.type.signed = b.type.signed /\ ~IsHostUnsigned(a.type)
              /\ n.bits = AsBit(IF folds THEN Compares(op, HostValue(a.type, a.bits), HostValue(b.type, b.bits))
                                         ELSE Compares(op, Number(a.type, a.bits), Number(a.type, b.bits)))
           \/ /\ ~ints /\ IsFloat(a) /\ IsFloat(b)
              /\ n.bits = AsBit(Compares(op, a.bits[1] * b.bits[2], b.bits[1] * a.bits[2]))
    <3>1. n.exact
      BY <1>6
    <3> HIDE DEF n
    <3> QED
      BY <1>1, <3>1, CompareNodeOf DEF n
  <2>5. /\ x.exact /\ y.exact
        /\ \/ /\ IsInt(x) /\ IsInt(y)
              /\ q.bits = AsBit(Compares(op, Number(x.type, x.bits), Number(x.type, y.bits)))
           \/ /\ ~(IsInt(x) /\ IsInt(y))
              /\ q.bits = AsBit(Compares(op, x.bits[1] * y.bits[2], y.bits[1] * x.bits[2]))
    <3>1. \A folding \in BOOLEAN :
            LET c == Converted(folding, h.left, lt, pl)
                d == Converted(folding, h.right, rt, pr)
                m == CompareNode(folding, op, lt, pl, rt, pr)
            IN  ~folding /\ m.exact =>
                  /\ c.exact /\ d.exact
                  /\ \/ /\ IsInt(c) /\ IsInt(d)
                        /\ m.bits = AsBit(Compares(op, Number(c.type, c.bits), Number(c.type, d.bits)))
                     \/ /\ ~(IsInt(c) /\ IsInt(d))
                        /\ m.bits = AsBit(Compares(op, c.bits[1] * d.bits[2], d.bits[1] * c.bits[2]))
      BY <1>1, <2>3, CompareNodeOf
    <3> QED
      BY <1>6, <2>3, <3>1
  <2>6. /\ h.left \in ValueTypes /\ h.right \in ValueTypes /\ CanConvert(h.left, lt) /\ CanConvert(h.right, rt)
    BY <1>1, HarmonizedOf
  <2>7. Same(a, x)
    BY <1>1, <2>2, <2>4, <2>5, <2>6, ConvertedAgree
  <2>8. Same(b, y)
    BY <1>1, <2>2, <2>4, <2>5, <2>6, ConvertedAgree
  <2> HIDE DEF a, b, x, y, h, n, q
  <2>9. /\ a.type = x.type /\ a.bits = x.bits /\ b.type = y.type /\ b.bits = y.bits
        /\ IsInt(a) <=> IsInt(x)
        /\ IsInt(b) <=> IsInt(y)
    BY <2>7, <2>8 DEF Same, IsInt
  <2>10. n.bits = q.bits
    <3>1. CASE ints /\ folds
      <4>1. /\ a.type \in IntTypes /\ a.bits \in Patterns(a.type)
            /\ b.type \in IntTypes /\ b.bits \in Patterns(b.type)
        BY <2>4, <3>1, ValueTypeOf DEF IsNode, IsInt, InRange
      <4>2. a.type = b.type /\ ~IsHostUnsigned(a.type)
        BY <2>4, <3>1, <4>1, IntTypeOf DEF IsInt, IsFloat, IntType
      <4>3. /\ HostValue(a.type, a.bits) = Number(a.type, a.bits)
            /\ HostValue(b.type, b.bits) = Number(a.type, b.bits)
        BY <4>1, <4>2, NumberOf, OwnPattern
      <4>4. n.bits = AsBit(Compares(op, Number(a.type, a.bits), Number(a.type, b.bits)))
        BY <2>4, <3>1, <4>3
      <4> QED
        BY <2>5, <2>9, <3>1, <4>4
    <3>2. CASE ints /\ ~folds
      <4>1. n.bits = AsBit(Compares(op, Number(a.type, a.bits), Number(a.type, b.bits)))
        BY <2>4, <3>2
      <4> QED
        BY <2>5, <2>9, <3>2, <4>1
    <3>3. CASE ~ints
      BY <2>4, <2>5, <2>9, <3>3
    <3> QED
      BY <3>1, <3>2, <3>3
  <2> QED
    BY <1>5, <1>6, <2>10 DEF Same
<1>7. BoolType \in ValueTypes /\ Likes(BoolType, BoolType)
  BY BoolIs DEF Likes
<1> HIDE DEF n, q
<1> QED
  BY <1>5, <1>6, <1>7 DEF Pair, n, q

-----------------------------------------------------------------------------
(* The lesser and the greater of two bits are bits.                        *)
LEMMA OfBits ==
  ASSUME NEW a \in {0, 1}, NEW b \in {0, 1}
  PROVE  Min({a, b}) \in {0, 1} /\ Max({a, b}) \in {0, 1}
<1>1. \E x \in {a, b} : \A y \in {a, b} : x =< y
  OBVIOUS
<1>2. \E x \in {a, b} : \A y \in {a, b} : x >= y
  OBVIOUS
<1>3. Min({a, b}) \in {a, b}
  BY <1>1 DEF Min
<1>4. Max({a, b}) \in {a, b}
  BY <1>2 DEF Max
<1> QED
  BY <1>3, <1>4

(* The node of `and' and `or'.                                             *)
LEMMA LogicalNodeOf ==
  ASSUME NEW folding \in BOOLEAN, NEW op \in LogicalOps, NEW l, NEW r, IsNode(l), IsNode(r)
  PROVE  LET n == LogicalNode(folding, op, l, r)
         IN  /\ IsNode(n) /\ n.type = BoolType
             /\ n.exact => /\ l.exact /\ r.exact
                           /\ n.bits = IF op = "and" THEN Min({l.bits, r.bits}) ELSE Max({l.bits, r.bits})
<1> DEFINE n == LogicalNode(folding, op, l, r)
           fit == IsBool(l) /\ IsBool(r)
           folds == folding /\ IsConst(l) /\ IsConst(r)
           v == IF op = "and" THEN Min({l.bits, r.bits}) ELSE Max({l.bits, r.bits})
           e == l.exact /\ r.exact
<1>1. n = IF "trap" \in {l.form, r.form} THEN Trap(BoolType)
          ELSE IF ~fit THEN Tree(BoolType)
          ELSE Node(folds, BoolType, v, e)
  BY DEF LogicalNode
<1>2. fit => v \in {0, 1}
  <2>1. fit => l.bits \in {0, 1} /\ r.bits \in {0, 1}
    BY DEF IsNode, InRange, IsBool
  <2> QED
    BY <2>1, OfBits
<1>3. folds \in BOOLEAN /\ e \in BOOLEAN
  BY DEF IsNode
<1>4. e => l.exact /\ r.exact
  OBVIOUS
<1>5. fit => /\ IsNode(Node(folds, BoolType, v, e)) /\ Node(folds, BoolType, v, e).type = BoolType
             /\ Node(folds, BoolType, v, e).bits = v /\ Node(folds, BoolType, v, e).exact = e
  <2> HIDE DEF folds, v, e
  <2>1. fit => InRange(BoolType, v)
    BY <1>2, BoolIs
  <2> QED
    BY <1>3, <2>1, BoolIs, NodeOf
<1> HIDE DEF folds, v, e, n, fit
<1>6. IsNode(n) /\ n.type = BoolType /\ (n.exact => e /\ n.bits = v)
  <2>1. n \in {Trap(BoolType), Tree(BoolType)} \/ (fit /\ n = Node(folds, BoolType, v, e))
    BY <1>1
  <2> QED
    BY <1>5, <2>1, BoolIs, TreeOf
<1> QED
  BY <1>4, <1>6 DEF n, v

(* Folding does not change what `and' and `or' give.                       *)
LEMMA LogicalPair ==
  ASSUME NEW op \in LogicalOps, NEW lt, NEW rt, NEW l, NEW r, NEW pl, NEW pr,
         Pair(lt, l, pl), Pair(rt, r, pr)
  PROVE  Pair(BoolType, LogicalNode(TRUE, op, l, r), LogicalNode(FALSE, op, pl, pr))
<1> DEFINE n == LogicalNode(TRUE, op, l, r)
           q == LogicalNode(FALSE, op, pl, pr)
           Of(a, b) == IF op = "and" THEN Min({a.bits, b.bits}) ELSE Max({a.bits, b.bits})
<1>1. IsNode(l) /\ IsNode(r) /\ IsNode(pl) /\ IsNode(pr)
  BY DEF Pair
<1>2. /\ IsNode(n) /\ n.type = BoolType
      /\ n.exact => l.exact /\ r.exact /\ n.bits = Of(l, r)
  <2>1. \A folding \in BOOLEAN :
          LET m == LogicalNode(folding, op, l, r)
          IN  IsNode(m) /\ m.type = BoolType /\ (m.exact => l.exact /\ r.exact /\ m.bits = Of(l, r))
    BY <1>1, LogicalNodeOf
  <2> QED
    BY <2>1
<1>3. /\ IsNode(q) /\ q.type = BoolType
      /\ q.exact => pl.exact /\ pr.exact /\ q.bits = Of(pl, pr)
  <2>1. \A folding \in BOOLEAN :
          LET m == LogicalNode(folding, op, pl, pr)
          IN  IsNode(m) /\ m.type = BoolType /\ (m.exact => pl.exact /\ pr.exact /\ m.bits = Of(pl, pr))
    BY <1>1, LogicalNodeOf
  <2> QED
    BY <2>1
<1>4. n.exact /\ q.exact => Same(l, pl) /\ Same(r, pr)
  BY <1>2, <1>3, ExactPair
<1>5. Same(l, pl) /\ Same(r, pr) => Of(l, r) = Of(pl, pr)
  BY DEF Same
<1>6. BoolType \in ValueTypes /\ Likes(BoolType, BoolType)
  BY BoolIs DEF Likes
<1> HIDE DEF n, q, Of
<1> QED
  BY <1>2, <1>3, <1>4, <1>5, <1>6 DEF Pair, Same, n, q

UnaryOps == {"neg", "NOT", "not"}

(* The value of an operator with one operand.                              *)
UnaryBits(op, t, c) ==
  LET n == IF IsInt(c) THEN HostValue(t, Pattern(t, HostValue(c.type, c.bits))) ELSE 0
  IN  CASE op = "neg" /\ IsInt(c)   -> Pattern(t, -n)
        [] op = "neg" /\ IsFloat(c) -> <<-c.bits[1], c.bits[2]>>
        [] op = "neg" /\ IsBool(c)  -> c.bits
        [] op = "NOT" /\ IsInt(c)   -> Pattern(t, -n - 1)
        [] op = "not" /\ IsBool(c)  -> 1 - c.bits
        [] OTHER                    -> Zero(t)

(* The type of an operator with one operand.                               *)
LEMMA UnaryTypeOf ==
  ASSUME NEW op \in UnaryOps, NEW t \in ValueTypes
  PROVE  /\ UnaryType(op, t) \in ValueTypes
         /\ UnaryType(op, t).kind = IF op = "neg" THEN t.kind ELSE IF op = "NOT" THEN "int" ELSE "bool"
<1>1. HostInt \in ValueTypes /\ HostInt.kind = "int"
  BY HostIntIs, IntTypeOf DEF ValueTypes
<1> QED
  BY <1>1, BoolIs DEF UnaryType, UnaryOps

(* Its value is in the range of its type.                                  *)
LEMMA UnaryBitsInRange ==
  ASSUME NEW op \in UnaryOps, NEW lt \in ValueTypes, NEW c, IsNode(c), Likes(lt, c.type)
  PROVE  InRange(UnaryType(op, lt), UnaryBits(op, UnaryType(op, lt), c))
<1> DEFINE t == UnaryType(op, lt)
           n == IF IsInt(c) THEN HostValue(t, Pattern(t, HostValue(c.type, c.bits))) ELSE 0
           b == UnaryBits(op, t, c)
<1>1. t \in ValueTypes /\ lt.kind = c.type.kind /\ c.type \in ValueTypes
  BY UnaryTypeOf DEF Likes, IsNode
<1>2. /\ op = "neg" => t = lt
      /\ op = "NOT" /\ IsInt(c) => t = lt
      /\ op = "not" => t = BoolType
  BY <1>1 DEF UnaryType, IsInt
<1>0. b = CASE op = "neg" /\ IsInt(c)   -> Pattern(t, -n)
            [] op = "neg" /\ IsFloat(c) -> <<-c.bits[1], c.bits[2]>>
            [] op = "neg" /\ IsBool(c)  -> c.bits
            [] op = "NOT" /\ IsInt(c)   -> Pattern(t, -n - 1)
            [] op = "not" /\ IsBool(c)  -> 1 - c.bits
            [] OTHER                    -> Zero(t)
  BY DEF UnaryBits
<1>8. /\ ~(IsInt(c) /\ IsFloat(c)) /\ ~(IsInt(c) /\ IsBool(c)) /\ ~(IsFloat(c) /\ IsBool(c))
  BY DEF IsInt, IsFloat, IsBool
<1>3. CASE op \in {"neg", "NOT"} /\ IsInt(c)
  <2>1. t \in IntTypes /\ c.type \in IntTypes /\ c.bits \in Patterns(c.type)
    BY <1>1, <1>2, <1>3, ValueTypeOf DEF IsNode, IsInt, InRange
  <2>2. HostValue(c.type, c.bits) \in Int
    BY <2>1, NumberOf, OwnPattern
  <2>3. Pattern(t, HostValue(c.type, c.bits)) \in Int
    <3> HIDE DEF t
    <3> QED
      BY <2>1, <2>2, PatternOf, OwnPattern
  <2>4. n \in Int
    <3>1. n = HostValue(t, Pattern(t, HostValue(c.type, c.bits)))
      BY <1>3
    <3> HIDE DEF t, n
    <3> QED
      BY <2>1, <2>3, <3>1, NumberOf
  <2>5. b \in {Pattern(t, -n), Pattern(t, -n - 1)}
    <3> HIDE DEF t, n, b
    <3>1. CASE op = "neg"
      BY <1>0, <1>3, <1>8, <3>1
    <3>2. CASE op = "NOT"
      BY <1>0, <1>3, <1>8, <3>2
    <3> QED
      BY <1>3, <3>1, <3>2
  <2> HIDE DEF n, b, t
  <2>6. -n \in Int /\ -n - 1 \in Int
    BY <2>4
  <2>7. b \in Patterns(t)
    BY <2>1, <2>5, <2>6, PatternOf
  <2> QED
    BY <2>1, <2>7, IntTypeOf DEF InRange, b, t
<1>4. CASE op = "neg" /\ IsFloat(c)
  <2>1. c.bits \in Fractions /\ t.kind = "float"
    BY <1>1, <1>2, <1>4 DEF IsNode, InRange, IsFloat
  <2>2. <<-c.bits[1], c.bits[2]>> \in Fractions
    BY <2>1 DEF Fractions
  <2>3. b = <<-c.bits[1], c.bits[2]>>
    <3> HIDE DEF t, n, b
    <3> QED
      BY <1>0, <1>4, <1>8
  <2> HIDE DEF b, t
  <2> QED
    BY <2>1, <2>2, <2>3 DEF InRange, b, t
<1>5. CASE op \in {"neg", "not"} /\ IsBool(c)
  <2>1. c.bits \in {0, 1} /\ t.kind = "bool"
    BY <1>1, <1>2, <1>5, BoolIs DEF IsNode, InRange, IsBool
  <2>2. b \in {c.bits, 1 - c.bits}
    BY <1>5 DEF UnaryBits, IsFloat, IsInt, IsBool
  <2> HIDE DEF b, t
  <2>3. b \in {0, 1}
    BY <2>1, <2>2
  <2> QED
    BY <2>1, <2>3 DEF InRange, b, t
<1>6. CASE \/ op = "NOT" /\ ~IsInt(c)
           \/ op = "not" /\ ~IsBool(c)
  <2>1. b = Zero(t)
    BY <1>6 DEF UnaryBits
  <2> HIDE DEF b, t
  <2> QED
    BY <1>1, <2>1, ZeroInRange DEF b, t
<1>7. IsInt(c) \/ IsFloat(c) \/ IsBool(c)
  BY <1>1, ValueTypeOf DEF IsInt, IsFloat, IsBool
<1> QED
  BY <1>3, <1>4, <1>5, <1>6, <1>7 DEF UnaryOps

(* The node of an operator with one operand.                               *)
LEMMA UnaryNodeOf ==
  ASSUME NEW folding \in BOOLEAN, NEW op \in UnaryOps, NEW lt \in ValueTypes, NEW c,
         IsNode(c), Likes(lt, c.type)
  PROVE  LET n == UnaryNode(folding, op, lt, c)
             t == UnaryType(op, lt)
         IN  /\ IsNode(n) /\ n.type = t
             /\ n.exact => c.exact /\ n.bits = UnaryBits(op, t, c)
<1> DEFINE n == UnaryNode(folding, op, lt, c)
           t == UnaryType(op, lt)
           v == UnaryBits(op, t, c)
           folds == folding /\ IsConst(c)
<1>1. t \in ValueTypes
  BY UnaryTypeOf
<1>2. InRange(t, v)
  BY UnaryBitsInRange
<1>3. n \in {Trap(t), Tree(t), Node(folds, t, v, c.exact), Node(FALSE, t, v, c.exact)}
  <2> DEFINE k == IF IsInt(c) THEN HostValue(t, Pattern(t, HostValue(c.type, c.bits))) ELSE 0
  <2>1. n = IF c.form = "trap" THEN Trap(t)
            ELSE CASE op = "neg" /\ IsInt(c)   -> Node(folds, t, Pattern(t, -k), c.exact)
                   [] op = "neg" /\ IsFloat(c) -> Node(folds, t, <<-c.bits[1], c.bits[2]>>, c.exact)
                   [] op = "neg" /\ IsBool(c)  -> Node(FALSE, t, c.bits, c.exact)
                   [] op = "NOT" /\ IsInt(c)   -> Node(folds, t, Pattern(t, -k - 1), c.exact)
                   [] op = "not" /\ IsBool(c)  -> Node(folds, t, 1 - c.bits, c.exact)
                   [] OTHER                    -> Tree(t)
    BY DEF UnaryNode
  <2>2. v = CASE op = "neg" /\ IsInt(c)   -> Pattern(t, -k)
              [] op = "neg" /\ IsFloat(c) -> <<-c.bits[1], c.bits[2]>>
              [] op = "neg" /\ IsBool(c)  -> c.bits
              [] op = "NOT" /\ IsInt(c)   -> Pattern(t, -k - 1)
              [] op = "not" /\ IsBool(c)  -> 1 - c.bits
              [] OTHER                    -> Zero(t)
    BY DEF UnaryBits
  <2>3. /\ ~(IsInt(c) /\ IsFloat(c)) /\ ~(IsInt(c) /\ IsBool(c)) /\ ~(IsFloat(c) /\ IsBool(c))
    BY DEF IsInt, IsFloat, IsBool
  <2> HIDE DEF n, t, v, folds, k
  <2>4. CASE c.form = "trap"
    BY <2>1, <2>4
  <2>5. CASE c.form # "trap" /\ op = "neg"
    BY <2>1, <2>2, <2>3, <2>5
  <2>6. CASE c.form # "trap" /\ op = "NOT"
    BY <2>1, <2>2, <2>3, <2>6
  <2>7. CASE c.form # "trap" /\ op = "not"
    BY <2>1, <2>2, <2>3, <2>7
  <2> QED
    BY <2>4, <2>5, <2>6, <2>7 DEF UnaryOps
<1>4. folds \in BOOLEAN /\ c.exact \in BOOLEAN
  BY DEF IsNode
<1>5. \A f \in BOOLEAN : /\ IsNode(Node(f, t, v, c.exact)) /\ Node(f, t, v, c.exact).type = t
                         /\ Node(f, t, v, c.exact).bits = v /\ Node(f, t, v, c.exact).exact = c.exact
  <2> HIDE DEF t, v
  <2> QED
    BY <1>1, <1>2, <1>4, NodeOf
<1> HIDE DEF n, t, v, folds
<1> QED
  BY <1>1, <1>3, <1>4, <1>5, TreeOf DEF n, t, v

(* Folding does not change what an operator with one operand gives.        *)
LEMMA UnaryPair ==
  ASSUME NEW op \in UnaryOps, NEW lt, NEW c, NEW p, Pair(lt, c, p)
  PROVE  Pair(UnaryType(op, lt), UnaryNode(TRUE, op, lt, c), UnaryNode(FALSE, op, p.type, p))
<1> DEFINE n == UnaryNode(TRUE, op, lt, c)
           q == UnaryNode(FALSE, op, p.type, p)
           t == UnaryType(op, lt)
           s == UnaryType(op, p.type)
<1>1. /\ IsNode(c) /\ IsNode(p) /\ lt \in ValueTypes /\ p.type \in ValueTypes
      /\ Likes(lt, c.type) /\ Likes(p.type, p.type) /\ p.type.kind = lt.kind
  BY LikesItself DEF Pair
<1>2. IsNode(n) /\ n.type = t /\ (n.exact => c.exact /\ n.bits = UnaryBits(op, t, c))
  <2>1. \A folding \in BOOLEAN :
          LET m == UnaryNode(folding, op, lt, c)
          IN  IsNode(m) /\ m.type = t /\ (m.exact => c.exact /\ m.bits = UnaryBits(op, t, c))
    BY <1>1, UnaryNodeOf
  <2> QED
    BY <2>1
<1>3. IsNode(q) /\ q.type = s /\ (q.exact => p.exact /\ q.bits = UnaryBits(op, s, p))
  <2>1. \A folding \in BOOLEAN :
          LET m == UnaryNode(folding, op, p.type, p)
          IN  IsNode(m) /\ m.type = s /\ (m.exact => p.exact /\ m.bits = UnaryBits(op, s, p))
    BY <1>1, UnaryNodeOf
  <2> QED
    BY <2>1
<1>4. t \in ValueTypes /\ s.kind = t.kind
  BY <1>1, UnaryTypeOf
<1>5. ASSUME n.exact, q.exact
      PROVE  Same(n, q)
  <2>1. Same(c, p) /\ p.type = lt
    BY <1>2, <1>3, <1>5, ExactPair
  <2>2. s = t
    BY <2>1
  <2>3. UnaryBits(op, t, c) = UnaryBits(op, t, p)
    <3> HIDE DEF t
    <3> QED
      BY <2>1 DEF UnaryBits, Same, IsInt, IsFloat, IsBool
  <2> HIDE DEF n, q, t, s
  <2> QED
    BY <1>2, <1>3, <1>5, <2>2, <2>3 DEF Same
<1> HIDE DEF n, q, t, s
<1> QED
  BY <1>1, <1>2, <1>3, <1>4, <1>5 DEF Pair, Likes, n, q, t, s

(* A range depends only on a type's kind and width.                        *)
LEMMA RangeAlike ==
  ASSUME NEW s \in ValueTypes, NEW t \in ValueTypes, Likes(s, t), NEW bits, InRange(t, bits)
  PROVE  InRange(s, bits)
  BY DEF Likes, InRange, Patterns

(* Being of one kind and width is transitive.                              *)
LEMMA LikesTwice ==
  ASSUME NEW r, NEW s, NEW t, Likes(r, s), Likes(s, t)
  PROVE  Likes(r, t)
  BY DEF Likes

(* The arms of an iif that are accepted are two numbers or two bools.      *)
LEMMA AcceptsIifOf ==
  ASSUME NEW tt \in ValueTypes, NEW ft \in ValueTypes
  PROVE  /\ AcceptsIif(tt, ft) => Likes(HarmonizeNumericOperands(tt, ft).left, HarmonizeNumericOperands(tt, ft).right)
         /\ AcceptsIif(tt, ft) <=> \/ tt.kind \in Numeric /\ ft.kind \in Numeric
                                   \/ tt.kind = "bool" /\ ft.kind = "bool"
<1>1. /\ HarmonizeNumericOperands(tt, ft).ok <=> tt.kind \in Numeric /\ ft.kind \in Numeric
      /\ HarmonizeNumericOperands(tt, ft).ok \/ tt = ft
           => Likes(HarmonizeNumericOperands(tt, ft).left, HarmonizeNumericOperands(tt, ft).right)
  BY HarmonizedOf
<1>2. AcceptsIif(tt, ft) <=> tt = ft \/ HarmonizeNumericOperands(tt, ft).ok
  BY DEF AcceptsIif
<1> QED
  BY <1>1, <1>2, ValueTypeOf DEF Numeric

(* The node of an iif, also where the selected arm takes its place: it is  *)
(* exact only if it has the type of the first arm.                         *)
LEMMA IifNodeOf ==
  ASSUME NEW folding \in BOOLEAN, NEW c, NEW t, NEW f, IsNode(c), IsNode(t), IsNode(f),
         AcceptsIif(t.type, f.type)
  PROVE  LET h == HarmonizeNumericOperands(t.type, f.type)
             a == Converted(folding, h.left, t.type, t)
             b == Converted(folding, h.right, f.type, f)
             n == IifNode(folding, c, t.type, t, f.type, f)
         IN  /\ IsNode(n) /\ Likes(h.left, n.type)
             /\ n.exact => /\ c.exact /\ a.exact /\ b.exact /\ t.exact /\ f.exact
                           /\ n.type = h.left
                           /\ n.bits = IF c.bits = 1 THEN a.bits ELSE b.bits
<1> DEFINE h == HarmonizeNumericOperands(t.type, f.type)
           a == Converted(folding, h.left, t.type, t)
           b == Converted(folding, h.right, f.type, f)
           n == IifNode(folding, c, t.type, t, f.type, f)
           s == IF c.bits = 1 THEN a ELSE b
           alike == IsInt(a) /\ IsInt(b) => a.type.signed = b.type.signed
           e == c.exact /\ a.exact /\ b.exact
<1>1. t.type \in ValueTypes /\ f.type \in ValueTypes
  BY LikesItself
<1>2. /\ h.left \in ValueTypes /\ h.right \in ValueTypes
      /\ CanConvert(h.left, t.type) /\ CanConvert(h.right, f.type)
  BY <1>1, HarmonizedOf
<1>3. Likes(h.left, h.right)
  BY <1>1, AcceptsIifOf
<1>4. IsNode(a) /\ (a.exact => t.exact) /\ a.type = h.left
  <2> HIDE DEF h
  <2>1. Likes(t.type, t.type)
    BY LikesItself
  <2> QED
    BY <1>1, <1>2, <2>1, ConvertedOf
<1>5. IsNode(b) /\ (b.exact => f.exact) /\ b.type = h.right
  <2> HIDE DEF h
  <2>1. Likes(f.type, f.type)
    BY LikesItself
  <2> QED
    BY <1>1, <1>2, <2>1, ConvertedOf
<1>6. n = IF "trap" \in {c.form, a.form, b.form} THEN Trap(h.left)
          ELSE IF folding /\ c.form = "literal" THEN [s EXCEPT !.exact = e /\ alike]
          ELSE Node(FALSE, h.left, s.bits, e)
  BY DEF IifNode
<1> HIDE DEF h, a, b, n
<1>7. IsNode(s) /\ s.type \in {h.left, h.right} /\ s \in {a, b}
  BY <1>4, <1>5
<1>8. Likes(h.left, s.type) /\ s.type \in ValueTypes
  BY <1>2, <1>3, <1>7 DEF Likes
<1>9. e \in BOOLEAN /\ alike \in BOOLEAN /\ (e /\ alike) \in BOOLEAN
  BY <1>4, <1>5 DEF IsNode
<1>10. s.bits = IF c.bits = 1 THEN a.bits ELSE b.bits
  OBVIOUS
<1>11. alike => s.type = h.left
  <2>1. CASE h.left.kind = "int"
    <3>1. h.left \in IntTypes /\ h.right \in IntTypes /\ h.left.bits = h.right.bits
      BY <1>2, <1>3, <2>1, ValueTypeOf DEF Likes
    <3>2. alike => h.left.signed = h.right.signed
      BY <1>3, <1>4, <1>5, <2>1 DEF IsInt, Likes
    <3> QED
      BY <1>7, <3>1, <3>2, IntTypeOf
  <2>2. CASE h.left.kind # "int"
    BY <1>2, <1>3, <1>7, <2>2, ValueTypeOf DEF Likes
  <2> QED
    BY <2>1, <2>2
<1>12. CASE "trap" \in {c.form, a.form, b.form}
  <2>1. n = Trap(h.left)
    BY <1>6, <1>12
  <2>2. IsNode(n) /\ n.type = h.left /\ ~n.exact
    BY <1>2, <2>1, TreeOf
  <2> QED
    BY <2>2 DEF Likes, h, a, b, n
<1>13. CASE "trap" \notin {c.form, a.form, b.form} /\ folding /\ c.form = "literal"
  <2>1. n = [s EXCEPT !.exact = e /\ alike]
    BY <1>6, <1>13
  <2>2. s.form # "trap"
    BY <1>7, <1>13
  <2> DEFINE x == e /\ alike
  <2>3. x \in BOOLEAN /\ (x => e /\ alike)
    BY <1>9
  <2>4. n = [form |-> s.form, type |-> s.type, bits |-> s.bits, exact |-> x]
    <3>1. s = [form |-> s.form, type |-> s.type, bits |-> s.bits, exact |-> s.exact]
      BY <1>7 DEF IsNode
    <3>2. n = [s EXCEPT !.exact = x]
      BY <2>1
    <3> HIDE DEF s, x
    <3> QED
      BY <3>1, <3>2, NodeWith
  <2>5. IsNode(n) /\ n.type = s.type /\ n.bits = s.bits /\ n.exact = x
    <3> HIDE DEF s, x
    <3> QED
      BY <1>7, <2>2, <2>3, <2>4 DEF IsNode
  <2>6. n.exact => c.exact /\ a.exact /\ b.exact
    <3> HIDE DEF s, x, alike
    <3> QED
      BY <2>3, <2>5
  <2>7. n.exact => n.type = h.left
    <3> HIDE DEF s, x, alike
    <3> QED
      BY <1>11, <2>3, <2>5
  <2> HIDE DEF s, x, alike, e
  <2> QED
    BY <1>4, <1>5, <1>8, <1>10, <2>5, <2>6, <2>7 DEF h, a, b, n
<1>14. CASE "trap" \notin {c.form, a.form, b.form} /\ ~(folding /\ c.form = "literal")
  <2>1. n = Node(FALSE, h.left, s.bits, e)
    BY <1>6, <1>14
  <2>2. InRange(h.left, s.bits)
    <3> HIDE DEF s
    <3> QED
      BY <1>2, <1>7, <1>8, RangeAlike DEF IsNode
  <2>3. IsNode(n) /\ n.type = h.left /\ n.bits = s.bits /\ n.exact = e
    <3> HIDE DEF s, e
    <3>1. \A no \in BOOLEAN : LET m == Node(no, h.left, s.bits, e)
                              IN  IsNode(m) /\ m.type = h.left /\ m.bits = s.bits /\ m.exact = e
      BY <1>2, <1>9, <2>2, NodeOf
    <3> QED
      BY <2>1, <3>1
  <2>4. e => c.exact /\ a.exact /\ b.exact
    OBVIOUS
  <2>5. Likes(h.left, n.type)
    BY <2>3 DEF Likes
  <2> HIDE DEF s, e, alike
  <2> QED
    BY <1>4, <1>5, <1>10, <2>3, <2>4, <2>5 DEF h, a, b, n
<1> QED
  BY <1>12, <1>13, <1>14

(* Folding does not change what an iif gives.                              *)
LEMMA IifPair ==
  ASSUME NEW ct, NEW c, NEW cp, NEW tt, NEW t, NEW pt, NEW ft, NEW f, NEW pf,
         Pair(ct, c, cp), Pair(tt, t, pt), Pair(ft, f, pf),
         AcceptsIif(t.type, f.type)
  PROVE  Pair(HarmonizeNumericOperands(t.type, f.type).left,
              IifNode(TRUE, c, t.type, t, f.type, f),
              IifNode(FALSE, cp, pt.type, pt, pf.type, pf))
<1> DEFINE h == HarmonizeNumericOperands(t.type, f.type)
           k == HarmonizeNumericOperands(pt.type, pf.type)
           n == IifNode(TRUE, c, t.type, t, f.type, f)
           q == IifNode(FALSE, cp, pt.type, pt, pf.type, pf)
           a == Converted(TRUE, h.left, t.type, t)
           b == Converted(TRUE, h.right, f.type, f)
           x == Converted(FALSE, k.left, pt.type, pt)
           y == Converted(FALSE, k.right, pf.type, pf)
<1>1. /\ IsNode(c) /\ IsNode(t) /\ IsNode(f) /\ IsNode(cp) /\ IsNode(pt) /\ IsNode(pf)
      /\ t.type \in ValueTypes /\ f.type \in ValueTypes /\ pt.type \in ValueTypes /\ pf.type \in ValueTypes
      /\ pt.type.kind = t.type.kind /\ pf.type.kind = f.type.kind
  BY LikesItself DEF Pair, Likes
<1>2. AcceptsIif(pt.type, pf.type)
  BY <1>1, AcceptsIifOf
<1>3. /\ IsNode(n) /\ Likes(h.left, n.type)
      /\ n.exact => /\ c.exact /\ a.exact /\ b.exact /\ t.exact /\ f.exact
                    /\ n.type = h.left
                    /\ n.bits = IF c.bits = 1 THEN a.bits ELSE b.bits
  <2>1. \A folding \in BOOLEAN :
          LET A == Converted(folding, h.left, t.type, t)
              B == Converted(folding, h.right, f.type, f)
              m == IifNode(folding, c, t.type, t, f.type, f)
          IN  /\ IsNode(m) /\ Likes(h.left, m.type)
              /\ m.exact => /\ c.exact /\ A.exact /\ B.exact /\ t.exact /\ f.exact
                            /\ m.type = h.left
                            /\ m.bits = IF c.bits = 1 THEN A.bits ELSE B.bits
    BY <1>1, IifNodeOf
  <2> QED
    BY <2>1
<1>4. /\ IsNode(q) /\ Likes(k.left, q.type)
      /\ q.exact => /\ cp.exact /\ x.exact /\ y.exact /\ pt.exact /\ pf.exact
                    /\ q.type = k.left
                    /\ q.bits = IF cp.bits = 1 THEN x.bits ELSE y.bits
  <2>1. \A folding \in BOOLEAN :
          LET A == Converted(folding, k.left, pt.type, pt)
              B == Converted(folding, k.right, pf.type, pf)
              m == IifNode(folding, cp, pt.type, pt, pf.type, pf)
          IN  /\ IsNode(m) /\ Likes(k.left, m.type)
              /\ m.exact => /\ cp.exact /\ A.exact /\ B.exact /\ pt.exact /\ pf.exact
                            /\ m.type = k.left
                            /\ m.bits = IF cp.bits = 1 THEN A.bits ELSE B.bits
    BY <1>1, <1>2, IifNodeOf
  <2> QED
    BY <2>1
<1>5. /\ h.left \in ValueTypes /\ h.right \in ValueTypes
      /\ CanConvert(h.left, t.type) /\ CanConvert(h.right, f.type)
      /\ h.left.kind = k.left.kind
  <2>1. /\ h.left.kind = IF t.type.kind = "int" /\ f.type.kind = "float" THEN "float" ELSE t.type.kind
        /\ h.left \in ValueTypes /\ h.right \in ValueTypes
        /\ CanConvert(h.left, t.type) /\ CanConvert(h.right, f.type)
    BY <1>1, HarmonizedOf
  <2>2. k.left.kind = IF pt.type.kind = "int" /\ pf.type.kind = "float" THEN "float" ELSE pt.type.kind
    BY <1>1, HarmonizedOf
  <2> QED
    BY <1>1, <2>1, <2>2
<1>6. ASSUME n.exact, q.exact
      PROVE  Same(n, q) /\ h.left = n.type
  <2>1. Same(c, cp) /\ Same(t, pt) /\ Same(f, pf)
    BY <1>3, <1>4, <1>6, ExactPair
  <2>2. pt.type = t.type /\ pf.type = f.type /\ k = h
    BY <2>1 DEF Same
  <2>3. x = Converted(FALSE, h.left, t.type, pt) /\ y = Converted(FALSE, h.right, f.type, pf)
    BY <2>2
  <2> DEFINE X == Converted(FALSE, h.left, t.type, pt)
             Y == Converted(FALSE, h.right, f.type, pf)
  <2>6. a.exact /\ b.exact /\ X.exact /\ Y.exact
    BY <1>3, <1>4, <1>6, <2>3
  <2> HIDE DEF h, k
  <2>4. Same(a, X)
    BY <1>1, <1>5, <2>1, <2>6, ConvertedAgree
  <2>5. Same(b, Y)
    BY <1>1, <1>5, <2>1, <2>6, ConvertedAgree
  <2>7. x = X /\ y = Y
    BY <2>3
  <2> HIDE DEF X, Y
  <2> HIDE DEF n, q, a, b, x, y
  <2> QED
    BY <1>3, <1>4, <1>6, <2>1, <2>2, <2>4, <2>5, <2>7 DEF Same
<1> HIDE DEF n, q, h, k, a, b, x, y
<1>7. q.type.kind = h.left.kind
  BY <1>4, <1>5 DEF Likes
<1> QED
  BY <1>3, <1>4, <1>5, <1>6, <1>7 DEF Pair, n, q, h

(* The node of a rounded float.                                            *)
LEMMA RoundNodeOf ==
  ASSUME NEW folding \in BOOLEAN, NEW mode \in RoundModes, NEW c, IsNode(c), IsFloat(c)
  PROVE  LET n == RoundNode(folding, mode, c)
         IN  /\ IsNode(n) /\ n.type = HostInt
             /\ n.exact => c.exact /\ n.bits = Pattern(HostInt, Rounded(mode, c.bits))
<1> DEFINE n == RoundNode(folding, mode, c)
           r == Rounded(mode, c.bits)
           v == Pattern(HostInt, r)
           folds == folding /\ IsConst(c)
           e == c.exact /\ Number(HostInt, v) = r
<1>1. r \in Int
  BY RoundedOf DEF IsNode, InRange, IsFloat
<1>2. HostInt \in IntTypes /\ HostInt \in ValueTypes /\ HostInt.kind = "int"
  BY HostIntIs, IntTypeOf DEF ValueTypes
<1>3. v \in Patterns(HostInt)
  <2> HIDE DEF r
  <2> QED
    BY <1>1, <1>2, PatternOf
<1>4. InRange(HostInt, v)
  <2> HIDE DEF v
  <2> QED
    BY <1>2, <1>3 DEF InRange
<1>5. folds \in BOOLEAN /\ e \in BOOLEAN
  BY DEF IsNode
<1>6. n = IF c.form = "trap" THEN Trap(HostInt) ELSE Node(folds, HostInt, v, e)
  BY DEF RoundNode
<1>7. e => c.exact
  OBVIOUS
<1> HIDE DEF n, v, folds, e
<1>8. /\ IsNode(Node(folds, HostInt, v, e)) /\ Node(folds, HostInt, v, e).type = HostInt
      /\ Node(folds, HostInt, v, e).bits = v /\ Node(folds, HostInt, v, e).exact = e
  BY <1>2, <1>4, <1>5, NodeOf
<1>9. IsNode(n) /\ n.type = HostInt /\ (n.exact => e /\ n.bits = v)
  BY <1>2, <1>6, <1>8, TreeOf
<1> QED
  BY <1>7, <1>9 DEF n, v

(* Folding does not change what rounding gives.                            *)
LEMMA RoundPair ==
  ASSUME NEW mode \in RoundModes, NEW t, NEW c, NEW p, Pair(t, c, p), IsFloat(c)
  PROVE  Pair(HostInt, RoundNode(TRUE, mode, c), RoundNode(FALSE, mode, p))
<1> DEFINE n == RoundNode(TRUE, mode, c)
           q == RoundNode(FALSE, mode, p)
           Of(x) == Pattern(HostInt, Rounded(mode, x))
<1>1. IsNode(c) /\ IsNode(p) /\ IsFloat(p)
  BY DEF Pair, Likes, IsFloat
<1>2. IsNode(n) /\ n.type = HostInt /\ (n.exact => c.exact /\ n.bits = Of(c.bits))
  <2>1. \A folding \in BOOLEAN :
          LET m == RoundNode(folding, mode, c)
          IN  IsNode(m) /\ m.type = HostInt /\ (m.exact => c.exact /\ m.bits = Of(c.bits))
    BY <1>1, RoundNodeOf
  <2> QED
    BY <2>1
<1>3. IsNode(q) /\ q.type = HostInt /\ (q.exact => p.exact /\ q.bits = Of(p.bits))
  <2>1. \A folding \in BOOLEAN :
          LET m == RoundNode(folding, mode, p)
          IN  IsNode(m) /\ m.type = HostInt /\ (m.exact => p.exact /\ m.bits = Of(p.bits))
    BY <1>1, RoundNodeOf
  <2> QED
    BY <2>1
<1>4. HostInt \in ValueTypes /\ Likes(HostInt, HostInt)
  BY HostIntIs DEF Likes, ValueTypes
<1>5. c.exact /\ p.exact => Same(c, p)
  BY ExactPair
<1>6. c.exact /\ p.exact => Of(c.bits) = Of(p.bits)
  BY <1>5 DEF Same
<1> HIDE DEF n, q, Of
<1> QED
  BY <1>2, <1>3, <1>4, <1>6 DEF Pair, Same, n, q

(* Folding does not change what a cast gives.                              *)
LEMMA CastPair ==
  ASSUME NEW s, NEW c, NEW p, Pair(s, c, p), NEW t \in ValueTypes, CanConvert(t, c.type)
  PROVE  Pair(t, Converted(TRUE, t, c.type, c), Converted(FALSE, t, p.type, p))
<1> DEFINE n == Converted(TRUE, t, c.type, c)
           q == Converted(FALSE, t, p.type, p)
<1>1. /\ IsNode(c) /\ IsNode(p) /\ p.type.kind = c.type.kind
      /\ c.type \in ValueTypes /\ p.type \in ValueTypes
  BY LikesItself DEF Pair, Likes
<1>2. CanConvert(t, p.type)
  BY <1>1, CanConvertKinds
<1>3. IsNode(n) /\ n.type = t /\ (n.exact => c.exact)
  <2>1. Likes(c.type, c.type)
    BY <1>1, LikesItself
  <2>2. \A folding \in BOOLEAN :
          LET m == Converted(folding, t, c.type, c)
          IN  IsNode(m) /\ m.type = t /\ (m.exact => c.exact)
    BY <1>1, <2>1, ConvertedOf
  <2> QED
    BY <2>2
<1>4. IsNode(q) /\ q.type = t /\ (q.exact => p.exact)
  <2>1. Likes(p.type, p.type)
    BY <1>1, LikesItself
  <2>2. \A folding \in BOOLEAN :
          LET m == Converted(folding, t, p.type, p)
          IN  IsNode(m) /\ m.type = t /\ (m.exact => p.exact)
    BY <1>1, <1>2, <2>1, ConvertedOf
  <2> QED
    BY <2>2
<1>5. ASSUME n.exact, q.exact
      PROVE  Same(n, q)
  <2>1. Same(c, p)
    BY <1>3, <1>4, <1>5, ExactPair
  <2>2. p.type = c.type
    BY <2>1 DEF Same
  <2> DEFINE x == Converted(FALSE, t, c.type, p)
  <2>3. q = x
    BY <2>2
  <2>4. n.exact /\ x.exact
    BY <1>5, <2>3
  <2>5. Same(n, x)
    BY <1>1, <2>1, <2>4, ConvertedAgree
  <2> HIDE DEF n, q, x
  <2> QED
    BY <2>3, <2>5
<1>6. Likes(t, t)
  BY DEF Likes
<1> HIDE DEF n, q
<1> QED
  BY <1>3, <1>4, <1>5, <1>6 DEF Pair, n, q

(* A constant's value is kept under its name.                              *)
LEMMA ConstPair ==
  ASSUME NEW t, NEW c, NEW p, Pair(t, c, p)
  PROVE  Pair(t, [c EXCEPT !.form = "const"], p)
<1> DEFINE n == [c EXCEPT !.form = "const"]
<1>1. IsNode(c) /\ c = [form |-> c.form, type |-> c.type, bits |-> c.bits, exact |-> c.exact]
  BY DEF Pair, IsNode
<1>2. n = [form |-> "const", type |-> c.type, bits |-> c.bits, exact |-> c.exact]
  BY <1>1, NodeWith
<1>3. IsNode(n) /\ n.type = c.type /\ n.bits = c.bits /\ n.exact = c.exact
  <2> HIDE DEF n
  <2> QED
    BY <1>1, <1>2 DEF IsNode, Forms
<1> HIDE DEF n
<1> QED
  BY <1>3 DEF Pair, Same, n

(* A cast that ConvertExprToType does not refuse is a conversion of numbers *)
(* or of a bool to an integer.                                             *)
LEMMA CastIsPossible ==
  ASSUME NEW t \in ValueTypes, NEW s \in ValueTypes, NEW view, view.type = s,
         ConvertExprToType(t, view, TRUE, FALSE) # "refused"
  PROVE  CanConvert(t, s)
<1>1. t.kind \in {"int", "float", "bool"} /\ s.kind \in {"int", "float", "bool"}
  BY ValueTypeOf
<1>2. t.kind # s.kind => WrapsOtherKind(t, view, TRUE) \/ KeepsOtherKind(t, view, TRUE, FALSE)
  BY DEF ConvertExprToType
<1>3. t.kind # s.kind => (t.kind = "float" /\ s.kind = "int") \/ (t.kind = "int" /\ s.kind = "bool")
  BY <1>1, <1>2 DEF WrapsOtherKind, KeepsOtherKind
<1> QED
  BY <1>3, CanConvertKinds

(* So is what a constant's declaration accepts.                            *)
LEMMA ConstantIsPossible ==
  ASSUME NEW t \in ValueTypes, NEW c, IsNode(c), IsConstantFor(t, c)
  PROVE  CanConvert(t, c.type)
<1>1. t.kind \in {"int", "float", "bool"}
  BY ValueTypeOf
<1>2. c.type \in ValueTypes
  BY DEF IsNode
<1>3. \/ t.kind = c.type.kind
      \/ t.kind = "float" /\ c.type.kind = "int"
  <2>1. CASE t.kind = "int"
    BY <2>1 DEF IsConstantFor, IsInt
  <2>2. CASE t.kind = "float"
    BY <2>2 DEF IsConstantFor, IsFloatConst, IsFloat, IsInt
  <2>3. CASE t.kind = "bool"
    BY <2>3 DEF IsConstantFor, IsBool
  <2> QED
    BY <1>1, <2>1, <2>2, <2>3
<1> QED
  BY <1>2, <1>3, CanConvertKinds

(* An operand has one value, folded or not.                                *)
LEMMA LeafPair ==
  ASSUME NEW leaf \in Leaves, NEW c,
         c = [form |-> leaf.form, type |-> leaf.type, bits |-> leaf.bits, exact |-> TRUE]
  PROVE  Pair(leaf.type, c, c) /\ IsSmall(c)
<1>1. leaf.form \in {"literal", "const", "tree"} /\ leaf.type \in ValueTypes /\ Fits(leaf)
  BY LeavesAssumption
<1>2. leaf.type.kind \in {"int", "float", "bool"}
  BY <1>1, ValueTypeOf
<1>3. /\ leaf.type.kind = "int" => leaf.bits \in Patterns(leaf.type)
      /\ leaf.type.kind = "bool" => leaf.bits \in {0, 1}
      /\ leaf.type.kind = "float" => leaf.bits \in (-MaxFloat..MaxFloat) \X (1..MaxFloat)
  <2> DEFINE k == leaf.type.kind
             b == leaf.bits
             x == 0..(Power2[leaf.type.bits] - 1)
             y == (-MaxFloat..MaxFloat) \X (1..MaxFloat)
  <2>1. (CASE k = "int"   -> b \in x
           [] k = "bool"  -> b \in {0, 1}
           [] k = "float" -> b \in y)
    BY <1>1 DEF Fits, IsInt, IsBool, IsFloat
  <2>2. x = Patterns(leaf.type)
    BY DEF Patterns
  <2> HIDE DEF k, b, x, y
  <2>3. /\ k = "int" => b \in x
        /\ k = "bool" => b \in {0, 1}
        /\ k = "float" => b \in y
    BY <2>1
  <2> QED
    BY <2>2, <2>3 DEF k, b, y
<1>6. MaxFloat \in Nat
  BY ExprAssumption
<1>7. InRange(leaf.type, leaf.bits)
  BY <1>3, <1>6 DEF InRange, Fractions
<1>8. c.type = leaf.type /\ c.bits = leaf.bits /\ c.form = leaf.form /\ c.exact = TRUE
  OBVIOUS
<1>9. IsNode(c)
  BY <1>1, <1>7, <1>8 DEF IsNode, Forms
<1>10. IsSmall(c)
  BY <1>3, <1>6, <1>8 DEF IsSmall, IsFloat
<1> QED
  BY <1>1, <1>8, <1>9, <1>10 DEF Pair, Same, Likes

Values == Int \cup Fractions

Nodes == {c \in [form : Forms, type : ValueTypes, bits : Values, exact : BOOLEAN] : IsNode(c)}

(* What is on the stack.                                                   *)
StackEntries ==
  {e \in [type : ValueTypes, code : Nodes, plain : Nodes] :
     Pair(e.type, e.code, e.plain) /\ IsSmall(e.code) /\ IsSmall(e.plain)}

ExprInv ==
  /\ outcome \in {"reading", "refused", "crashed"}
  /\ operators \in 0..MaxOperators
  /\ operands \in Seq(StackEntries)
  /\ OperandsAgree

(* Nodes are a set.                                                        *)
LEMMA NodeIn ==
  ASSUME NEW c, IsNode(c)
  PROVE  c \in Nodes
<1>1. c.type.kind \in {"int", "bool", "float"} /\ c.type \in ValueTypes
  BY ValueTypeOf DEF IsNode
<1>2. c.type.kind = "int" => c.bits \in Int
  BY <1>1, ValueTypeOf, OwnPattern DEF IsNode, InRange
<1>3. c.bits \in Values
  BY <1>1, <1>2 DEF IsNode, InRange, Values
<1> QED
  BY <1>3 DEF IsNode, Nodes

(* What an action puts on the stack.                                       *)
LEMMA EntryOf ==
  ASSUME NEW t, NEW c, NEW p, Pair(t, c, p), IsSmall(c), IsSmall(p)
  PROVE  [type |-> t, code |-> c, plain |-> p] \in StackEntries
<1> DEFINE e == [type |-> t, code |-> c, plain |-> p]
<1>1. c \in Nodes /\ p \in Nodes /\ t \in ValueTypes
  BY NodeIn DEF Pair
<1>2. e.type = t /\ e.code = c /\ e.plain = p /\ e \in [type : ValueTypes, code : Nodes, plain : Nodes]
  BY <1>1
<1> HIDE DEF e
<1> QED
  BY <1>2 DEF StackEntries, e

(* What an action finds on the stack, also after parentheses.              *)
LEMMA EntryIs ==
  ASSUME NEW e \in StackEntries
  PROVE  /\ Pair(e.type, e.code, e.plain) /\ IsSmall(e.code) /\ IsSmall(e.plain)
         /\ e = [type |-> e.type, code |-> e.code, plain |-> e.plain]
         /\ Pair(e.code.type, e.code, e.plain)
<1>1. /\ Pair(e.type, e.code, e.plain) /\ IsSmall(e.code) /\ IsSmall(e.plain)
      /\ e \in [type : ValueTypes, code : Nodes, plain : Nodes]
  BY DEF StackEntries
<1>2. Pair(e.code.type, e.code, e.plain)
  BY <1>1, LikesItself DEF Pair, Likes
<1> QED
  BY <1>1, <1>2

(* The node takes the place of the operands.                               *)
LEMMA PushedEntry ==
  ASSUME NEW S, NEW s \in Seq(S), NEW k \in 0..Len(s), NEW e \in S
  PROVE  Append(SubSeq(s, 1, Len(s) - k), e) \in Seq(S)
<1>1. Len(s) \in Nat /\ Len(s) - k \in 0..Len(s)
  OBVIOUS
<1>2. SubSeq(s, 1, Len(s) - k) \in Seq(S)
  BY <1>1
<1> QED
  BY <1>2

(* The operands at the top are on the stack.                               *)
LEMMA TopOf ==
  ASSUME ExprInv, NEW k \in Nat, k < Len(operands)
  PROVE  top(k) \in StackEntries
<1>1. operands \in Seq(StackEntries) /\ Len(operands) - k \in 1..Len(operands)
  BY DEF ExprInv
<1> QED
  BY <1>1 DEF top

(* A step that builds no operator says nothing of operands.                *)
LEMMA NoNodeAgrees == node' = NoNode => OperandsAgree'
<1>1. "none" \notin BinOps \cup {"compare"}
  BY DEF BinOps, IntOps, BitOps, FloatOps
<1> QED
  BY <1>1 DEF OperandsAgree, NoNode

(* A step that builds a node keeps the invariant if folding did not change *)
(* its value and its operands agree.                                       *)
LEMMA BuiltKeeps ==
  ASSUME ExprInv, NEW k \in 0..Len(operands), NEW t, NEW c, NEW p, NEW n,
         Built(k, t, c, p, n), Pair(t, c, p), OperandsAgree', Reading
  PROVE  ExprInv'
<1>1. [type |-> t, code |-> c, plain |-> p] \in StackEntries
  BY EntryOf DEF Built
<1>2. operands' = Append(SubSeq(operands, 1, Len(operands) - k), [type |-> t, code |-> c, plain |-> p])
  BY DEF Built, below
<1>3. operands \in Seq(StackEntries) /\ operators \in 0..MaxOperators /\ MaxOperators \in Nat
  BY ExprAssumption DEF ExprInv
<1>4. operands' \in Seq(StackEntries)
  <2> DEFINE e == [type |-> t, code |-> c, plain |-> p]
  <2>1. e \in StackEntries /\ operands' = Append(SubSeq(operands, 1, Len(operands) - k), e)
    BY <1>1, <1>2
  <2> HIDE DEF e
  <2> QED
    BY <1>3, <2>1, PushedEntry
<1>5. operators' \in 0..MaxOperators /\ outcome' = "reading"
  BY <1>3 DEF Built, Reading
<1> QED
  BY <1>4, <1>5 DEF ExprInv

(* An error keeps the invariant.                                           *)
LEMMA StoppedKeeps ==
  ASSUME ExprInv, NEW how \in {"reading", "refused", "crashed"}, Stopped(how)
  PROVE  ExprInv'
<1>1. MaxOperators \in Nat
  BY ExprAssumption
<1>2. <<>> \in Seq(StackEntries)
  OBVIOUS
<1>3. OperandsAgree'
  BY NoNodeAgrees DEF Stopped
<1> QED
  BY <1>1, <1>2, <1>3 DEF Stopped, ExprInv

(* Numbers whose types are like two that are alike are of one kind and     *)
(* width.                                                                  *)
LEMMA AlikeAgree ==
  ASSUME NEW l \in ValueTypes, NEW r \in ValueTypes, NEW gl, NEW gr,
         Likes(gl, l), Likes(gr, r), Likes(gl, gr), l.kind \in Numeric
  PROVE  l.kind = r.kind /\ l.bits = r.bits
<1>1. l.kind = r.kind /\ l.kind \in {"int", "float"}
  BY DEF Likes, Numeric
<1>2. l.kind = "int" => l.bits = r.bits
  BY <1>1 DEF Likes
<1>3. l.kind = "float" => l = r
  BY <1>1, ValueTypeOf
<1> QED
  BY <1>1, <1>2, <1>3

(* Every action keeps the invariant.                                       *)
LEMMA OperandStep ==
  ASSUME ExprInv, NEW leaf \in Leaves, Operand(leaf)
  PROVE  ExprInv'
<1> DEFINE c == [form |-> leaf.form, type |-> leaf.type, bits |-> leaf.bits, exact |-> TRUE]
           e == [type |-> leaf.type, code |-> c, plain |-> c]
<1>1. Pair(leaf.type, c, c) /\ IsSmall(c)
  BY LeafPair
<1>2. e \in StackEntries
  <2> HIDE DEF c
  <2> QED
    BY <1>1, EntryOf
<1>3. operands' = Append(operands, e) /\ UNCHANGED <<operators, outcome>> /\ node' = NoNode
  BY DEF Operand
<1>4. OperandsAgree'
  BY <1>3, NoNodeAgrees
<1> HIDE DEF e
<1>5. operands' \in Seq(StackEntries)
  BY <1>2, <1>3 DEF ExprInv
<1> QED
  BY <1>3, <1>4, <1>5 DEF ExprInv

(* An operator with two operands.                                          *)
LEMMA BinStep ==
  ASSUME ExprInv, NEW op \in BinOps, BinExpr(op)
  PROVE  ExprInv'
<1> DEFINE l == top(1)
           r == top(0)
           g == BinGoals(op, l.type, r.type)
           a == Converted(TRUE, g.left, l.type, l.code)
           b == Converted(TRUE, g.right, r.type, r.code)
           o == BinOperands(TRUE, op, l.type, l.code, r.type, r.code)
           n == BinNode(TRUE, op, l.type, l.code, r.type, r.code)
           q == BinNode(FALSE, op, l.plain.type, l.plain, r.plain.type, r.plain)
<1>1. Reading /\ Len(operands) >= 2 /\ Len(operands) \in Nat
  BY DEF BinExpr, ExprInv
<1>2. l \in StackEntries /\ r \in StackEntries
  BY <1>1, TopOf
<1>3. Pair(l.type, l.code, l.plain) /\ Pair(r.type, r.code, r.plain)
  BY <1>2, EntryIs
<1>4. CASE ~AcceptsBin(op, l.type, r.type)
  BY <1>4, StoppedKeeps DEF BinExpr
<1>5. CASE AcceptsBin(op, l.type, r.type)
  <2>1. Built(2, g.type, n, q, Generated(op, n, o))
    BY <1>5 DEF BinExpr
  <2>2. Pair(g.type, n, q)
    <3> HIDE DEF l, r
    <3> QED
      BY <1>3, <1>5, BinPair
  <2>3. o[1] = a /\ o[2] = b
    BY DEF BinOperands
  <2>4. IsNode(a) /\ IsNode(b) /\ Likes(g.left, a.type) /\ Likes(g.right, b.type)
    <3> HIDE DEF l, r
    <3>1. /\ l.type \in ValueTypes /\ r.type \in ValueTypes /\ IsNode(l.code) /\ IsNode(r.code)
          /\ Likes(l.type, l.code.type) /\ Likes(r.type, r.code.type)
      BY <1>3 DEF Pair
    <3>2. \A folding \in BOOLEAN :
            LET A == Converted(folding, g.left, l.type, l.code)
                B == Converted(folding, g.right, r.type, r.code)
            IN  IsNode(A) /\ IsNode(B) /\ Likes(g.left, A.type) /\ Likes(g.right, B.type)
      BY <1>5, <3>1, BinNodeOf
    <3> QED
      BY <3>2
  <2>5. op \notin BitOps \cup {"/"} => Likes(g.left, g.right)
    <3> HIDE DEF l, r
    <3>1. l.type \in ValueTypes /\ r.type \in ValueTypes
      BY <1>3 DEF Pair
    <3> QED
      BY <1>5, <3>1, BinGoalsOf
  <2>6. node'.op = op /\ node'.left = a.type /\ node'.right = b.type
    <3>1. node' = Generated(op, n, o)
      BY <2>1 DEF Built
    <3> HIDE DEF n, o, a, b
    <3> QED
      BY <2>3, <3>1 DEF Generated
  <2> HIDE DEF a, b, g, o, n, q
  <2>7. OperandsAgree'
    <3>1. a.type \in ValueTypes /\ b.type \in ValueTypes
      BY <2>4 DEF IsNode
    <3>2. op \notin BitOps \cup {"/"} /\ a.type.kind \in Numeric
            => a.type.kind = b.type.kind /\ a.type.bits = b.type.bits
      BY <2>4, <2>5, <3>1, AlikeAgree
    <3>3. OperandsAgree' = (node'.op \in (BinOps \cup {"compare"}) \ (BitOps \cup {"/"})
                              /\ {node'.left.kind, node'.right.kind} \subseteq Numeric
                            => node'.left.kind = node'.right.kind /\ node'.left.bits = node'.right.bits)
      BY DEF OperandsAgree
    <3> QED
      BY <2>6, <3>2, <3>3
  <2> QED
    BY <1>1, <2>1, <2>2, <2>7, BuiltKeeps
<1> QED
  BY <1>4, <1>5

(* A comparison.                                                           *)
LEMMA CompareStep ==
  ASSUME ExprInv, NEW op \in CompareOps, CompareExpr(op)
  PROVE  ExprInv'
<1> DEFINE l == top(1)
           r == top(0)
           h == HarmonizeNumericOperands(l.type, r.type)
           a == Converted(TRUE, h.left, l.type, l.code)
           b == Converted(TRUE, h.right, r.type, r.code)
           o == CompareOperands(TRUE, l.type, l.code, r.type, r.code)
           n == CompareNode(TRUE, op, l.type, l.code, r.type, r.code)
           q == CompareNode(FALSE, op, l.plain.type, l.plain, r.plain.type, r.plain)
<1>1. Reading /\ Len(operands) >= 2 /\ Len(operands) \in Nat
  BY DEF CompareExpr, ExprInv
<1>2. l \in StackEntries /\ r \in StackEntries
  BY <1>1, TopOf
<1>3. Pair(l.type, l.code, l.plain) /\ Pair(r.type, r.code, r.plain)
  BY <1>2, EntryIs
<1>4. Built(2, BoolType, n, q, Generated("compare", n, o))
  BY DEF CompareExpr
<1>5. Pair(BoolType, n, q)
  <2> HIDE DEF l, r
  <2> QED
    BY <1>3, ComparePair
<1>6. o[1] = a /\ o[2] = b
  BY DEF CompareOperands
<1>7. node'.left = a.type /\ node'.right = b.type
  <2>1. node' = Generated("compare", n, o)
    BY <1>4 DEF Built
  <2> HIDE DEF n, o, a, b
  <2> QED
    BY <1>6, <2>1 DEF Generated
<1> HIDE DEF l, r
<1>8. /\ l.type \in ValueTypes /\ r.type \in ValueTypes /\ IsNode(l.code) /\ IsNode(r.code)
      /\ Likes(l.type, l.code.type) /\ Likes(r.type, r.code.type)
  BY <1>3 DEF Pair
<1>9. IsNode(a) /\ IsNode(b) /\ Likes(h.left, a.type) /\ Likes(h.right, b.type)
  <2>1. \A folding \in BOOLEAN :
          LET A == Converted(folding, h.left, l.type, l.code)
              B == Converted(folding, h.right, r.type, r.code)
          IN  IsNode(A) /\ IsNode(B) /\ Likes(h.left, A.type) /\ Likes(h.right, B.type)
    BY <1>8, CompareNodeOf
  <2> QED
    BY <2>1
<1>10. Likes(h.left, h.right) \/ ~({h.left.kind, h.right.kind} \subseteq Numeric)
  <2>1. /\ h.ok <=> l.type.kind \in Numeric /\ r.type.kind \in Numeric
        /\ h.ok \/ l.type = r.type => Likes(h.left, h.right)
        /\ h.left.kind = IF l.type.kind = "int" /\ r.type.kind = "float" THEN "float" ELSE l.type.kind
        /\ h.right.kind = IF l.type.kind = "float" /\ r.type.kind = "int" THEN "float" ELSE r.type.kind
    BY <1>8, HarmonizedOf
  <2> HIDE DEF h
  <2> QED
    BY <2>1 DEF Numeric
<1> HIDE DEF h, a, b, n, q, o
<1>11. OperandsAgree'
  <2>1. a.type \in ValueTypes /\ b.type \in ValueTypes /\ a.type.kind = h.left.kind /\ b.type.kind = h.right.kind
    BY <1>9 DEF IsNode, Likes
  <2>2. {a.type.kind, b.type.kind} \subseteq Numeric
          => a.type.kind = b.type.kind /\ a.type.bits = b.type.bits
    BY <1>9, <1>10, <2>1, AlikeAgree
  <2>3. OperandsAgree' = (node'.op \in (BinOps \cup {"compare"}) \ (BitOps \cup {"/"})
                            /\ {node'.left.kind, node'.right.kind} \subseteq Numeric
                          => node'.left.kind = node'.right.kind /\ node'.left.bits = node'.right.bits)
    BY DEF OperandsAgree
  <2> QED
    BY <1>7, <2>2, <2>3
<1> QED
  BY <1>1, <1>4, <1>5, <1>11, BuiltKeeps

-----------------------------------------------------------------------------
(* `and' and `or'.                                                         *)
LEMMA LogicalStep ==
  ASSUME ExprInv, NEW op \in LogicalOps, LogicalExpr(op)
  PROVE  ExprInv'
<1> DEFINE l == top(1)
           r == top(0)
           n == LogicalNode(TRUE, op, l.code, r.code)
           q == LogicalNode(FALSE, op, l.plain, r.plain)
<1>1. Reading /\ Len(operands) >= 2 /\ Len(operands) \in Nat
  BY DEF LogicalExpr, ExprInv
<1>2. l \in StackEntries /\ r \in StackEntries
  BY <1>1, TopOf
<1>3. Built(2, BoolType, n, q, NoNode)
  BY DEF LogicalExpr
<1>4. Pair(BoolType, n, q)
  <2> HIDE DEF l, r
  <2> QED
    BY <1>2, EntryIs, LogicalPair
<1> HIDE DEF n, q
<1>5. OperandsAgree'
  BY <1>3, NoNodeAgrees DEF Built
<1> QED
  BY <1>1, <1>3, <1>4, <1>5, BuiltKeeps

(* An operator with one operand.                                           *)
LEMMA UnaryStep ==
  ASSUME ExprInv, NEW op \in UnaryOps, UnaryExpr(op)
  PROVE  ExprInv'
<1> DEFINE e == top(0)
           n == UnaryNode(TRUE, op, e.type, e.code)
           q == UnaryNode(FALSE, op, e.plain.type, e.plain)
<1>1. Reading /\ operands # <<>> /\ Len(operands) \in Nat /\ Len(operands) >= 1
  BY DEF UnaryExpr, ExprInv
<1>2. e \in StackEntries
  BY <1>1, TopOf
<1>3. Built(1, UnaryType(op, e.type), n, q, NoNode)
  BY DEF UnaryExpr
<1>4. Pair(UnaryType(op, e.type), n, q)
  <2> HIDE DEF e
  <2> QED
    BY <1>2, EntryIs, UnaryPair
<1> HIDE DEF n, q
<1>5. OperandsAgree'
  BY <1>3, NoNodeAgrees DEF Built
<1> QED
  BY <1>1, <1>3, <1>4, <1>5, BuiltKeeps

(* Parentheses, or the end of an argument.                                 *)
LEMMA ParenthesesStep ==
  ASSUME ExprInv, Parentheses
  PROVE  ExprInv'
<1> DEFINE e == top(0)
           k == Len(operands)
           f == [type |-> e.code.type, code |-> e.code, plain |-> e.plain]
<1>1. operands # <<>> /\ operands \in Seq(StackEntries) /\ k \in 1..Len(operands)
  BY DEF Parentheses, ExprInv
<1>2. e \in StackEntries /\ e = operands[k]
  BY <1>1, TopOf DEF top
<1>3. f \in StackEntries
  <2> HIDE DEF e
  <2> QED
    BY <1>2, EntryIs, EntryOf
<1>4. operands' = [operands EXCEPT ![k] = [operands[k] EXCEPT !.type = e.code.type]]
  BY DEF Parentheses
<1>5. [e EXCEPT !.type = e.code.type] = f
  <2> HIDE DEF e
  <2>1. e = [type |-> e.type, code |-> e.code, plain |-> e.plain]
    BY <1>2, EntryIs
  <2>2. \A x : [e EXCEPT !.type = x] = [type |-> x, code |-> e.code, plain |-> e.plain]
    BY <2>1
  <2> QED
    BY <2>2
<1>6. operands' = [operands EXCEPT ![k] = f]
  <2> HIDE DEF e, f
  <2> QED
    BY <1>2, <1>4, <1>5
<1>7. node' = NoNode /\ UNCHANGED <<operators, outcome>>
  BY DEF Parentheses
<1>8. OperandsAgree'
  BY <1>7, NoNodeAgrees
<1> HIDE DEF f
<1>9. operands' \in Seq(StackEntries)
  BY <1>1, <1>3, <1>6
<1> QED
  BY <1>7, <1>8, <1>9 DEF ExprInv

(* An iif.                                                                 *)
LEMMA IifStep ==
  ASSUME ExprInv, Iif
  PROVE  ExprInv'
<1> DEFINE c == top(2)
           t == top(1)
           f == top(0)
           h == HarmonizeNumericOperands(t.code.type, f.code.type)
           n == IifNode(TRUE, c.code, t.code.type, t.code, f.code.type, f.code)
           q == IifNode(FALSE, c.plain, t.plain.type, t.plain, f.plain.type, f.plain)
<1>1. Reading /\ Len(operands) >= 3 /\ Len(operands) \in Nat
  BY DEF Iif, ExprInv
<1>2. c \in StackEntries /\ t \in StackEntries /\ f \in StackEntries
  BY <1>1, TopOf
<1>3. \/ Stopped("crashed") \/ Stopped("refused")
      \/ AcceptsIif(t.code.type, f.code.type) /\ Built(3, h.left, n, q, NoNode)
  BY DEF Iif
<1>4. CASE Stopped("crashed") \/ Stopped("refused")
  BY <1>4, StoppedKeeps
<1>5. CASE AcceptsIif(t.code.type, f.code.type) /\ Built(3, h.left, n, q, NoNode)
  <2>1. Pair(h.left, n, q)
    <3> HIDE DEF c, t, f
    <3> QED
      BY <1>2, <1>5, EntryIs, IifPair
  <2> HIDE DEF h, n, q
  <2>2. OperandsAgree'
    BY <1>5, NoNodeAgrees DEF Built
  <2> QED
    BY <1>1, <1>5, <2>1, <2>2, BuiltKeeps
<1> QED
  BY <1>3, <1>4, <1>5

(* A rounding.                                                             *)
LEMMA RoundStep ==
  ASSUME ExprInv, NEW mode \in RoundModes, FloatRound(mode)
  PROVE  ExprInv'
<1> DEFINE e == top(0)
           n == RoundNode(TRUE, mode, e.code)
           q == RoundNode(FALSE, mode, e.plain)
<1>1. Reading /\ operands # <<>> /\ Len(operands) \in Nat /\ Len(operands) >= 1
  BY DEF FloatRound, ExprInv
<1>2. e \in StackEntries
  BY <1>1, TopOf
<1>3. \/ Stopped("crashed") \/ Stopped("refused")
      \/ IsFloat(e.code) /\ Built(1, HostInt, n, q, NoNode)
  BY DEF FloatRound
<1>4. CASE Stopped("crashed") \/ Stopped("refused")
  BY <1>4, StoppedKeeps
<1>5. CASE IsFloat(e.code) /\ Built(1, HostInt, n, q, NoNode)
  <2>1. Pair(HostInt, n, q)
    <3> HIDE DEF e
    <3> QED
      BY <1>2, <1>5, EntryIs, RoundPair
  <2> HIDE DEF n, q
  <2>2. OperandsAgree'
    BY <1>5, NoNodeAgrees DEF Built
  <2> QED
    BY <1>1, <1>5, <2>1, <2>2, BuiltKeeps
<1> QED
  BY <1>3, <1>4, <1>5

(* A cast.                                                                 *)
LEMMA CastStep ==
  ASSUME ExprInv, NEW t \in ValueTypes, Cast(t)
  PROVE  ExprInv'
<1> DEFINE e == top(0)
           view == [form |-> "value", type |-> e.code.type, folded |-> FALSE, value |-> 0]
           n == Converted(TRUE, t, e.code.type, e.code)
           q == Converted(FALSE, t, e.plain.type, e.plain)
<1>1. Reading /\ operands # <<>> /\ Len(operands) \in Nat /\ Len(operands) >= 1
  BY DEF Cast, ExprInv
<1>2. e \in StackEntries
  BY <1>1, TopOf
<1>3. \/ Stopped("crashed") \/ Stopped("refused")
      \/ ConvertExprToType(t, view, TRUE, FALSE) # "refused" /\ Built(1, t, n, q, NoNode)
  BY DEF Cast
<1>4. CASE Stopped("crashed") \/ Stopped("refused")
  BY <1>4, StoppedKeeps
<1>5. CASE ConvertExprToType(t, view, TRUE, FALSE) # "refused" /\ Built(1, t, n, q, NoNode)
  <2>1. Pair(e.type, e.code, e.plain) /\ e.code.type \in ValueTypes
    <3> HIDE DEF e
    <3> QED
      BY <1>2, EntryIs DEF Pair, IsNode
  <2>2. CanConvert(t, e.code.type)
    <3>1. view.type = e.code.type
      OBVIOUS
    <3> HIDE DEF e, view
    <3> QED
      BY <1>5, <2>1, <3>1, CastIsPossible
  <2>3. Pair(t, n, q)
    <3> HIDE DEF e
    <3> QED
      BY <2>1, <2>2, CastPair
  <2> HIDE DEF n, q
  <2>4. OperandsAgree'
    BY <1>5, NoNodeAgrees DEF Built
  <2> QED
    BY <1>1, <1>5, <2>3, <2>4, BuiltKeeps
<1> QED
  BY <1>3, <1>4, <1>5

(* The declaration of a constant.                                          *)
LEMMA DeclConstStep ==
  ASSUME ExprInv, NEW t \in ValueTypes, DeclConst(t)
  PROVE  ExprInv'
<1> DEFINE e == top(0)
           c == Converted(TRUE, t, e.code.type, e.code)
           n == [c EXCEPT !.form = "const"]
           q == Converted(FALSE, t, e.plain.type, e.plain)
<1>1. Reading /\ Len(operands) \in Nat /\ Len(operands) >= 1
  BY DEF DeclConst, ExprInv
<1>2. e \in StackEntries
  BY <1>1, TopOf
<1>3. \/ Stopped("crashed") \/ Stopped("refused")
      \/ IsConstantFor(t, e.code) /\ Built(1, t, n, q, NoNode)
  BY DEF DeclConst
<1>4. CASE Stopped("crashed") \/ Stopped("refused")
  BY <1>4, StoppedKeeps
<1>5. CASE IsConstantFor(t, e.code) /\ Built(1, t, n, q, NoNode)
  <2>1. Pair(e.type, e.code, e.plain) /\ IsNode(e.code)
    <3> HIDE DEF e
    <3> QED
      BY <1>2, EntryIs DEF Pair
  <2>2. CanConvert(t, e.code.type)
    <3> HIDE DEF e
    <3> QED
      BY <1>5, <2>1, ConstantIsPossible
  <2>3. Pair(t, c, q)
    <3> HIDE DEF e
    <3> QED
      BY <2>1, <2>2, CastPair
  <2>4. Pair(t, n, q)
    <3> HIDE DEF c, q
    <3> QED
      BY <2>3, ConstPair
  <2> HIDE DEF n, q
  <2>5. OperandsAgree'
    BY <1>5, NoNodeAgrees DEF Built
  <2> QED
    BY <1>1, <1>5, <2>4, <2>5, BuiltKeeps
<1> QED
  BY <1>3, <1>4, <1>5

(* The end of an expression.                                               *)
LEMMA EndExprStep == ExprInv /\ EndExpr => ExprInv'
<1>1. EndExpr => \E how \in {"reading", "crashed"} : Stopped(how)
  BY DEF EndExpr
<1> QED
  BY <1>1, StoppedKeeps

(* The next expression after an error, and a step of another part.         *)
LEMMA OtherSteps == ExprInv /\ (NextExpr \/ UNCHANGED exprVars) => ExprInv'
<1> SUFFICES ASSUME ExprInv, NextExpr \/ UNCHANGED exprVars
             PROVE  ExprInv'
  OBVIOUS
<1>1. UNCHANGED <<operands, operators, node>> /\ outcome' \in {outcome, "reading"}
  BY DEF NextExpr, exprVars
<1> QED
  BY <1>1 DEF ExprInv, OperandsAgree

(* The invariant of expressions.                                           *)
LEMMA ExprInvHolds == ExprSpec => []ExprInv
<1>1. ExprInit => ExprInv
  <2>1. MaxOperators \in Nat /\ <<>> \in Seq(StackEntries)
    BY ExprAssumption
  <2>2. "none" \notin BinOps \cup {"compare"}
    BY DEF BinOps, IntOps, BitOps, FloatOps
  <2> QED
    BY <2>1, <2>2 DEF ExprInit, ExprInv, OperandsAgree, NoNode
<1>2. ExprInv /\ [ExprNext]_exprVars => ExprInv'
  <2> SUFFICES ASSUME ExprInv, [ExprNext]_exprVars
               PROVE  ExprInv'
    OBVIOUS
  <2>1. ASSUME NEW leaf \in Leaves, Operand(leaf)
        PROVE  ExprInv'
    BY <2>1, OperandStep
  <2>2. ASSUME NEW op \in BinOps, BinExpr(op)
        PROVE  ExprInv'
    BY <2>2, BinStep
  <2>3. ASSUME NEW op \in CompareOps, CompareExpr(op)
        PROVE  ExprInv'
    BY <2>3, CompareStep
  <2>4. ASSUME NEW op \in LogicalOps, LogicalExpr(op)
        PROVE  ExprInv'
    BY <2>4, LogicalStep
  <2>5. ASSUME NEW op \in UnaryOps, UnaryExpr(op)
        PROVE  ExprInv'
    BY <2>5, UnaryStep
  <2>6. CASE Parentheses
    BY <2>6, ParenthesesStep
  <2>7. CASE Iif
    BY <2>7, IifStep
  <2>8. ASSUME NEW mode \in RoundModes, FloatRound(mode)
        PROVE  ExprInv'
    BY <2>8, RoundStep
  <2>9. ASSUME NEW t \in ValueTypes, Cast(t)
        PROVE  ExprInv'
    BY <2>9, CastStep
  <2>10. ASSUME NEW t \in ValueTypes, DeclConst(t)
         PROVE  ExprInv'
    BY <2>10, DeclConstStep
  <2>11. CASE EndExpr
    BY <2>11, EndExprStep
  <2>12. CASE NextExpr \/ UNCHANGED exprVars
    BY <2>12, OtherSteps
  <2> QED
    BY <2>1, <2>2, <2>3, <2>4, <2>5, <2>6, <2>7, <2>8, <2>9, <2>10, <2>11, <2>12 DEF ExprNext, UnaryOps
<1> QED
  BY <1>1, <1>2, PTL DEF ExprSpec

(* A small value in range fits.                                            *)
LEMMA FitsInRange ==
  ASSUME NEW c, IsNode(c), IsSmall(c)
  PROVE  Fits(c)
<1> DEFINE k == c.type.kind
           b == c.bits
           x == 0..(Power2[c.type.bits] - 1)
           y == (-MaxFloat..MaxFloat) \X (1..MaxFloat)
<1>1. MaxFloat \in Nat
  BY ExprAssumption
<1>2. k = "float" => b \in y
  BY <1>1 DEF IsNode, InRange, IsSmall, IsFloat, Fractions
<1>3. k \in {"int", "bool", "float"} /\ (k = "int" => b \in x) /\ (k = "bool" => b \in {0, 1})
  BY ValueTypeOf DEF IsNode, InRange, Patterns
<1>4. Fits(c) = (CASE k = "int"   -> b \in x
                   [] k = "bool"  -> b \in {0, 1}
                   [] k = "float" -> b \in y)
  BY DEF Fits, IsInt, IsBool, IsFloat
<1> HIDE DEF k, b, x, y
<1> QED
  BY <1>2, <1>3, <1>4

(* For every width every value has its type's range, and what the parser   *)
(* takes for an operand's type agrees with the node's but for the sign.    *)
THEOREM ExprTypeCorrect == ExprSpec => []ExprTypeOK
<1>1. ExprInv => ExprTypeOK
  <2> SUFFICES ASSUME ExprInv
               PROVE  ExprTypeOK
    OBVIOUS
  <2>1. ASSUME NEW i \in 1..Len(operands)
        PROVE  LET e == operands[i] IN
               /\ Fits(e.code) /\ Fits(e.plain)
               /\ e.code.form \in {"literal", "const", "tree", "trap"}
               /\ e.type.kind = e.code.type.kind
               /\ e.type.kind = "int" => e.type.bits = e.code.type.bits
    <3> DEFINE e == operands[i]
    <3>1. e \in StackEntries
      BY DEF ExprInv
    <3> HIDE DEF e
    <3>2. /\ Pair(e.type, e.code, e.plain) /\ IsSmall(e.code) /\ IsSmall(e.plain)
      BY <3>1, EntryIs
    <3>3. Fits(e.code) /\ Fits(e.plain)
      BY <3>2, FitsInRange DEF Pair
    <3> QED
      BY <3>2, <3>3 DEF Pair, IsNode, Forms, Likes, e
  <2> QED
    BY <2>1 DEF ExprInv, ExprTypeOK
<1> QED
  BY <1>1, ExprInvHolds, PTL

(* For every width of the integers and every expression: the node that is  *)
(* left after folding has the value, the kind and the width the generated  *)
(* code would compute without any folding, the named known cases apart.    *)
THEOREM FoldingIsExact == ExprSpec => []FoldEqualsRun
<1>1. ExprInv => FoldEqualsRun
  <2> SUFFICES ASSUME ExprInv, NEW i \in 1..Len(operands)
               PROVE  LET e == operands[i]
                      IN  e.code.exact /\ e.plain.exact =>
                            /\ e.code.bits = e.plain.bits
                            /\ e.code.type.kind = e.plain.type.kind
                            /\ IsInt(e.code) => e.code.type.bits = e.plain.type.bits
    BY DEF FoldEqualsRun
  <2> DEFINE e == operands[i]
  <2>1. e \in StackEntries
    BY DEF ExprInv
  <2> HIDE DEF e
  <2>2. Pair(e.type, e.code, e.plain)
    BY <2>1, EntryIs
  <2> QED
    BY <2>2 DEF Pair, Same, e
<1> QED
  BY <1>1, ExprInvHolds, PTL

(* Whatever was folded below, an operator or a comparison of two numbers is *)
(* generated with operands of one kind and width.                          *)
THEOREM OperatorsAgree == ExprSpec => []OperandsAgree
<1>1. ExprInv => OperandsAgree
  BY DEF ExprInv
<1> QED
  BY <1>1, ExprInvHolds, PTL

-----------------------------------------------------------------------------
(* The three parts together                                                *)

(* The parts share no variable: a behaviour of the module is one of each   *)
(* of its parts, so that all that is proved of a part holds of the module. *)
THEOREM PartsAreFree == MCSpec => Spec /\ ExprSpec /\ BodySpec
<1>1. MCInit => Init /\ ExprInit /\ BodyInit
  BY DEF MCInit
<1>2. [MCNext]_<<vars, exprVars, bodyVars>> => [Next]_vars
  BY DEF MCNext, CallsMove, ExprMoves, BodyMoves
<1>3. [MCNext]_<<vars, exprVars, bodyVars>> => [ExprNext]_exprVars
  BY DEF MCNext, CallsMove, ExprMoves, BodyMoves
<1>4. [MCNext]_<<vars, exprVars, bodyVars>> => [BodyNext]_bodyVars
  BY DEF MCNext, CallsMove, ExprMoves, BodyMoves
<1> QED
  BY <1>1, <1>2, <1>3, <1>4, PTL DEF MCSpec, Spec, ExprSpec, BodySpec

(* The types of all parts.                                                 *)
THEOREM ModuleTypeCorrect == MCSpec => []ModuleTypeOK
<1>1. TypeOK /\ ExprTypeOK /\ BodyTypeOK => ModuleTypeOK
  BY DEF ModuleTypeOK
<1> QED
  BY <1>1, PartsAreFree, TypeCorrect, ExprTypeCorrect, BodyTypeCorrect, PTL
=============================================================================
