------------------------------- MODULE Calls -------------------------------
(***************************************************************************)
(* The functions of a DQ module: declarations, forward declarations and    *)
(* their definitions, overload sets, methods of objects, and the calls in  *)
(* the bodies.  A behaviour is the text of a module, one declaration, call *)
(* or end of a body after the other; a list of parameters is read one by   *)
(* one.                                                                    *)
(*                                                                         *)
(* A declaration text has the fields owner (the module or an object),      *)
(* name, items (the parameters as written), varargs, ret, ret_ok (the      *)
(* return type can be read; it is none if not), overload, external,        *)
(* attrs_ok (the attribute list is well formed) and ending, ";" or "body". *)
(* An item has a type, mode, default and fault: "param" if the parameter   *)
(* cannot be read, "default" if its default cannot.                        *)
(*                                                                         *)
(* A call text has the fields callee ("plain" f(..), "global" @.f(..),     *)
(* "receiver" x.f(..) or "indirect"), name, receiver, sig (of an indirect  *)
(* callee) and args.  An argument is an expression of Convert with two     *)
(* more fields: root, what symbol an lvalue starts from, and uninit, it    *)
(* reads a variable that is not initialized; or it has the form "name",    *)
(* the name of a function.                                                 *)
(*                                                                         *)
(* Left out: the names of parameters, and what a body does but call; that  *)
(* variables and the result are initialized is in InitCheck.               *)
(***************************************************************************)
EXTENDS Convert, SequencesExt, FiniteSetsExt

CONSTANTS Module, Objects,  \* the scopes that functions are declared in
          Names,            \* the names of functions
          Fields,           \* owners and names taken by variables and fields
          Declarations,     \* texts of declarations
          CallTexts,        \* texts of calls
          MaxFuncs          \* bound on the number of functions

Owners == {Module} \cup Objects

ASSUME OwnersAssumption == Module \notin Objects /\ Fields \subseteq Owners \X Names
ASSUME MaxFuncsAssumption == MaxFuncs \in Nat

(* A parameter has a type that can be written.                             *)
Modes == {"value", "ref", "refin", "refout", "refnull"}
WrittenKinds == {"int", "float", "bool", "pointer", "array", "slice", "cstring", "compound", "funcref"}

ASSUME DeclarationsAssumption == \A d \in Declarations :
  /\ d.owner \in Owners /\ d.name \in Names
  /\ d.items \in Seq(Range(d.items))
  /\ \A i \in DOMAIN d.items : d.items[i].mode \in Modes /\ d.items[i].type.kind \in WrittenKinds
  /\ {d.varargs, d.overload, d.external, d.attrs_ok, d.ret_ok} \subseteq BOOLEAN
  /\ d.ending \in {";", "body"}

(* Only an object has methods to call.                                     *)
ASSUME CallTextsAssumption == \A c \in CallTexts :
  /\ c.callee \in {"plain", "global", "receiver", "indirect"}
  /\ c.callee # "indirect" => c.name \in Names
  /\ c.args \in Seq(Range(c.args))
  /\ c.callee = "receiver" => c.receiver.type.name \in Objects

VARIABLES
  funcs,         \* the function symbols in the order they were made
  scope,         \* what a name means in an owner's scope
  declarations,  \* the symbols the module has listed, by owner and name
  text,          \* the declaration whose signature is read, or NoText
  ahead,         \* its parameter that is read next
  signature,     \* what was read of it
  reading,       \* the function whose body is read, curvsfunc, or 0
  call,          \* the call just read
  accepted,      \* no error was reported
  ended          \* the end of the text was reached

symbols == <<funcs, scope, declarations>>
lexer   == <<text, ahead, signature>>
vars    == <<symbols, lexer, reading, call, accepted, ended>>

(* What a name means: nothing, a variable, one function or an overload     *)
(* set, with the functions' places in funcs.                               *)
Meaning(kind, fs) == [kind |-> kind, funcs |-> fs]
Undeclared == Meaning("none", <<>>)

NoText == [owner |-> Module, items |-> <<>>]
NoSignature == [params |-> <<>>, default_seen |-> FALSE, ok |-> TRUE, reports |-> 0]

NoCall == [set |-> <<>>, args |-> <<>>, func |-> 0, outcome |-> "none"]

Init == /\ funcs = <<>>
        /\ scope = [k \in Owners \X Names |-> IF k \in Fields THEN Meaning("var", <<>>) ELSE Undeclared]
        /\ declarations = <<>>
        /\ text = NoText /\ ahead = 1 /\ signature = NoSignature
        /\ reading = 0
        /\ call = NoCall
        /\ accepted = TRUE
        /\ ended = FALSE

ErrorIf(b) == accepted' = (accepted /\ ~b)

-----------------------------------------------------------------------------
(* ParseFunctionSignature                                                  *)

SupportsFuncParamDefaultType(type) ==
  \/ type.kind \in {"int", "float", "bool", "array", "pointer"}
  \/ type.kind = "cstring" /\ type.maxlen > 0

BeginDecl(d) ==
  /\ text = NoText /\ reading = 0 /\ ~ended
  /\ Len(funcs) < MaxFuncs
  /\ text' = d /\ ahead' = 1 /\ signature' = NoSignature
  /\ call' = NoCall
  /\ UNCHANGED <<symbols, reading, accepted, ended>>

(* An ellipsis is the last entry of the list.                              *)
Entries == Len(text.items) + IF text.varargs THEN 1 ELSE 0

(* The comma before an entry is expected only if there are parameters, so  *)
(* that without one the recovery stops where it started.                   *)
AtComma    == ahead > 1 /\ signature.params = <<>>
AtItem     == ahead <= Len(text.items) /\ ~AtComma
AtEllipsis == ahead = Entries /\ text.varargs /\ ~AtComma

ReportName ==
  /\ ahead <= Entries /\ AtComma
  /\ signature' = [signature EXCEPT !.reports = (@ + 1) % 2]
  /\ UNCHANGED ahead

SkipParam ==
  /\ AtItem /\ text.items[ahead].fault = "param"
  /\ signature' = [signature EXCEPT !.ok = FALSE]
  /\ ahead' = ahead + 1

(* A bad default leaves the parameter without one.                         *)
ReadParam ==
  LET item    == text.items[ahead]
      written == item.default # NoDefault
      tried   == written /\ ~IsRefLike(item) /\ SupportsFuncParamDefaultType(item.type)
      taken   == tried /\ item.fault # "default"
      param   == [type |-> item.type, mode |-> item.mode, default |-> IF taken THEN item.default ELSE NoDefault]
  IN  /\ AtItem /\ item.fault # "param"
      /\ ahead' = ahead + 1
      /\ signature' = [signature EXCEPT
           !.params       = Append(@, param),
           !.default_seen = @ \/ tried,
           !.ok           = @ /\ IF written THEN taken ELSE ~signature.default_seen]

ReadEllipsis ==
  /\ AtEllipsis
  /\ ahead' = ahead + 1
  /\ signature' = [signature EXCEPT !.ok = @ /\ signature.params # <<>>]

ReadSignature ==
  /\ text # NoText
  /\ ReportName \/ SkipParam \/ ReadParam \/ ReadEllipsis
  /\ UNCHANGED <<symbols, text, reading, call, accepted, ended>>

SignatureRead == text # NoText /\ ahead > Entries

(* InjectObjectReceiver puts __this before the parameters of a method.     *)
Receiver(owner) ==
  IF owner = Module THEN <<>>
  ELSE <<[type |-> Compound(owner), mode |-> "ref", default |-> NoDefault]>>

Sig(d) == [params |-> Receiver(d.owner) \o signature.params, varargs |-> d.varargs, ret |-> d.ret]

-----------------------------------------------------------------------------
(* FinishFunctionDecl                                                      *)

IsForwardDecl(f) == ~f.external /\ ~f.has_body

Existing(d) == scope[<<d.owner, d.name>>]

(* Mutant: functions that differ in a mode only are not found again       *)
FindBySignature(set, sig) ==
  LET found == {n \in DOMAIN set : MatchesSignature(funcs[set[n]].sig, sig)}
  IN  IF found = {} THEN 0 ELSE set[Min(found)]

FindMatchingOverloadDecl(set, sig) ==
  LET found == {n \in DOMAIN set : MatchesOverloadDeclIdentity(funcs[set[n]].sig, sig)}
  IN  IF found = {} THEN 0 ELSE set[Min(found)]

(* The function that the text declares again, or 0.                        *)
Earlier(d) ==
  CASE Existing(d).kind = "func"     -> Existing(d).funcs[1]
    [] Existing(d).kind = "overload" -> FindMatchingOverloadDecl(Existing(d).funcs, Sig(d))
    [] OTHER                         -> 0

HasMatchingReturnType(set, sig) == funcs[set[1]].sig.ret = sig.ret

CheckForwardDeclMatch(f, d) == MatchesSignature(f.sig, Sig(d))

(* A declaration that is dropped: the attributes are bad, an external      *)
(* method, a name taken by something else, plain and overloaded functions  *)
(* of one name, another return type, or no forward declaration to fill.    *)
Refused(d) ==
  \/ ~d.attrs_ok
  \/ d.external /\ d.owner # Module
  \/ Existing(d).kind = "var"
  \/ Existing(d).kind = "func" /\ d.overload
  \/ Existing(d).kind = "overload" /\ ~d.overload
  \/ Existing(d).kind = "overload" /\ ~HasMatchingReturnType(Existing(d).funcs, Sig(d))
  \/ Earlier(d) # 0 /\ ~(IsForwardDecl(funcs[Earlier(d)]) /\ CheckForwardDeclMatch(funcs[Earlier(d)], d))

(* Reported, and the function is declared all the same; without a result,  *)
(* if the type of it cannot be read.                                       *)
MinorError(d) ==
  \/ ~signature.ok
  \/ ~d.ret_ok
  \/ d.varargs /\ ~d.external
  \/ d.external /\ d.ending # ";"

ReadsBody(d) == ~d.external /\ d.ending = "body"

RefuseDecl(d) ==
  /\ Refused(d)
  /\ ErrorIf(TRUE)
  /\ UNCHANGED <<funcs, scope, declarations, reading>>

(* declare_function, or AddFunc after declare_overload_set for the first.  *)
(* Mutant: a further function does not get into its set                   *)
Forgotten(m, d, i) == Meaning(IF d.overload THEN "overload" ELSE "func", IF m.funcs = <<>> THEN <<i>> ELSE m.funcs)
Added(m, d, i)     == Meaning(IF d.overload THEN "overload" ELSE "func", Append(m.funcs, i))

(* AddDeclFunc, AddDeclOverloadSet; DeclareHiddenValSym for methods.       *)
(* Mutant: only functions of the module are listed                        *)
ListedOfModule(d) == IF Existing(d) = Undeclared /\ d.owner = Module THEN <<<<d.owner, d.name>>>> ELSE <<>>
Listed(d)         == IF Existing(d) = Undeclared THEN <<<<d.owner, d.name>>>> ELSE <<>>

DeclareFunction(d) ==
  LET i == Len(funcs) + 1
  IN  /\ ~Refused(d) /\ Earlier(d) = 0
      /\ funcs' = Append(funcs, [owner |-> d.owner, name |-> d.name, sig |-> Sig(d),
                                 external |-> d.external, has_body |-> FALSE])
      /\ scope' = [scope EXCEPT ![<<d.owner, d.name>>] = Added(@, d, i)]
      /\ declarations' = declarations \o Listed(d)
      /\ reading' = IF ReadsBody(d) THEN i ELSE 0
      /\ ErrorIf(MinorError(d))

(* The forward declaration keeps its defaults and gets those it had none   *)
(* for.                                                                    *)
(* Mutant: the later default is preferred                                 *)
MergeLater(old, new) ==
  [i \in 1..Len(old) |-> [old[i] EXCEPT !.default = IF new[i].default # NoDefault THEN new[i].default ELSE @]]

MergeDefaults(old, new) ==
  [i \in 1..Len(old) |-> [old[i] EXCEPT !.default = IF @ = NoDefault THEN new[i].default ELSE @]]

MergeForwardDeclFrom(f, d) ==
  [f EXCEPT !.sig.params = MergeDefaults(@, Sig(d).params), !.external = d.external]

FillForwardDecl(d) ==
  /\ ~Refused(d) /\ Earlier(d) # 0
  /\ funcs' = [funcs EXCEPT ![Earlier(d)] = MergeForwardDeclFrom(@, d)]
  /\ reading' = IF ReadsBody(d) THEN Earlier(d) ELSE 0
  /\ ErrorIf(MinorError(d))
  /\ UNCHANGED <<scope, declarations>>

FinishDecl ==
  /\ SignatureRead
  /\ RefuseDecl(text) \/ DeclareFunction(text) \/ FillForwardDecl(text)
  /\ text' = NoText /\ ahead' = 1 /\ signature' = NoSignature
  /\ UNCHANGED <<call, ended>>

(* read_function_body at the closing endfunc.                              *)
EndBody ==
  /\ reading # 0
  /\ funcs' = [funcs EXCEPT ![reading].has_body = TRUE]
  /\ reading' = 0
  /\ call' = NoCall
  /\ UNCHANGED <<scope, declarations, lexer, accepted, ended>>

(* ValidateModuleForwardFuncDecls goes through the listed symbols.         *)
EndModule ==
  /\ text = NoText /\ reading = 0 /\ ~ended
  /\ ended' = TRUE
  /\ ErrorIf(\E k \in ToSet(declarations) : \E i \in ToSet(scope[k].funcs) : IsForwardDecl(funcs[i]))
  /\ call' = NoCall
  /\ UNCHANGED <<symbols, lexer, reading>>

-----------------------------------------------------------------------------
(* Arguments                                                               *)

(* FindValSym from the body that is read: a method sees its object only,   *)
(* unless the namespace is written.                                        *)
Lookup(name) == scope[<<funcs[reading].owner, name>>]

SigsOf(set) == [i \in 1..Len(set) |-> funcs[set[i]].sig]

NameExpr(m) ==
  [form |-> "var", root |-> "function", uninit |-> FALSE, folded |-> FALSE, value |-> 0,
   type |-> IF m.kind = "overload" THEN OverloadType(SigsOf(m.funcs)) ELSE FuncType(funcs[m.funcs[1]].sig)]

IsName(arg) == arg.form = "name"
KnownArg(arg) == IsName(arg) => Lookup(arg.name).kind \in {"func", "overload"}
ParseArg(arg) == IF IsName(arg) THEN NameExpr(Lookup(arg.name)) ELSE arg

RequiredParamCount(params) ==
  LET with == {i \in 1..Len(params) : params[i].default # NoDefault}
  IN  IF with = {} THEN Len(params) ELSE Min(with) - 1

DefaultsFollow(params, n) == \A i \in (n + 1)..Len(params) : params[i].default # NoDefault

IsLValue(arg) == arg.form \in {"var", "lvalue"}
CanBind(arg)  == IsLValue(arg) /\ arg.root \notin {"const", "readonly"}

(* AnalyzeCallCandidate: whether a function can be called like this, and   *)
(* its score: conversions, defaults, and whether extra arguments are used. *)
BindsRef(p, arg) ==
  IF arg.form = "null" THEN p.mode = "refnull" ELSE CanBind(arg) /\ p.type = arg.type

Accepts(p, arg) ==
  IF IsRefLike(p) THEN BindsRef(p, arg) ELSE GetAssignTypeConversionCost(p.type, arg) >= 0

IsCandidate(sig, args) ==
  /\ Len(args) >= RequiredParamCount(sig.params)
  /\ sig.varargs \/ Len(args) <= Len(sig.params)
  /\ \A i \in 1..Len(args) : ~args[i].uninit /\ (i <= Len(sig.params) => Accepts(sig.params[i], args[i]))
  /\ DefaultsFollow(sig.params, Len(args))

ArgCost(p, arg) == IF IsRefLike(p) THEN 0 ELSE GetAssignTypeConversionCost(p.type, arg)

Score(sig, args) ==
  LET np == Len(sig.params)
      na == Len(args)
  IN  <<MapThenSumSet(LAMBDA i : ArgCost(sig.params[i], args[i]), 1..Min({np, na})),
        Max({0, np - na}),
        IF na > np THEN 1 ELSE 0>>

(* CompareCallCandidateScore: the first difference decides.                *)
Better(s, t) == \E k \in 1..3 : s[k] < t[k] /\ \A j \in 1..(k - 1) : s[j] = t[j]

NoBest == [func |-> 0, score |-> <<0, 0, 0>>, ambiguous |-> FALSE]

(* Mutant: a better candidate does not end a tie                          *)
ConsiderTied(args, best, i) ==
  LET score == Score(funcs[i].sig, args)
  IN  CASE ~IsCandidate(funcs[i].sig, args)                 -> best
        [] IsCandidate(funcs[i].sig, args) /\ (best.func = 0 \/ Better(score, best.score)) ->
             [best EXCEPT !.func = i, !.score = score]
        [] IsCandidate(funcs[i].sig, args) /\ best.func # 0 /\ score = best.score ->
             [best EXCEPT !.ambiguous = TRUE]
        [] OTHER                                            -> best

Consider(args, best, i) ==
  LET score == Score(funcs[i].sig, args)
  IN  CASE ~IsCandidate(funcs[i].sig, args)                 -> best
        [] IsCandidate(funcs[i].sig, args) /\ (best.func = 0 \/ Better(score, best.score)) ->
             [func |-> i, score |-> score, ambiguous |-> FALSE]
        [] IsCandidate(funcs[i].sig, args) /\ best.func # 0 /\ score = best.score ->
             [best EXCEPT !.ambiguous = TRUE]
        [] OTHER                                            -> best

BestCandidate(set, args) == FoldLeft(LAMBDA best, i : Consider(args, best, i), NoBest, set)

(* BindCallArguments for the chosen function.                              *)
Binds(p, arg) ==
  IF ~IsRefLike(p) THEN ~arg.uninit /\ CheckAssignType(p.type, arg) # "refused"
  ELSE IF arg.form = "null" THEN p.mode = "refnull"
  ELSE CanBind(arg) /\ p.type = arg.type /\ (arg.uninit => p.mode = "refout")

BindCallArguments(sig, args) ==
  /\ sig.varargs \/ Len(args) <= Len(sig.params)
  /\ \A i \in 1..Len(args) :
       IF i <= Len(sig.params) THEN Binds(sig.params[i], args[i]) ELSE ~args[i].uninit
  /\ Len(args) >= RequiredParamCount(sig.params)
  /\ DefaultsFollow(sig.params, Len(args))

-----------------------------------------------------------------------------
(* Calls in the body that is read                                          *)

IfBound(b) == IF b THEN "bound" ELSE "refused"

CallRecord(set, args, func, outcome) == [set |-> set, args |-> args, func |-> func, outcome |-> outcome]

(* ParseExprFuncCall and ParseExprOverloadCallWithRawArgs.                 *)
CallOf(m, args) ==
  LET best == BestCandidate(m.funcs, args)
      bind(i) == IfBound(BindCallArguments(funcs[i].sig, args))
  IN  CASE m.kind = "func"                            -> CallRecord(<<>>, args, m.funcs[1], bind(m.funcs[1]))
        [] m.kind = "overload" /\ best.func = 0       -> CallRecord(m.funcs, args, 0, "no match")
        [] m.kind = "overload" /\ best.func # 0 /\ best.ambiguous -> CallRecord(m.funcs, args, 0, "ambiguous")
        [] m.kind = "overload" /\ best.func # 0 /\ ~best.ambiguous ->
             CallRecord(m.funcs, args, best.func, bind(best.func))
        [] OTHER                                      -> CallRecord(<<>>, args, 0, "refused")

(* The implicit receiver of a call within a method is its own __this.      *)
This == [form |-> "var", root |-> "variable", uninit |-> FALSE, folded |-> FALSE, value |-> 0,
         type |-> Compound(funcs[reading].owner)]

ReceiverOf(c) ==
  CASE c.callee = "receiver"                                      -> <<c.receiver>>
    [] c.callee = "plain" /\ funcs[reading].owner # Module        -> <<This>>
    [] OTHER                                                      -> <<>>

CalleeOf(c) ==
  CASE c.callee = "plain"    -> Lookup(c.name)
    [] c.callee = "global"   -> scope[<<Module, c.name>>]
    [] c.callee = "receiver" -> scope[<<c.receiver.type.name, c.name>>]

ArgsOf(c) == ReceiverOf(c) \o [i \in 1..Len(c.args) |-> ParseArg(c.args[i])]

ReadCall(c) ==
  IF \E i \in 1..Len(c.args) : ~KnownArg(c.args[i]) THEN CallRecord(<<>>, <<>>, 0, "refused")
  ELSE IF c.callee = "indirect"
       THEN CallRecord(<<>>, ArgsOf(c), 0, IfBound(BindCallArguments(c.sig, ArgsOf(c))))
       ELSE CallOf(CalleeOf(c), ArgsOf(c))

Call(c) ==
  /\ reading # 0
  /\ call' = ReadCall(c)
  /\ ErrorIf(call'.outcome # "bound")
  /\ UNCHANGED <<symbols, lexer, reading, ended>>

Next == \/ \E d \in Declarations : BeginDecl(d)
        \/ ReadSignature
        \/ FinishDecl
        \/ \E c \in CallTexts : Call(c)
        \/ EndBody
        \/ EndModule

Spec == Init /\ [][Next]_vars

-----------------------------------------------------------------------------
(* Functions have complete signatures, a name means a variable, one        *)
(* function or a set of them, every function is found under exactly one    *)
(* name, and a body is read only of a function that can have one.          *)
FuncsOf(k) == ToSet(scope[k].funcs)

TypeOK ==
  /\ \A i \in DOMAIN funcs :
       /\ funcs[i].owner \in Owners
       /\ \A p \in ToSet(funcs[i].sig.params) : p.mode \in Modes
       /\ Quantify(DOMAIN scope, LAMBDA k : i \in FuncsOf(k)) = 1
  /\ \A k \in DOMAIN scope :
       /\ scope[k].kind \in {"none", "var", "func", "overload"}
       /\ FuncsOf(k) \subseteq DOMAIN funcs
       /\ scope[k].kind = "func" => Len(scope[k].funcs) = 1
  /\ Cardinality(ToSet(declarations)) = Len(declarations)
  /\ reading \in 0..Len(funcs) /\ (reading # 0 => ~funcs[reading].external /\ text = NoText)
  /\ text # NoText => ahead \in 1..(Entries + 1) /\ Len(signature.params) < ahead
  /\ call.outcome \in {"none", "bound", "refused", "ambiguous", "no match"}
  /\ accepted \in BOOLEAN /\ ended \in BOOLEAN

(* A call of an overloaded name binds the one function that takes the      *)
(* arguments and is better than every other that takes them, whatever the  *)
(* order of the declarations; it is refused as ambiguous only if two share *)
(* the best score, and for want of a match only if none takes them.  What  *)
(* the ranking of the candidates lets pass, the binding of the arguments   *)
(* to the chosen one never refuses (ParseExprOverloadCallWithRawArgs,      *)
(* BindCallArguments: the costs and the conversions are separate code).    *)
Candidates(c)  == {i \in ToSet(c.set) : IsCandidate(funcs[i].sig, c.args)}
ScoreIn(c, i)  == Score(funcs[i].sig, c.args)
BestOf(c)      == {i \in Candidates(c) : \A j \in Candidates(c) : ~Better(ScoreIn(c, j), ScoreIn(c, i))}

BestOverload ==
  call.set # <<>> =>
    \/ call.outcome = "bound" /\ BestOf(call) = {call.func}
    \/ call.outcome = "ambiguous" /\ Cardinality(BestOf(call)) > 1
    \/ call.outcome = "no match" /\ Candidates(call) = {}

(* A module without errors leaves no function without a body: one that is  *)
(* only declared, in an object or in an overload set too, would be linked  *)
(* against nothing (ValidateModuleForwardFuncDecls).                       *)
AllDefined == ended /\ accepted => \A i \in DOMAIN funcs : ~IsForwardDecl(funcs[i])

(* The functions of one name can be told apart by the types of their       *)
(* parameters and return the same type, so that a function reference that  *)
(* is made from an overloaded name never means two of them.                *)
SetsAreDistinct ==
  \A k \in DOMAIN scope : \A i, j \in FuncsOf(k) :
    i # j => /\ funcs[i].sig.ret = funcs[j].sig.ret
             /\ ~MatchesOverloadDeclIdentity(funcs[i].sig, funcs[j].sig)

(* What calls were bound against stays: once declared, a function keeps    *)
(* the types and modes of its parameters, and a default it was given; a    *)
(* function with a body is not declared again (MergeForwardDeclFrom).      *)
SignatureKept(old, new) ==
  /\ AlikeIn(old, new, LAMBDA p, q : p.type = q.type /\ p.mode = q.mode)
  /\ \A n \in 1..Len(old.params) : old.params[n].default \in {NoDefault, new.params[n].default}

SignaturesKept ==
  [][\A i \in DOMAIN funcs : /\ SignatureKept(funcs[i].sig, funcs'[i].sig)
                             /\ funcs[i].has_body => funcs'[i] = funcs[i]]_vars
=============================================================================
