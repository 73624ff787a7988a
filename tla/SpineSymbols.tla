---------------------------- MODULE SpineSymbols ----------------------------
(***************************************************************************)
(* The release check that the siblings' tests import nothing the locked      *)
(* spine does not have (spine_symbol_gate.py, scripts/check-spine-symbols.py). *)
(*                                                                         *)
(* A module is its path below `regista`, <<>> being the package itself; an    *)
(* import is [module, name, star], with no name for `import m` and for a      *)
(* star. A spine has, for the package and for each submodule that can be      *)
(* imported, the names dir() lists and those hasattr finds.                 *)
(***************************************************************************)
EXTENDS Naturals, Sequences

Nameless == ""
Package == <<>>

Kind(imp) ==
    IF imp.star \/ imp.name = Nameless
    THEN IF imp.module = Package THEN "package" ELSE "module"
    ELSE IF imp.module = Package THEN "from_package" ELSE "from_module"

CandidateSubmodules(top, imports) ==
    {imp.module : imp \in {i \in imports : i.module # Package}}
    \cup {<<imp.name>> : imp \in {i \in imports : /\ i.module = Package
                                                  /\ i.name \notin top \cup {Nameless}}}

\* The attributes the wrapper hands over: of the modules it tried, the ones that
\* could be imported.
Introspected(spine, tried) ==
    [m \in tried \cap DOMAIN spine.modules |-> spine.modules[m].dir]

Unverified(attrs, imports) ==
    {imp \in imports : Kind(imp) = "from_module" /\ imp.module \notin DOMAIN attrs}

Missing(top, attrs, imports) ==
    {imp \in imports :
        \/ /\ Kind(imp) = "module"
           /\ imp.module \notin DOMAIN attrs
           /\ imp.module \notin {<<x>> : x \in top}
        \/ /\ Kind(imp) = "from_package"
           /\ imp.name \notin top
           /\ <<imp.name>> \notin DOMAIN attrs
        \/ /\ Kind(imp) = "from_module"
           /\ imp.module \in DOMAIN attrs
           /\ imp.name \notin attrs[imp.module]}

\* The wrapper's last word on an import reported missing is hasattr.
ActuallyMissing(spine, attrs, imp) ==
    CASE imp.name = Nameless -> TRUE
      [] imp.name # Nameless /\ imp.module = Package -> imp.name \notin spine.has
      [] OTHER -> ~(/\ imp.module \in DOMAIN attrs
                    /\ imp.name \in spine.modules[imp.module].has)

AllImports(scanned) == UNION {scanned[m] : m \in DOMAIN scanned}

Fails(spine, attrs, imports, strict) ==
    \/ \E imp \in Missing(spine.dir, attrs, imports) : ActuallyMissing(spine, attrs, imp)
    \/ strict /\ Unverified(attrs, imports) # {}

\* `gone` are the listed siblings without a checkout, `scanned` maps those with
\* tests to the imports found there.
GateExit(spine, gone, scanned, strict) ==
    LET tried == CandidateSubmodules(spine.dir, AllImports(scanned))
        attrs == Introspected(spine, tried)
    IN  IF AllImports(scanned) # {} /\ ~spine.importable THEN 2
        ELSE IF \/ strict /\ gone # {}
                \/ \E m \in DOMAIN scanned : Fails(spine, attrs, scanned[m], strict)
        THEN 1 ELSE 0

-----------------------------------------------------------------------------
(* What Python does with an import of an installed spine *)

Resolves(spine, imp) ==
    CASE Kind(imp) = "package" -> TRUE
      [] Kind(imp) = "module" -> imp.module \in DOMAIN spine.modules
      [] Kind(imp) = "from_package" ->
            imp.name \in spine.has \/ <<imp.name>> \in DOMAIN spine.modules
      [] Kind(imp) = "from_module" ->
            /\ imp.module \in DOMAIN spine.modules
            /\ \/ imp.name \in spine.modules[imp.module].has
               \/ Append(imp.module, imp.name) \in DOMAIN spine.modules

\* `import regista.x` where x is an attribute of the package and no submodule:
\* the gate lets it through, Python does not.
OnlyReexported(spine, imp) ==
    Kind(imp) = "module" /\ imp.module \in {<<x>> : x \in spine.dir}

\* `from regista.x import y` where y is a submodule that x does not bind: Python
\* imports it, the gate calls it missing.
BelowSubmodule(spine, imp) ==
    /\ Kind(imp) = "from_module"
    /\ imp.module \in DOMAIN spine.modules
    /\ imp.name \notin spine.modules[imp.module].has

\* dir() lists no name that hasattr does not find.
IsSpine(spine) ==
    /\ spine.dir \subseteq spine.has
    /\ \A m \in DOMAIN spine.modules : spine.modules[m].dir \subseteq spine.modules[m].has
=============================================================================
