---------------------------- MODULE MCRuleReader ----------------------------
EXTENDS RuleReader

CONSTANT Length

Rule(kind, children) == [kind |-> kind, children |-> children]

\* The rules that RulesPass writes, by the visitor that writes them.
WrittenRules ==
    {Rule("step", << >>),                              \* visitBranchInst
     Rule("step", <<"trusted_set">>),                  \* safe names of a block
     Rule("step", <<"set", "source">>),                \* visitStoreInst
     Rule("step", <<"source", "pred">>),               \* visitICmpInst
     Rule("push", <<"set", "source">>),                \* visitCallInst
     Rule("pop", <<"set">>),                           \* visitReturnInst, void
     Rule("pop", <<"set", "trusted_set", "source", "return", "output">>)}

MCFiles == [1..Length -> WrittenRules]

\* The command lines that ask for one analysis, predicates with either.
OneAnalysis ==
    {{}, {"no_assignment", "predicates"}, {"predicates"}, {"return"}, {"return", "predicates"},
     {"input_output"}, {"input_output", "predicates"}, {"iserr"}, {"dereference"}, {"handled"}}

TwoAnalyses == {{"return", "input_output"}}
=============================================================================
