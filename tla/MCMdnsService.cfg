CONSTANTS
    Services = {"s1", "s2", "s3"}
    Types = {"t1", "t2"}
    TypeOf <- MCTypeOf
    SubLabels = {"sa", "sb"}
    SubTypesOf <- MCSubTypesOf
SPECIFICATION Spec
INVARIANT TypeOK
INVARIANT ServiceTypesMatchEntries
INVARIANT SubTypeGoodbyeOwed
