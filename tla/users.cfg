SPECIFICATION Spec
CONSTANTS
    UserIds = {u1, u2}
    NoUser = nouser
    Existing = {u1}
    Threads = {t1}
    MaxTokens = 3
    Tools = {"create", "update", "delete"}
    Commands = {"create", "rotate"}
    Exclusive = TRUE
INVARIANT TypeOK
 
 
 
PROPERTY ToolsKeepAccounts
