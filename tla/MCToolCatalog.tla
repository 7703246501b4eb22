---------------------------- MODULE MCToolCatalog ----------------------------
EXTENDS ToolCatalog

T(name, definition) == [name |-> name, definition |-> definition]

Read1  == T("read", "v1")
Read2  == T("read", "v2")
Web    == T("web", "v1")
Shell  == T("shell", "v1")
Clash  == T("recall", "v1")

\* A list with and without each optional tool, a new definition, an order
\* that differs, a clash with recall, nothing but the clash, and no list.
\* Every list that names a tool names read.
AgentLists ==
    {NoList, <<Clash>>, <<Read1, Web>>, <<Shell, Read1>>, <<Clash, Read2>>, <<Read1, Read2>>}
=============================================================================
