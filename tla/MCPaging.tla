------------------------------ MODULE MCPaging -------------------------------
EXTENDS Paging
=============================================================================
