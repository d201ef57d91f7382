---------------------------- MODULE MCLspServer ----------------------------
EXTENDS LspServer

CONSTANT t1

OneToken == {t1}
=============================================================================
