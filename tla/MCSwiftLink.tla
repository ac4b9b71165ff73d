----------------------------- MODULE MCSwiftLink -----------------------------
EXTENDS SwiftLink

\* a command that dials and a byte for who answers; an edited command
MCScripts == { <<"ch", "ch", "return", "ch">>, <<"ignored", "delete">> }
=============================================================================
