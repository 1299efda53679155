------------------------- MODULE MCCompanyLifecycle -------------------------
EXTENDS CompanyLifecycle
=============================================================================
