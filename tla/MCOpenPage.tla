------------------------------ MODULE MCOpenPage ------------------------------
EXTENDS OpenPage
=============================================================================
