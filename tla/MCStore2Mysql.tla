---------------------------- MODULE MCStore2Mysql ----------------------------
EXTENDS Store2Mysql
=============================================================================
