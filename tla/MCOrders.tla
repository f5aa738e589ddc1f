------------------------------- MODULE MCOrders -------------------------------
EXTENDS Orders
=============================================================================
