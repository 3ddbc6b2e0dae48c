-------------------------- MODULE MCNotifications --------------------------
EXTENDS Notifications

CONSTANTS o1, cus, adm

MCCustomerOf == [o \in Orders |-> cus]

\* One administrator with both permissions, and a customer who may become one.
MCGrantable == {<<adm, "admin:read">>, <<adm, "admin:write">>, <<cus, "admin:write">>}

MCFollowed == {{"admin"}, {"confirm", "sms"}, {"confirm", "status"}}

\* The same number, typed in three ways.
Local  == <<"7", "1", "2", "3", "4", "5", "6", "7", "8">>
Spaced == <<"0", "7", "1", "2", " ", "3", "4", "5", "-", "6", "7", "8">>
MCPhones == {<< >>, Spaced, Local, Kenya \o Local}
=============================================================================
