------------------------------- MODULE MCMail -------------------------------
EXTENDS MailSending
=============================================================================
