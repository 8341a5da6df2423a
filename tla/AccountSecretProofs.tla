------------------------ MODULE AccountSecretProofs ------------------------
(***************************************************************************)
(* The saved account leads to a token, however many commands in whatever   *)
(* roles but "remove" overtake each other, die and fail to write.  One     *)
(* lemma per conjunct of SecretInv, with one step per action.              *)
(***************************************************************************)
EXTENDS AccountSecret, TLAPS

USE DEF At, Goto, Put, vault, saved, local

\* Every step keeps the types.
LEMMA TypeOKStays ==
  ASSUME TypeOK, TokensInHand, NEW p \in Proc, Step(p) \/ Crash(p)
  PROVE  TypeOK'
<1>1. CASE Start(p)
  BY <1>1, Parameters, SMTT(30) DEF Start, TypeOK, TokensInHand, Account,
     Labels, Final, Refs, NoAccount, NoToken, NoRef, Mishap
<1>2. CASE Load(p)
  BY <1>2, Parameters, SMTT(30) DEF Load, AfterLoad, Reading, TypeOK,
     TokensInHand, Account, Labels, Final, Refs, NoAccount, NoToken, NoRef, Mishap
<1>3. CASE Get(p)
  BY <1>3, Parameters, SMTT(30) DEF Get, TypeOK, TokensInHand, Account,
     Labels, Final, Refs, NoAccount, NoToken, NoRef, Mishap
<1>4. CASE GetOS(p)
  BY <1>4, Parameters, SMTT(30) DEF GetOS, TypeOK, TokensInHand, Account,
     Labels, Final, Refs, NoAccount, NoToken, NoRef, Mishap
<1>5. CASE GetMisses(p)
  BY <1>5, Parameters, SMTT(30) DEF GetMisses, NextEntry, TypeOK,
     TokensInHand, Account, Labels, Final, Refs, NoAccount, NoToken, NoRef, Mishap
<1>6. CASE Promote(p)
  BY <1>6, Parameters, SMTT(30) DEF Promote, TypeOK, TokensInHand,
     Account, Labels, Final, Refs, NoAccount, NoToken, NoRef, Mishap
<1>7. CASE Use(p)
  BY <1>7, Parameters, SMTT(30) DEF Use, TypeOK, TokensInHand, Account,
     Labels, Final, Refs, NoAccount, NoToken, NoRef, Mishap
<1>8. CASE Refresh(p)
  BY <1>8, Parameters, SMTT(30) DEF Refresh, Remember, Plaintext, TypeOK,
     TokensInHand, Account, Labels, Final, Refs, NoAccount, NoToken, NoRef, Mishap
<1>9. CASE StillValid(p)
  BY <1>9, Parameters, SMTT(30) DEF StillValid, TypeOK, TokensInHand,
     Account, Labels, Final, Refs, NoAccount, NoToken, NoRef, Mishap
<1>10. CASE Harvest(p)
  BY <1>10, Parameters, SMTT(30) DEF Harvest, TypeOK, TokensInHand,
     Account, Labels, Final, Refs, NoAccount, NoToken, NoRef, Mishap
<1>11. CASE Set(p)
  BY <1>11, Parameters, SMTT(30) DEF Set, Remember, InVault, Target,
     Replaced, TypeOK, TokensInHand, Account, Labels, Final, Refs, NoAccount,
     NoToken, NoRef, Mishap
<1>12. CASE SetFails(p)
  BY <1>12, Parameters, SMTT(30) DEF SetFails, Remember, Plaintext,
     TypeOK, TokensInHand, Account, Labels, Final, Refs, NoAccount, NoToken, NoRef,
     Mishap
<1>13. CASE SetOS(p)
  BY <1>13, Parameters, SMTT(30) DEF SetOS, Target, TypeOK, TokensInHand,
     Account, Labels, Final, Refs, NoAccount, NoToken, NoRef, Mishap
<1>14. CASE Save(p)
  BY <1>14, Parameters, SMTT(30) DEF Save, Current, TypeOK, TokensInHand,
     Account, Labels, Final, Refs, NoAccount, NoToken, NoRef, Mishap
<1>15. CASE SaveFails(p)
  BY <1>15, Parameters, SMTT(30) DEF SaveFails, TypeOK, TokensInHand,
     Account, Labels, Final, Refs, NoAccount, NoToken, NoRef, Mishap
<1>16. CASE Interrupt(p)
  BY <1>16, Parameters, SMTT(30) DEF Interrupt, TypeOK, TokensInHand,
     Account, Labels, Final, Refs, NoAccount, NoToken, NoRef, Mishap
<1>17. CASE Unstage(p)
  BY <1>17, Parameters, SMTT(30) DEF Unstage, TypeOK, TokensInHand,
     Account, Labels, Final, Refs, NoAccount, NoToken, NoRef, Mishap
<1>18. CASE Delete(p)
  BY <1>18, Parameters, SMTT(30) DEF Delete, TypeOK, TokensInHand,
     Account, Labels, Final, Refs, NoAccount, NoToken, NoRef, Mishap
<1>19. CASE DeleteOS(p)
  BY <1>19, Parameters, SMTT(30) DEF DeleteOS, TypeOK, TokensInHand,
     Account, Labels, Final, Refs, NoAccount, NoToken, NoRef, Mishap
<1>20. CASE VaultFails(p)
  BY <1>20, Parameters, SMTT(60) DEF VaultFails, TypeOK, TokensInHand,
     Account, Labels, Final, Refs, NoAccount, NoToken, NoRef, Mishap
<1>21. CASE Crash(p)
  BY <1>21, Parameters, SMTT(30) DEF Crash, TypeOK, TokensInHand,
     Account, Labels, Final, Refs, NoAccount, NoToken, NoRef, Mishap
<1> QED
  BY <1>1, <1>2, <1>3, <1>4, <1>5, <1>6, <1>7, <1>8, <1>9, <1>10, <1>11, <1>12,
     <1>13, <1>14, <1>15, <1>16, <1>17, <1>18, <1>19, <1>20, <1>21 DEF Step

\* What a save puts into accounts.json leads to a token, and no entry goes that is needed.
LEMMA SavedResolves ==
  ASSUME SecretInv, NoRemoval, NEW p \in Proc, Step(p) \/ Crash(p)
  PROVE  (Resolves(account))'
<1>1. CASE Start(p)
  BY <1>1, Parameters, SMTT(30) DEF SecretInv, Start, TypeOK, Unpublished,
     Replaceable, TokensInHand, Resolves, InTheVault, NoRef, NoToken, Account, Refs
<1>2. CASE Load(p)
  BY <1>2, Parameters, SMTT(30) DEF SecretInv, Load, AfterLoad, Reading, TypeOK,
     Unpublished, Replaceable, TokensInHand, Resolves, InTheVault, NoRef, NoToken,
     Account, Refs
<1>3. CASE Get(p)
  BY <1>3, Parameters, SMTT(30) DEF SecretInv, Get, TypeOK, Unpublished,
     Replaceable, TokensInHand, Resolves, InTheVault, NoRef, NoToken, Account, Refs
<1>4. CASE GetOS(p)
  BY <1>4, Parameters, SMTT(30) DEF SecretInv, GetOS, TypeOK, Unpublished,
     Replaceable, TokensInHand, Resolves, InTheVault, NoRef, NoToken, Account, Refs
<1>5. CASE GetMisses(p)
  BY <1>5, Parameters, SMTT(30) DEF SecretInv, GetMisses, NextEntry, TypeOK,
     Unpublished, Replaceable, TokensInHand, Resolves, InTheVault, NoRef, NoToken,
     Account, Refs
<1>6. CASE Promote(p)
  BY <1>6, Parameters, SMTT(30) DEF SecretInv, Promote, TypeOK, Unpublished,
     Replaceable, TokensInHand, Resolves, InTheVault, NoRef, NoToken, Account, Refs
<1>7. CASE Use(p)
  BY <1>7, Parameters, SMTT(30) DEF SecretInv, Use, TypeOK, Unpublished,
     Replaceable, TokensInHand, Resolves, InTheVault, NoRef, NoToken, Account, Refs
<1>8. CASE Refresh(p)
  BY <1>8, Parameters, SMTT(30) DEF SecretInv, Refresh, Remember, Plaintext, TypeOK,
     Unpublished, Replaceable, TokensInHand, Resolves, InTheVault, NoRef, NoToken,
     Account, Refs
<1>9. CASE StillValid(p)
  BY <1>9, Parameters, SMTT(30) DEF SecretInv, StillValid, TypeOK, Unpublished,
     Replaceable, TokensInHand, Resolves, InTheVault, NoRef, NoToken, Account, Refs
<1>10. CASE Harvest(p)
  BY <1>10, Parameters, SMTT(30) DEF SecretInv, Harvest, TypeOK, Unpublished,
     Replaceable, TokensInHand, Resolves, InTheVault, NoRef, NoToken, Account, Refs
<1>11. CASE Set(p)
  BY <1>11, Parameters, SMTT(30) DEF SecretInv, Set, Remember, InVault, Target,
     Replaced, TypeOK, Unpublished, Replaceable, TokensInHand, Resolves, InTheVault,
     NoRef, NoToken, Account, Refs
<1>12. CASE SetFails(p)
  BY <1>12, Parameters, SMTT(30) DEF SecretInv, SetFails, Remember, Plaintext,
     TypeOK, Unpublished, Replaceable, TokensInHand, Resolves, InTheVault, NoRef,
     NoToken, Account, Refs
<1>13. CASE SetOS(p)
  BY <1>13, Parameters, SMTT(30) DEF SecretInv, SetOS, Target, TypeOK, Unpublished,
     Replaceable, TokensInHand, Resolves, InTheVault, NoRef, NoToken, Account, Refs
<1>14. CASE Save(p)
  BY <1>14, Parameters, SMTT(30) DEF SecretInv, Save, Current, TypeOK, Unpublished,
     Replaceable, TokensInHand, Resolves, InTheVault, NoRef, NoToken, Account, Refs
<1>15. CASE SaveFails(p)
  BY <1>15, Parameters, SMTT(30) DEF SecretInv, SaveFails, TypeOK, Unpublished,
     Replaceable, TokensInHand, Resolves, InTheVault, NoRef, NoToken, Account, Refs
<1>16. CASE Interrupt(p)
  BY <1>16, Parameters, SMTT(30) DEF SecretInv, Interrupt, TypeOK, Unpublished,
     Replaceable, TokensInHand, Resolves, InTheVault, NoRef, NoToken, Account, Refs
<1>17. CASE Unstage(p)
  BY <1>17, Parameters, SMTT(30) DEF SecretInv, Unstage, TypeOK, Unpublished,
     Replaceable, TokensInHand, Resolves, InTheVault, NoRef, NoToken, Account, Refs
<1>18. CASE Delete(p)
  BY <1>18, Parameters, SMTT(30) DEF SecretInv, Delete, TypeOK, Unpublished,
     Replaceable, TokensInHand, Resolves, InTheVault, NoRef, NoToken, Account, Refs
<1>19. CASE DeleteOS(p)
  BY <1>19, Parameters, SMTT(30) DEF SecretInv, DeleteOS, TypeOK, Unpublished,
     Replaceable, TokensInHand, Resolves, InTheVault, NoRef, NoToken, Account, Refs
<1>20. CASE VaultFails(p)
  BY <1>20, Parameters, SMTT(30) DEF SecretInv, VaultFails, TypeOK, Unpublished,
     Replaceable, TokensInHand, Resolves, InTheVault, NoRef, NoToken, Account, Refs
<1>21. CASE Crash(p)
  BY <1>21, Parameters, SMTT(30) DEF SecretInv, Crash, TypeOK, Unpublished,
     Replaceable, TokensInHand, Resolves, InTheVault, NoRef, NoToken, Account, Refs
<1> QED
  BY <1>1, <1>2, <1>3, <1>4, <1>5, <1>6, <1>7, <1>8, <1>9, <1>10, <1>11, <1>12,
     <1>13, <1>14, <1>15, <1>16, <1>17, <1>18, <1>19, <1>20, <1>21 DEF Step

\* Commands have the token and the entry they work on.
LEMMA TokensStayInHand ==
  ASSUME TypeOK, TokensInHand, NEW p \in Proc, Step(p) \/ Crash(p)
  PROVE  TokensInHand'
<1>1. CASE Start(p)
  BY <1>1, Parameters, SMTT(30) DEF Start, TypeOK, 
     TokensInHand, Refs, NoRef, NoToken, Account, NoAccount
<1>2. CASE Load(p)
  BY <1>2, Parameters, SMTT(30) DEF Load, AfterLoad, Reading, TypeOK,
     TokensInHand, Refs, NoRef, NoToken, Account, NoAccount
<1>3. CASE Get(p)
  BY <1>3, Parameters, SMTT(30) DEF Get, TypeOK, 
     TokensInHand, Refs, NoRef, NoToken, Account, NoAccount
<1>4. CASE GetOS(p)
  BY <1>4, Parameters, SMTT(30) DEF GetOS, TypeOK, 
     TokensInHand, Refs, NoRef, NoToken, Account, NoAccount
<1>5. CASE GetMisses(p)
  BY <1>5, Parameters, SMTT(30) DEF GetMisses, NextEntry, TypeOK,
     TokensInHand, Refs, NoRef, NoToken, Account, NoAccount
<1>6. CASE Promote(p)
  BY <1>6, Parameters, SMTT(30) DEF Promote, TypeOK, 
     TokensInHand, Refs, NoRef, NoToken, Account, NoAccount
<1>7. CASE Use(p)
  BY <1>7, Parameters, SMTT(30) DEF Use, TypeOK, 
     TokensInHand, Refs, NoRef, NoToken, Account, NoAccount
<1>8. CASE Refresh(p)
  BY <1>8, Parameters, SMTT(30) DEF Refresh, Remember, Plaintext, TypeOK,
     TokensInHand, Refs, NoRef, NoToken, Account, NoAccount
<1>9. CASE StillValid(p)
  BY <1>9, Parameters, SMTT(30) DEF StillValid, TypeOK, 
     TokensInHand, Refs, NoRef, NoToken, Account, NoAccount
<1>10. CASE Harvest(p)
  BY <1>10, Parameters, SMTT(30) DEF Harvest, TypeOK, 
     TokensInHand, Refs, NoRef, NoToken, Account, NoAccount
<1>11. CASE Set(p)
  BY <1>11, Parameters, SMTT(30) DEF Set, Remember, InVault, Target,
     Replaced, TypeOK, TokensInHand, Refs, NoRef, NoToken, Account,
     NoAccount
<1>12. CASE SetFails(p)
  BY <1>12, Parameters, SMTT(30) DEF SetFails, Remember, Plaintext,
     TypeOK, TokensInHand, Refs, NoRef, NoToken, Account, NoAccount
<1>13. CASE SetOS(p)
  BY <1>13, Parameters, SMTT(30) DEF SetOS, Target, TypeOK, 
     TokensInHand, Refs, NoRef, NoToken, Account, NoAccount
<1>14. CASE Save(p)
  BY <1>14, Parameters, SMTT(30) DEF Save, Current, TypeOK, 
     TokensInHand, Refs, NoRef, NoToken, Account, NoAccount
<1>15. CASE SaveFails(p)
  BY <1>15, Parameters, SMTT(30) DEF SaveFails, TypeOK, 
     TokensInHand, Refs, NoRef, NoToken, Account, NoAccount
<1>16. CASE Interrupt(p)
  BY <1>16, Parameters, SMTT(30) DEF Interrupt, TypeOK, 
     TokensInHand, Refs, NoRef, NoToken, Account, NoAccount
<1>17. CASE Unstage(p)
  BY <1>17, Parameters, SMTT(30) DEF Unstage, TypeOK, 
     TokensInHand, Refs, NoRef, NoToken, Account, NoAccount
<1>18. CASE Delete(p)
  BY <1>18, Parameters, SMTT(30) DEF Delete, TypeOK, 
     TokensInHand, Refs, NoRef, NoToken, Account, NoAccount
<1>19. CASE DeleteOS(p)
  BY <1>19, Parameters, SMTT(30) DEF DeleteOS, TypeOK, 
     TokensInHand, Refs, NoRef, NoToken, Account, NoAccount
<1>20. CASE VaultFails(p)
  BY <1>20, Parameters, SMTT(30) DEF VaultFails, TypeOK, 
     TokensInHand, Refs, NoRef, NoToken, Account, NoAccount
<1>21. CASE Crash(p)
  BY <1>21, Parameters, SMTT(30) DEF Crash, TypeOK, 
     TokensInHand, Refs, NoRef, NoToken, Account, NoAccount
<1> QED
  BY <1>1, <1>2, <1>3, <1>4, <1>5, <1>6, <1>7, <1>8, <1>9, <1>10, <1>11, <1>12,
     <1>13, <1>14, <1>15, <1>16, <1>17, <1>18, <1>19, <1>20, <1>21 DEF Step

\* No command gets hold of the entry of an unfinished import.
LEMMA UnpublishedStays ==
  ASSUME SecretInv, NoRemoval, NEW p \in Proc, Step(p) \/ Crash(p)
  PROVE  Unpublished'
<1>1. CASE Start(p)
  BY <1>1, Parameters, SMTT(30) DEF SecretInv, Start, TypeOK, Replaceable,
     Unpublished, Refs, NoRef, NoAccount, Account
<1>2. CASE Load(p)
  BY <1>2, Parameters, SMTT(30) DEF SecretInv, Load, AfterLoad, Reading, TypeOK,
     Replaceable, Unpublished, Refs, NoRef, NoAccount, Account
<1>3. CASE Get(p)
  BY <1>3, Parameters, SMTT(30) DEF SecretInv, Get, TypeOK, Replaceable,
     Unpublished, Refs, NoRef, NoAccount, Account
<1>4. CASE GetOS(p)
  BY <1>4, Parameters, SMTT(30) DEF SecretInv, GetOS, TypeOK, Replaceable,
     Unpublished, Refs, NoRef, NoAccount, Account
<1>5. CASE GetMisses(p)
  BY <1>5, Parameters, SMTT(30) DEF SecretInv, GetMisses, NextEntry, TypeOK,
     Replaceable, Unpublished, Refs, NoRef, NoAccount, Account
<1>6. CASE Promote(p)
  BY <1>6, Parameters, SMTT(30) DEF SecretInv, Promote, TypeOK, Replaceable,
     Unpublished, Refs, NoRef, NoAccount, Account
<1>7. CASE Use(p)
  BY <1>7, Parameters, SMTT(30) DEF SecretInv, Use, TypeOK, Replaceable,
     Unpublished, Refs, NoRef, NoAccount, Account
<1>8. CASE Refresh(p)
  BY <1>8, Parameters, SMTT(30) DEF SecretInv, Refresh, Remember, Plaintext, TypeOK,
     Replaceable, Unpublished, Refs, NoRef, NoAccount, Account
<1>9. CASE StillValid(p)
  BY <1>9, Parameters, SMTT(30) DEF SecretInv, StillValid, TypeOK, Replaceable,
     Unpublished, Refs, NoRef, NoAccount, Account
<1>10. CASE Harvest(p)
  BY <1>10, Parameters, SMTT(30) DEF SecretInv, Harvest, TypeOK, Replaceable,
     Unpublished, Refs, NoRef, NoAccount, Account
<1>11. CASE Set(p)
  BY <1>11, Parameters, SMTT(30) DEF SecretInv, Set, Remember, InVault, Target,
     Replaced, TypeOK, Replaceable, Unpublished, Refs, NoRef, NoAccount, Account
<1>12. CASE SetFails(p)
  BY <1>12, Parameters, SMTT(30) DEF SecretInv, SetFails, Remember, Plaintext,
     TypeOK, Replaceable, Unpublished, Refs, NoRef, NoAccount, Account
<1>13. CASE SetOS(p)
  BY <1>13, Parameters, SMTT(30) DEF SecretInv, SetOS, Target, TypeOK, Replaceable,
     Unpublished, Refs, NoRef, NoAccount, Account
<1>14. CASE Save(p)
  BY <1>14, Parameters, SMTT(30) DEF SecretInv, Save, Current, TypeOK, Replaceable,
     Unpublished, Refs, NoRef, NoAccount, Account
<1>15. CASE SaveFails(p)
  BY <1>15, Parameters, SMTT(30) DEF SecretInv, SaveFails, TypeOK, Replaceable,
     Unpublished, Refs, NoRef, NoAccount, Account
<1>16. CASE Interrupt(p)
  BY <1>16, Parameters, SMTT(30) DEF SecretInv, Interrupt, TypeOK, Replaceable,
     Unpublished, Refs, NoRef, NoAccount, Account
<1>17. CASE Unstage(p)
  BY <1>17, Parameters, SMTT(30) DEF SecretInv, Unstage, TypeOK, Replaceable,
     Unpublished, Refs, NoRef, NoAccount, Account
<1>18. CASE Delete(p)
  BY <1>18, Parameters, SMTT(30) DEF SecretInv, Delete, TypeOK, Replaceable,
     Unpublished, Refs, NoRef, NoAccount, Account
<1>19. CASE DeleteOS(p)
  BY <1>19, Parameters, SMTT(30) DEF SecretInv, DeleteOS, TypeOK, Replaceable,
     Unpublished, Refs, NoRef, NoAccount, Account
<1>20. CASE VaultFails(p)
  BY <1>20, Parameters, SMTT(30) DEF SecretInv, VaultFails, TypeOK, Replaceable,
     Unpublished, Refs, NoRef, NoAccount, Account
<1>21. CASE Crash(p)
  BY <1>21, Parameters, SMTT(30) DEF SecretInv, Crash, TypeOK, Replaceable,
     Unpublished, Refs, NoRef, NoAccount, Account
<1> QED
  BY <1>1, <1>2, <1>3, <1>4, <1>5, <1>6, <1>7, <1>8, <1>9, <1>10, <1>11, <1>12,
     <1>13, <1>14, <1>15, <1>16, <1>17, <1>18, <1>19, <1>20, <1>21 DEF Step

\* What commands have in memory leads to a token too.
LEMMA ReplaceableStays ==
  ASSUME SecretInv, NoRemoval, NEW p \in Proc, Step(p) \/ Crash(p)
  PROVE  Replaceable'
<1>1. CASE Start(p)
  BY <1>1, Parameters, SMTT(30) DEF SecretInv, Start, TypeOK, TokensInHand,
     Unpublished, Replaceable, Resolves, InTheVault, Target, Refs, NoRef, NoToken,
     Account, NoAccount
<1>2. CASE Load(p)
  BY <1>2, Parameters, SMTT(30) DEF SecretInv, NoRemoval, Load, AfterLoad, Reading, TypeOK,
     TokensInHand, Unpublished, Replaceable, Resolves, InTheVault, Target, Refs,
     NoRef, NoToken, Account, NoAccount
<1>3. CASE Get(p)
  BY <1>3, Parameters, SMTT(30) DEF SecretInv, Get, TypeOK, TokensInHand,
     Unpublished, Replaceable, Resolves, InTheVault, Target, Refs, NoRef, NoToken,
     Account, NoAccount
<1>4. CASE GetOS(p)
  BY <1>4, Parameters, SMTT(30) DEF SecretInv, GetOS, TypeOK, TokensInHand,
     Unpublished, Replaceable, Resolves, InTheVault, Target, Refs, NoRef, NoToken,
     Account, NoAccount
<1>5. CASE GetMisses(p)
  BY <1>5, Parameters, SMTT(30) DEF SecretInv, GetMisses, NextEntry, TypeOK,
     TokensInHand, Unpublished, Replaceable, Resolves, InTheVault, Target, Refs,
     NoRef, NoToken, Account, NoAccount
<1>6. CASE Promote(p)
  BY <1>6, Parameters, SMTT(30) DEF SecretInv, Promote, TypeOK, TokensInHand,
     Unpublished, Replaceable, Resolves, InTheVault, Target, Refs, NoRef, NoToken,
     Account, NoAccount
<1>7. CASE Use(p)
  BY <1>7, Parameters, SMTT(30) DEF SecretInv, Use, TypeOK, TokensInHand,
     Unpublished, Replaceable, Resolves, InTheVault, Target, Refs, NoRef, NoToken,
     Account, NoAccount
<1>8. CASE Refresh(p)
  BY <1>8, Parameters, SMTT(30) DEF SecretInv, Refresh, Remember, Plaintext, TypeOK,
     TokensInHand, Unpublished, Replaceable, Resolves, InTheVault, Target, Refs,
     NoRef, NoToken, Account, NoAccount
<1>9. CASE StillValid(p)
  BY <1>9, Parameters, SMTT(30) DEF SecretInv, StillValid, TypeOK, TokensInHand,
     Unpublished, Replaceable, Resolves, InTheVault, Target, Refs, NoRef, NoToken,
     Account, NoAccount
<1>10. CASE Harvest(p)
  BY <1>10, Parameters, SMTT(30) DEF SecretInv, Harvest, TypeOK, TokensInHand,
     Unpublished, Replaceable, Resolves, InTheVault, Target, Refs, NoRef, NoToken,
     Account, NoAccount
<1>11. CASE Set(p)
  BY <1>11, Parameters, SMTT(30) DEF SecretInv, Set, Remember, InVault, Target,
     Replaced, TypeOK, TokensInHand, Unpublished, Replaceable, Resolves, InTheVault,
     Refs, NoRef, NoToken, Account, NoAccount
<1>12. CASE SetFails(p)
  BY <1>12, Parameters, SMTT(30) DEF SecretInv, SetFails, Remember, Plaintext,
     TypeOK, TokensInHand, Unpublished, Replaceable, Resolves, InTheVault, Target,
     Refs, NoRef, NoToken, Account, NoAccount
<1>13. CASE SetOS(p)
  BY <1>13, Parameters, SMTT(30) DEF SecretInv, SetOS, Target, TypeOK, TokensInHand,
     Unpublished, Replaceable, Resolves, InTheVault, Refs, NoRef, NoToken, Account,
     NoAccount
<1>14. CASE Save(p)
  BY <1>14, Parameters, SMTT(30) DEF SecretInv, Save, Current, TypeOK, TokensInHand,
     Unpublished, Replaceable, Resolves, InTheVault, Target, Refs, NoRef, NoToken,
     Account, NoAccount
<1>15. CASE SaveFails(p)
  BY <1>15, Parameters, SMTT(30) DEF SecretInv, SaveFails, TypeOK, TokensInHand,
     Unpublished, Replaceable, Resolves, InTheVault, Target, Refs, NoRef, NoToken,
     Account, NoAccount
<1>16. CASE Interrupt(p)
  BY <1>16, Parameters, SMTT(30) DEF SecretInv, Interrupt, TypeOK, TokensInHand,
     Unpublished, Replaceable, Resolves, InTheVault, Target, Refs, NoRef, NoToken,
     Account, NoAccount
<1>17. CASE Unstage(p)
  BY <1>17, Parameters, SMTT(30) DEF SecretInv, Unstage, TypeOK, TokensInHand,
     Unpublished, Replaceable, Resolves, InTheVault, Target, Refs, NoRef, NoToken,
     Account, NoAccount
<1>18. CASE Delete(p)
  BY <1>18, Parameters, SMTT(30) DEF SecretInv, Delete, TypeOK, TokensInHand,
     Unpublished, Replaceable, Resolves, InTheVault, Target, Refs, NoRef, NoToken,
     Account, NoAccount
<1>19. CASE DeleteOS(p)
  BY <1>19, Parameters, SMTT(30) DEF SecretInv, DeleteOS, TypeOK, TokensInHand,
     Unpublished, Replaceable, Resolves, InTheVault, Target, Refs, NoRef, NoToken,
     Account, NoAccount
<1>20. CASE VaultFails(p)
  BY <1>20, Parameters, SMTT(30) DEF SecretInv, VaultFails, TypeOK, TokensInHand,
     Unpublished, Replaceable, Resolves, InTheVault, Target, Refs, NoRef, NoToken,
     Account, NoAccount
<1>21. CASE Crash(p)
  BY <1>21, Parameters, SMTT(30) DEF SecretInv, Crash, TypeOK, TokensInHand,
     Unpublished, Replaceable, Resolves, InTheVault, Target, Refs, NoRef, NoToken,
     Account, NoAccount
<1> QED
  BY <1>1, <1>2, <1>3, <1>4, <1>5, <1>6, <1>7, <1>8, <1>9, <1>10, <1>11, <1>12,
     <1>13, <1>14, <1>15, <1>16, <1>17, <1>18, <1>19, <1>20, <1>21 DEF Step

-----------------------------------------------------------------------------

\* At the start there is one account at most, and its token is where it says.
LEMMA InitSecretInv == Init => SecretInv
<1> SUFFICES ASSUME Init PROVE SecretInv
  OBVIOUS
<1>1. TypeOK
  <2>1. /\ Empty \in [Refs -> Nat]
        /\ \A r \in Refs : With(r, 1) \in [Refs -> Nat] /\ InVault(r) \in Account
        /\ Plaintext(1) \in Account /\ NoAccount \in Account
    BY DEF Empty, With, InVault, Plaintext, NoAccount, Account, NoToken, NoRef
  <2>2. account \in Account /\ file \in [Refs -> Nat] /\ os \in [Refs -> Nat]
    BY <2>1 DEF Init, Refs
  <2> QED
    BY <2>1, <2>2, Parameters DEF Init, TypeOK, Labels, Refs, NoToken, NoRef
<1>2. Resolves(account)
  BY Parameters DEF Init, Resolves, InTheVault, Account, InVault, Plaintext,
     NoAccount, Empty, With, Refs, NoRef, NoToken
<1>3. TokensInHand
  BY DEF Init, TokensInHand
<1>4. Unpublished
  BY Parameters DEF Init, Unpublished, InVault, Plaintext, NoAccount, NoRef
<1>5. Replaceable
  BY DEF Init, Replaceable
<1> QED
  BY <1>1, <1>2, <1>3, <1>4, <1>5 DEF SecretInv

\* A command keeps its role.
LEMMA RoleStays ==
  ASSUME NEW p \in Proc, Step(p) \/ Crash(p)
  PROVE  role' = role
BY DEF Step, Crash, Start, Load, Get, GetOS, GetMisses, Promote, Use, Refresh, StillValid,
   Harvest, Set, SetFails, SetOS, Save, SaveFails, Interrupt, Unstage, Delete, DeleteOS,
   VaultFails

\* ... and so does everybody.
LEMMA RolesStay == [Next]_vars => role' = role
  BY RoleStays DEF Next, AllEnded, vars

\* No step breaks the invariant, as long as nobody removes the account.
LEMMA NextSecretInv ==
  (NoRemoval => SecretInv) /\ [Next]_vars => (NoRemoval => SecretInv)'
<1> SUFFICES ASSUME NoRemoval => SecretInv, [Next]_vars, NoRemoval' PROVE SecretInv'
  OBVIOUS
<1>1. NoRemoval /\ SecretInv
  BY RolesStay DEF NoRemoval
<1>2. CASE \E p \in Proc : Step(p) \/ Crash(p)
  BY <1>1, <1>2, TypeOKStays, SavedResolves, TokensStayInHand, UnpublishedStays,
     ReplaceableStays DEF SecretInv
<1>3. CASE UNCHANGED vars
  BY <1>1, <1>3 DEF SecretInv, vars, TypeOK, Resolves, InTheVault, TokensInHand,
     Unpublished, Replaceable, Target
<1> QED
  BY <1>2, <1>3 DEF Next, AllEnded

\* What SecretInv says of the saved account is that it leads to a token.
LEMMA ResolvesIsReadable == SecretInv => SavedTokenKept
<1> SUFFICES ASSUME SecretInv, account # NoAccount PROVE TokenOf(account) # NoToken
  BY DEF SavedTokenKept
<1>1. CASE account.ref = NoRef
  <2>1. account.plain # NoToken
    BY <1>1 DEF SecretInv, TypeOK, Account, NoAccount
  <2> QED BY <1>1, <2>1 DEF TokenOf
<1>2. CASE account.ref # NoRef
  BY <1>2 DEF SecretInv, Resolves, InTheVault, TokenOf, Held
<1> QED
  BY <1>1, <1>2

-----------------------------------------------------------------------------

\* Whatever commands do with the account short of removing it, its entry in
\* accounts.json leads to a token: saveAccountSecret writes the vault before
\* accounts.json and deletes the replaced entry after it.
THEOREM TokenNeverLost == Spec => []SavedTokenReadable
<1>1. Spec => [](NoRemoval => SecretInv)
  BY InitSecretInv, NextSecretInv, PTL DEF Spec
<1>2. (NoRemoval => SecretInv) => SavedTokenReadable
  BY ResolvesIsReadable DEF SavedTokenReadable
<1> QED
  BY <1>1, <1>2, PTL

-----------------------------------------------------------------------------
(* What commands have seen, remember and are to delete *)

\* A command that found the account has it, or will not be able to save.
LEMMA SeenStays ==
  ASSUME TypeOK, TokensInHand, Seen, NEW p \in Proc, Step(p) \/ Crash(p)
  PROVE  Seen'
<1>1. CASE Start(p)
  BY <1>1, Parameters, SMTT(30) DEF Start, TypeOK, Seen, Current, Final, NoRef, NoToken,
     Account, NoAccount
<1>2. CASE Load(p)
  BY <1>2, Parameters, SMTT(30) DEF Load, AfterLoad, Reading, TypeOK, Seen, Current,
     Final, NoRef, NoToken, Account, NoAccount
<1>3. CASE Get(p)
  BY <1>3, Parameters, SMTT(30) DEF Get, TypeOK, Seen, Current, Final, NoRef, NoToken,
     Account, NoAccount
<1>4. CASE GetOS(p)
  BY <1>4, Parameters, SMTT(30) DEF GetOS, TypeOK, Seen, Current, Final, NoRef, NoToken,
     Account, NoAccount
<1>5. CASE GetMisses(p)
  BY <1>5, Parameters, SMTT(30) DEF GetMisses, NextEntry, TypeOK, Seen, Current, Final,
     NoRef, NoToken, Account, NoAccount
<1>6. CASE Promote(p)
  BY <1>6, Parameters, SMTT(30) DEF Promote, TypeOK, Seen, Current, Final, NoRef,
     NoToken, Account, NoAccount
<1>7. CASE Use(p)
  BY <1>7, Parameters, SMTT(30) DEF Use, TypeOK, Seen, Current, Final, NoRef, NoToken,
     Account, NoAccount
<1>8. CASE Refresh(p)
  BY <1>8, Parameters, SMTT(30) DEF Refresh, Remember, Plaintext, TypeOK, Seen, Current,
     Final, NoRef, NoToken, Account, NoAccount
<1>9. CASE StillValid(p)
  BY <1>9, Parameters, SMTT(30) DEF StillValid, TypeOK, Seen, Current, Final, NoRef,
     NoToken, Account, NoAccount
<1>10. CASE Harvest(p)
  BY <1>10, Parameters, SMTT(30) DEF Harvest, TypeOK, Seen, Current, Final, NoRef,
     NoToken, Account, NoAccount
<1>11. CASE Set(p)
  BY <1>11, Parameters, SMTT(30) DEF Set, Remember, InVault, Target, Replaced, TypeOK,
     Seen, Current, Final, NoRef, NoToken, Account, NoAccount
<1>12. CASE SetFails(p)
  BY <1>12, Parameters, SMTT(30) DEF SetFails, Remember, Plaintext, TypeOK, Seen,
     Current, Final, NoRef, NoToken, Account, NoAccount
<1>13. CASE SetOS(p)
  BY <1>13, Parameters, SMTT(30) DEF SetOS, Target, TypeOK, Seen, Current, Final, NoRef,
     NoToken, Account, NoAccount
<1>14. CASE Save(p)
  BY <1>14, Parameters, SMTT(30) DEF Save, Current, TypeOK, Seen, Final, NoRef, NoToken,
     Account, NoAccount
<1>15. CASE SaveFails(p)
  BY <1>15, Parameters, SMTT(30) DEF SaveFails, TypeOK, Seen, Current, Final, NoRef,
     NoToken, Account, NoAccount
<1>16. CASE Interrupt(p)
  BY <1>16, Parameters, SMTT(30) DEF Interrupt, TypeOK, Seen, Current, Final, NoRef,
     NoToken, Account, NoAccount
<1>17. CASE Unstage(p)
  BY <1>17, Parameters, SMTT(30) DEF Unstage, TypeOK, Seen, Current, Final, NoRef,
     NoToken, Account, NoAccount
<1>18. CASE Delete(p)
  BY <1>18, Parameters, SMTT(30) DEF Delete, TypeOK, Seen, Current, Final, NoRef,
     NoToken, Account, NoAccount
<1>19. CASE DeleteOS(p)
  BY <1>19, Parameters, SMTT(30) DEF DeleteOS, TypeOK, Seen, Current, Final, NoRef,
     NoToken, Account, NoAccount
<1>20. CASE VaultFails(p)
  BY <1>20, Parameters, SMTT(30) DEF VaultFails, TypeOK, Seen, Current, Final, NoRef,
     NoToken, Account, NoAccount
<1>21. CASE Crash(p)
  BY <1>21, Parameters, SMTT(30) DEF Crash, TypeOK, Seen, Current, Final, NoRef,
     NoToken, Account, NoAccount
<1> QED
  BY <1>1, <1>2, <1>3, <1>4, <1>5, <1>6, <1>7, <1>8, <1>9, <1>10, <1>11, <1>12,
     <1>13, <1>14, <1>15, <1>16, <1>17, <1>18, <1>19, <1>20, <1>21 DEF Step

\* What a command has in memory is the saved account, or its own change of it.
LEMMA RememberedStays ==
  ASSUME TokenInv, NoRemoval, NEW p \in Proc, Step(p) \/ Crash(p)
  PROVE  Remembered'
<1>1. CASE Start(p)
  BY <1>1, Parameters, SMTT(30) DEF Start, TokenInv, SecretInv, NoRemoval, TypeOK, Seen,
     Remembered, AllRoles, Replaceable, TokensInHand, Unpublished, Current, InVault,
     Plaintext, Target, Refs, NoRef, NoToken, Account, NoAccount
<1>2. CASE Load(p)
  <2>1. role[p] \in AllRoles /\ role[p] # "remove" /\ account \in Account
    BY Parameters DEF TokenInv, SecretInv, NoRemoval, TypeOK
  <2>2. /\ memory' = [memory EXCEPT ![p] = [account |-> account, revision |-> revision]]
        /\ role' = role /\ account' = account /\ revision' = revision /\ file' = file
        /\ pc' = [pc EXCEPT ![p] = AfterLoad(p)]
        /\ token' = [token EXCEPT ![p] = IF role[p] = "migrate" THEN account.plain ELSE @]
        /\ entry' = [entry EXCEPT ![p] = IF Reading(p) THEN account.ref ELSE NoRef]
    BY <1>2, <2>1 DEF Load
  <2>3. \A q \in Proc \ {p} :
          memory'[q] = memory[q] /\ pc'[q] = pc[q] /\ token'[q] = token[q] /\ entry'[q] = entry[q]
    BY <2>2 DEF TokenInv, SecretInv, TypeOK
  <2>4. memory'[p].account = account /\ pc'[p] = AfterLoad(p) /\ AfterLoad(p) # "setOS"
    BY <2>2 DEF TokenInv, SecretInv, TypeOK, AfterLoad
  <2>5. AfterLoad(p) = "save" => role[p] = "migrate" /\ account.plain = NoToken
    BY <2>1 DEF AfterLoad, Reading, AllRoles
  <2>6. AfterLoad(p) = "save" => token'[p] = NoToken /\ entry'[p] = NoRef
    BY <2>2, <2>5 DEF TokenInv, SecretInv, TypeOK, Reading
  <2>7. role[p] = "refresh" => token'[p] = NoToken
    BY <1>2, <2>2 DEF TokenInv, SecretInv, TypeOK, Load, Remembered
  <2>8. \A q \in Proc \ {p} : Current(q)' = Current(q) /\ Target(q)' = Target(q)
    BY <2>2, <2>3 DEF Current, Target
  <2> QED
    BY <2>2, <2>3, <2>4, <2>6, <2>7, <2>8 DEF TokenInv, Remembered
<1>3. CASE Get(p)
  BY <1>3, Parameters, SMTT(30) DEF Get, TokenInv, SecretInv, NoRemoval, TypeOK, Seen,
     Remembered, AllRoles, Replaceable, TokensInHand, Unpublished, Current, InVault,
     Plaintext, Target, Refs, NoRef, NoToken, Account, NoAccount
<1>4. CASE GetOS(p)
  BY <1>4, Parameters, SMTT(30) DEF GetOS, TokenInv, SecretInv, NoRemoval, TypeOK, Seen,
     Remembered, AllRoles, Replaceable, TokensInHand, Unpublished, Current, InVault,
     Plaintext, Target, Refs, NoRef, NoToken, Account, NoAccount
<1>5. CASE GetMisses(p)
  BY <1>5, Parameters, SMTT(30) DEF GetMisses, NextEntry, TokenInv, SecretInv,
     NoRemoval, TypeOK, Seen, Remembered, AllRoles, Replaceable, TokensInHand,
     Unpublished, Current, InVault, Plaintext, Target, Refs, NoRef, NoToken, Account,
     NoAccount
<1>6. CASE Promote(p)
  BY <1>6, Parameters, SMTT(30) DEF Promote, TokenInv, SecretInv, NoRemoval, TypeOK,
     Seen, Remembered, AllRoles, Replaceable, TokensInHand, Unpublished, Current,
     InVault, Plaintext, Target, Refs, NoRef, NoToken, Account, NoAccount
<1>7. CASE Use(p)
  BY <1>7, Parameters, SMTT(30) DEF Use, TokenInv, SecretInv, NoRemoval, TypeOK, Seen,
     Remembered, AllRoles, Replaceable, TokensInHand, Unpublished, Current, InVault,
     Plaintext, Target, Refs, NoRef, NoToken, Account, NoAccount
<1>8. CASE Refresh(p)
  BY <1>8, Parameters, SMTT(30) DEF Refresh, Remember, Plaintext, TokenInv, SecretInv,
     NoRemoval, TypeOK, Seen, Remembered, AllRoles, Replaceable, TokensInHand,
     Unpublished, Current, InVault, Target, Refs, NoRef, NoToken, Account, NoAccount
<1>9. CASE StillValid(p)
  BY <1>9, Parameters, SMTT(30) DEF StillValid, TokenInv, SecretInv, NoRemoval, TypeOK,
     Seen, Remembered, AllRoles, Replaceable, TokensInHand, Unpublished, Current,
     InVault, Plaintext, Target, Refs, NoRef, NoToken, Account, NoAccount
<1>10. CASE Harvest(p)
  BY <1>10, Parameters, SMTT(30) DEF Harvest, TokenInv, SecretInv, NoRemoval, TypeOK,
     Seen, Remembered, AllRoles, Replaceable, TokensInHand, Unpublished, Current,
     InVault, Plaintext, Target, Refs, NoRef, NoToken, Account, NoAccount
<1>11. CASE Set(p)
  BY <1>11, Parameters, SMTT(30) DEF Set, Remember, InVault, Target, Replaced, TokenInv,
     SecretInv, NoRemoval, TypeOK, Seen, Remembered, AllRoles, Replaceable,
     TokensInHand, Unpublished, Current, Plaintext, Refs, NoRef, NoToken, Account,
     NoAccount
<1>12. CASE SetFails(p)
  BY <1>12, Parameters, SMTT(30) DEF SetFails, Remember, Plaintext, TokenInv, SecretInv,
     NoRemoval, TypeOK, Seen, Remembered, AllRoles, Replaceable, TokensInHand,
     Unpublished, Current, InVault, Target, Refs, NoRef, NoToken, Account, NoAccount
<1>13. CASE SetOS(p)
  BY <1>13, Parameters, SMTT(30) DEF SetOS, Target, TokenInv, SecretInv, NoRemoval,
     TypeOK, Seen, Remembered, AllRoles, Replaceable, TokensInHand, Unpublished,
     Current, InVault, Plaintext, Refs, NoRef, NoToken, Account, NoAccount
<1>14. CASE Save(p)
  BY <1>14, Parameters, SMTT(30) DEF Save, Current, TokenInv, SecretInv, NoRemoval,
     TypeOK, Seen, Remembered, AllRoles, Replaceable, TokensInHand, Unpublished,
     InVault, Plaintext, Target, Refs, NoRef, NoToken, Account, NoAccount
<1>15. CASE SaveFails(p)
  BY <1>15, Parameters, SMTT(30) DEF SaveFails, TokenInv, SecretInv, NoRemoval, TypeOK,
     Seen, Remembered, AllRoles, Replaceable, TokensInHand, Unpublished, Current,
     InVault, Plaintext, Target, Refs, NoRef, NoToken, Account, NoAccount
<1>16. CASE Interrupt(p)
  BY <1>16, Parameters, SMTT(30) DEF Interrupt, TokenInv, SecretInv, NoRemoval, TypeOK,
     Seen, Remembered, AllRoles, Replaceable, TokensInHand, Unpublished, Current,
     InVault, Plaintext, Target, Refs, NoRef, NoToken, Account, NoAccount
<1>17. CASE Unstage(p)
  BY <1>17, Parameters, SMTT(30) DEF Unstage, TokenInv, SecretInv, NoRemoval, TypeOK,
     Seen, Remembered, AllRoles, Replaceable, TokensInHand, Unpublished, Current,
     InVault, Plaintext, Target, Refs, NoRef, NoToken, Account, NoAccount
<1>18. CASE Delete(p)
  BY <1>18, Parameters, SMTT(30) DEF Delete, TokenInv, SecretInv, NoRemoval, TypeOK,
     Seen, Remembered, AllRoles, Replaceable, TokensInHand, Unpublished, Current,
     InVault, Plaintext, Target, Refs, NoRef, NoToken, Account, NoAccount
<1>19. CASE DeleteOS(p)
  BY <1>19, Parameters, SMTT(30) DEF DeleteOS, TokenInv, SecretInv, NoRemoval, TypeOK,
     Seen, Remembered, AllRoles, Replaceable, TokensInHand, Unpublished, Current,
     InVault, Plaintext, Target, Refs, NoRef, NoToken, Account, NoAccount
<1>20. CASE VaultFails(p)
  BY <1>20, Parameters, SMTT(30) DEF VaultFails, TokenInv, SecretInv, NoRemoval, TypeOK,
     Seen, Remembered, AllRoles, Replaceable, TokensInHand, Unpublished, Current,
     InVault, Plaintext, Target, Refs, NoRef, NoToken, Account, NoAccount
<1>21. CASE Crash(p)
  BY <1>21, Parameters, SMTT(30) DEF Crash, TokenInv, SecretInv, NoRemoval, TypeOK,
     Seen, Remembered, AllRoles, Replaceable, TokensInHand, Unpublished, Current,
     InVault, Plaintext, Target, Refs, NoRef, NoToken, Account, NoAccount
<1> QED
  BY <1>1, <1>2, <1>3, <1>4, <1>5, <1>6, <1>7, <1>8, <1>9, <1>10, <1>11, <1>12,
     <1>13, <1>14, <1>15, <1>16, <1>17, <1>18, <1>19, <1>20, <1>21 DEF Step

\* The entry of the saved account stays.
LEMMA ReferredStays ==
  ASSUME TokenInv, NoRemoval, NEW p \in Proc, Step(p) \/ Crash(p)
  PROVE  Referred'
<1>1. CASE Start(p)
  BY <1>1, Parameters, SMTT(30) DEF Start, TokenInv, SecretInv, NoRemoval, TypeOK, Seen,
     Remembered, Referred, Replaceable, TokensInHand, Unpublished, Current, InVault,
     Plaintext, Target, Refs, Held, NoRef, NoToken, Account, NoAccount
<1>2. CASE Load(p)
  BY <1>2, Parameters, SMTT(30) DEF Load, AfterLoad, Reading, TokenInv, SecretInv,
     NoRemoval, TypeOK, Seen, Remembered, Referred, Replaceable, TokensInHand,
     Unpublished, Current, InVault, Plaintext, Target, Refs, Held, NoRef, NoToken,
     Account, NoAccount
<1>3. CASE Get(p)
  BY <1>3, Parameters, SMTT(30) DEF Get, TokenInv, SecretInv, NoRemoval, TypeOK, Seen,
     Remembered, Referred, Replaceable, TokensInHand, Unpublished, Current, InVault,
     Plaintext, Target, Refs, Held, NoRef, NoToken, Account, NoAccount
<1>4. CASE GetOS(p)
  BY <1>4, Parameters, SMTT(30) DEF GetOS, TokenInv, SecretInv, NoRemoval, TypeOK, Seen,
     Remembered, Referred, Replaceable, TokensInHand, Unpublished, Current, InVault,
     Plaintext, Target, Refs, Held, NoRef, NoToken, Account, NoAccount
<1>5. CASE GetMisses(p)
  BY <1>5, Parameters, SMTT(30) DEF GetMisses, NextEntry, TokenInv, SecretInv,
     NoRemoval, TypeOK, Seen, Remembered, Referred, Replaceable, TokensInHand,
     Unpublished, Current, InVault, Plaintext, Target, Refs, Held, NoRef, NoToken,
     Account, NoAccount
<1>6. CASE Promote(p)
  BY <1>6, Parameters, SMTT(30) DEF Promote, TokenInv, SecretInv, NoRemoval, TypeOK,
     Seen, Remembered, Referred, Replaceable, TokensInHand, Unpublished, Current,
     InVault, Plaintext, Target, Refs, Held, NoRef, NoToken, Account, NoAccount
<1>7. CASE Use(p)
  BY <1>7, Parameters, SMTT(30) DEF Use, TokenInv, SecretInv, NoRemoval, TypeOK, Seen,
     Remembered, Referred, Replaceable, TokensInHand, Unpublished, Current, InVault,
     Plaintext, Target, Refs, Held, NoRef, NoToken, Account, NoAccount
<1>8. CASE Refresh(p)
  BY <1>8, Parameters, SMTT(30) DEF Refresh, Remember, Plaintext, TokenInv, SecretInv,
     NoRemoval, TypeOK, Seen, Remembered, Referred, Replaceable, TokensInHand,
     Unpublished, Current, InVault, Target, Refs, Held, NoRef, NoToken, Account,
     NoAccount
<1>9. CASE StillValid(p)
  BY <1>9, Parameters, SMTT(30) DEF StillValid, TokenInv, SecretInv, NoRemoval, TypeOK,
     Seen, Remembered, Referred, Replaceable, TokensInHand, Unpublished, Current,
     InVault, Plaintext, Target, Refs, Held, NoRef, NoToken, Account, NoAccount
<1>10. CASE Harvest(p)
  BY <1>10, Parameters, SMTT(30) DEF Harvest, TokenInv, SecretInv, NoRemoval, TypeOK,
     Seen, Remembered, Referred, Replaceable, TokensInHand, Unpublished, Current,
     InVault, Plaintext, Target, Refs, Held, NoRef, NoToken, Account, NoAccount
<1>11. CASE Set(p)
  BY <1>11, Parameters, SMTT(30) DEF Set, Remember, InVault, Target, Replaced, TokenInv,
     SecretInv, NoRemoval, TypeOK, Seen, Remembered, Referred, Replaceable,
     TokensInHand, Unpublished, Current, Plaintext, Refs, Held, NoRef, NoToken, Account,
     NoAccount
<1>12. CASE SetFails(p)
  BY <1>12, Parameters, SMTT(30) DEF SetFails, Remember, Plaintext, TokenInv, SecretInv,
     NoRemoval, TypeOK, Seen, Remembered, Referred, Replaceable, TokensInHand,
     Unpublished, Current, InVault, Target, Refs, Held, NoRef, NoToken, Account,
     NoAccount
<1>13. CASE SetOS(p)
  BY <1>13, Parameters, SMTT(30) DEF SetOS, Target, TokenInv, SecretInv, NoRemoval,
     TypeOK, Seen, Remembered, Referred, Replaceable, TokensInHand, Unpublished,
     Current, InVault, Plaintext, Refs, Held, NoRef, NoToken, Account, NoAccount
<1>14. CASE Save(p)
  <2>1. /\ account' = memory[p].account /\ UNCHANGED <<file, os, role, memory, token, entry>>
        /\ pc' = [pc EXCEPT ![p] = IF entry[p] = NoRef THEN "done" ELSE "delete"]
        /\ pc[p] = "save" /\ Current(p)
    BY <1>14 DEF Save
  <2>2. \A q \in Proc : pc[q] \in {"delete", "deleteOS"} =>
          entry[q] \in Refs /\ entry[q] # "account" /\ entry[q] # account.ref /\ entry[q] # NoRef
    BY Parameters DEF TokenInv, SecretInv, TokensInHand, Replaceable, Referred, Refs, NoRef
  <2>3. \A q \in Proc : pc'[q] \in {"delete", "deleteOS"} =>
          IF q = p THEN entry[p] # NoRef ELSE pc[q] \in {"delete", "deleteOS"}
    BY <2>1 DEF TokenInv, SecretInv, TypeOK
  <2>4. CASE token[p] = NoToken /\ entry[p] = NoRef /\ memory[p].account = account
    BY <2>1, <2>2, <2>3, <2>4 DEF TokenInv, Referred, Held
  <2>5. CASE memory[p].account = Plaintext(token[p]) /\ entry[p] = NoRef
    BY <2>1, <2>2, <2>3, <2>5 DEF Plaintext, Referred
  <2>6. CASE memory[p].account = InVault(Target(p)) /\ file[Target(p)] # NoToken /\ entry[p] # Target(p)
    <3>1. account'.ref = Target(p)
      BY <2>1, <2>6 DEF InVault
    <3>2. Held(account.ref)' # NoToken
      BY <2>1, <2>6, <3>1 DEF Held
    <3>3. \A q \in Proc : pc[q] \in {"delete", "deleteOS"} => entry[q] # Target(p)
      <4>1. role[p] = "import" => \A q \in Proc : entry[q] # p
        BY <2>1 DEF TokenInv, SecretInv, Unpublished
      <4> QED
        BY <2>2, <4>1 DEF Target
    <3> QED
      BY <2>1, <2>3, <2>6, <3>1, <3>2, <3>3 DEF Referred
  <2> QED
    BY <2>1, <2>4, <2>5, <2>6 DEF TokenInv, Remembered
<1>15. CASE SaveFails(p)
  BY <1>15, Parameters, SMTT(30) DEF SaveFails, TokenInv, SecretInv, NoRemoval, TypeOK,
     Seen, Remembered, Referred, Replaceable, TokensInHand, Unpublished, Current,
     InVault, Plaintext, Target, Refs, Held, NoRef, NoToken, Account, NoAccount
<1>16. CASE Interrupt(p)
  BY <1>16, Parameters, SMTT(30) DEF Interrupt, TokenInv, SecretInv, NoRemoval, TypeOK,
     Seen, Remembered, Referred, Replaceable, TokensInHand, Unpublished, Current,
     InVault, Plaintext, Target, Refs, Held, NoRef, NoToken, Account, NoAccount
<1>17. CASE Unstage(p)
  BY <1>17, Parameters, SMTT(30) DEF Unstage, TokenInv, SecretInv, NoRemoval, TypeOK,
     Seen, Remembered, Referred, Replaceable, TokensInHand, Unpublished, Current,
     InVault, Plaintext, Target, Refs, Held, NoRef, NoToken, Account, NoAccount
<1>18. CASE Delete(p)
  BY <1>18, Parameters, SMTT(30) DEF Delete, TokenInv, SecretInv, NoRemoval, TypeOK,
     Seen, Remembered, Referred, Replaceable, TokensInHand, Unpublished, Current,
     InVault, Plaintext, Target, Refs, Held, NoRef, NoToken, Account, NoAccount
<1>19. CASE DeleteOS(p)
  BY <1>19, Parameters, SMTT(30) DEF DeleteOS, TokenInv, SecretInv, NoRemoval, TypeOK,
     Seen, Remembered, Referred, Replaceable, TokensInHand, Unpublished, Current,
     InVault, Plaintext, Target, Refs, Held, NoRef, NoToken, Account, NoAccount
<1>20. CASE VaultFails(p)
  BY <1>20, Parameters, SMTT(30) DEF VaultFails, TokenInv, SecretInv, NoRemoval, TypeOK,
     Seen, Remembered, Referred, Replaceable, TokensInHand, Unpublished, Current,
     InVault, Plaintext, Target, Refs, Held, NoRef, NoToken, Account, NoAccount
<1>21. CASE Crash(p)
  BY <1>21, Parameters, SMTT(30) DEF Crash, TokenInv, SecretInv, NoRemoval, TypeOK,
     Seen, Remembered, Referred, Replaceable, TokensInHand, Unpublished, Current,
     InVault, Plaintext, Target, Refs, Held, NoRef, NoToken, Account, NoAccount
<1> QED
  BY <1>1, <1>2, <1>3, <1>4, <1>5, <1>6, <1>7, <1>8, <1>9, <1>10, <1>11, <1>12,
     <1>13, <1>14, <1>15, <1>16, <1>17, <1>18, <1>19, <1>20, <1>21 DEF Step

\* A token is looked for where one is.
LEMMA LookingStays ==
  ASSUME TokenInv, NoRemoval, NEW p \in Proc, Step(p) \/ Crash(p)
  PROVE  Looking'
<1>1. CASE Start(p)
  BY <1>1, Parameters, SMTT(30) DEF Start, TokenInv, SecretInv, NoRemoval, TypeOK,
     Remembered, Looking, Replaceable, TokensInHand, Unpublished, Resolves, InTheVault,
     Refs, NoRef, NoToken, Account, NoAccount
<1>2. CASE Load(p)
  BY <1>2, Parameters, SMTT(30) DEF Load, AfterLoad, Reading, TokenInv, SecretInv,
     NoRemoval, TypeOK, Remembered, Looking, Replaceable, TokensInHand, Unpublished,
     Resolves, InTheVault, Refs, NoRef, NoToken, Account, NoAccount
<1>3. CASE Get(p)
  BY <1>3, Parameters, SMTT(30) DEF Get, TokenInv, SecretInv, NoRemoval, TypeOK,
     Remembered, Looking, Replaceable, TokensInHand, Unpublished, Resolves, InTheVault,
     Refs, NoRef, NoToken, Account, NoAccount
<1>4. CASE GetOS(p)
  BY <1>4, Parameters, SMTT(30) DEF GetOS, TokenInv, SecretInv, NoRemoval, TypeOK,
     Remembered, Looking, Replaceable, TokensInHand, Unpublished, Resolves, InTheVault,
     Refs, NoRef, NoToken, Account, NoAccount
<1>5. CASE GetMisses(p)
  <2>1. /\ pc[p] \in {"get", "getOS"} /\ UNCHANGED <<file, os, memory>>
        /\ entry' = [entry EXCEPT ![p] = IF NextEntry(p) = "get" THEN "account" ELSE @]
        /\ \A q \in Proc \ {p} : pc'[q] = pc[q]
        /\ pc'[p] \in {NextEntry(p), "set"}
    BY <1>5 DEF GetMisses, TokenInv, SecretInv, TypeOK
  <2>2. /\ entry[p] \in {memory[p].account.ref, "account"} /\ entry[p] \in Refs
        /\ entry[p] = "account" => InTheVault("account")
        /\ pc[p] = "getOS" => os[entry[p]] # NoToken \/ InTheVault("account")
    BY <2>1 DEF TokenInv, SecretInv, Looking, TokensInHand
  <2>3. /\ \A q \in Proc \ {p} : entry'[q] = entry[q]
        /\ entry'[p] = IF NextEntry(p) = "get" THEN "account" ELSE entry[p]
    BY <2>1 DEF TokenInv, SecretInv, TypeOK
  <2>4. ASSUME pc[p] = "get" PROVE os[entry[p]] # NoToken \/ InTheVault("account")
    <3>1. file[entry[p]] = NoToken
      BY <1>5, <2>4 DEF GetMisses
    <3>2. Resolves(memory[p].account)
      BY <2>1 DEF TokenInv, SecretInv, Replaceable
    <3>3. entry[p] # NoRef
      BY <2>2, Parameters DEF Refs, NoRef
    <3> QED
      BY <2>2, <3>1, <3>2, <3>3 DEF Resolves, InTheVault
  <2>5. NextEntry(p) = "get" => InTheVault("account")
    <3>1. CASE pc[p] = "get"
      <4>1. ~hybrid => os = Empty
        BY DEF TokenInv, FileOnly
      <4> QED
        BY <3>1, <4>1, <2>2, <2>4 DEF NextEntry, Empty
    <3>2. CASE pc[p] = "getOS"
      BY <1>5, <2>2, <3>2 DEF GetMisses
    <3> QED
      BY <2>1, <3>1, <3>2
  <2>6. NextEntry(p) \in {"getOS", "get", "missing"} /\ (NextEntry(p) = "getOS" => pc[p] = "get")
    BY DEF NextEntry
  <2>7. InTheVault("account")' = InTheVault("account")
    BY <2>1 DEF InTheVault
  <2> QED
    BY <2>1, <2>2, <2>3, <2>4, <2>5, <2>6, <2>7 DEF TokenInv, Looking
<1>6. CASE Promote(p)
  BY <1>6, Parameters, SMTT(30) DEF Promote, TokenInv, SecretInv, NoRemoval, TypeOK,
     Remembered, Looking, Replaceable, TokensInHand, Unpublished, Resolves, InTheVault,
     Refs, NoRef, NoToken, Account, NoAccount
<1>7. CASE Use(p)
  BY <1>7, Parameters, SMTT(30) DEF Use, TokenInv, SecretInv, NoRemoval, TypeOK,
     Remembered, Looking, Replaceable, TokensInHand, Unpublished, Resolves, InTheVault,
     Refs, NoRef, NoToken, Account, NoAccount
<1>8. CASE Refresh(p)
  BY <1>8, Parameters, SMTT(30) DEF Refresh, Remember, Plaintext, TokenInv, SecretInv,
     NoRemoval, TypeOK, Remembered, Looking, Replaceable, TokensInHand, Unpublished,
     Resolves, InTheVault, Refs, NoRef, NoToken, Account, NoAccount
<1>9. CASE StillValid(p)
  BY <1>9, Parameters, SMTT(30) DEF StillValid, TokenInv, SecretInv, NoRemoval, TypeOK,
     Remembered, Looking, Replaceable, TokensInHand, Unpublished, Resolves, InTheVault,
     Refs, NoRef, NoToken, Account, NoAccount
<1>10. CASE Harvest(p)
  BY <1>10, Parameters, SMTT(30) DEF Harvest, TokenInv, SecretInv, NoRemoval, TypeOK,
     Remembered, Looking, Replaceable, TokensInHand, Unpublished, Resolves, InTheVault,
     Refs, NoRef, NoToken, Account, NoAccount
<1>11. CASE Set(p)
  BY <1>11, Parameters, SMTT(30) DEF Set, Remember, InVault, Target, Replaced, TokenInv,
     SecretInv, NoRemoval, TypeOK, Remembered, Looking, Replaceable, TokensInHand,
     Unpublished, Resolves, InTheVault, Refs, NoRef, NoToken, Account, NoAccount
<1>12. CASE SetFails(p)
  BY <1>12, Parameters, SMTT(30) DEF SetFails, Remember, Plaintext, TokenInv, SecretInv,
     NoRemoval, TypeOK, Remembered, Looking, Replaceable, TokensInHand, Unpublished,
     Resolves, InTheVault, Refs, NoRef, NoToken, Account, NoAccount
<1>13. CASE SetOS(p)
  BY <1>13, Parameters, SMTT(30) DEF SetOS, Target, TokenInv, SecretInv, NoRemoval,
     TypeOK, Remembered, Looking, Replaceable, TokensInHand, Unpublished, Resolves,
     InTheVault, Refs, NoRef, NoToken, Account, NoAccount
<1>14. CASE Save(p)
  BY <1>14, Parameters, SMTT(30) DEF Save, Current, TokenInv, SecretInv, NoRemoval,
     TypeOK, Remembered, Looking, Replaceable, TokensInHand, Unpublished, Resolves,
     InTheVault, Refs, NoRef, NoToken, Account, NoAccount
<1>15. CASE SaveFails(p)
  BY <1>15, Parameters, SMTT(30) DEF SaveFails, TokenInv, SecretInv, NoRemoval, TypeOK,
     Remembered, Looking, Replaceable, TokensInHand, Unpublished, Resolves, InTheVault,
     Refs, NoRef, NoToken, Account, NoAccount
<1>16. CASE Interrupt(p)
  BY <1>16, Parameters, SMTT(30) DEF Interrupt, TokenInv, SecretInv, NoRemoval, TypeOK,
     Remembered, Looking, Replaceable, TokensInHand, Unpublished, Resolves, InTheVault,
     Refs, NoRef, NoToken, Account, NoAccount
<1>17. CASE Unstage(p)
  BY <1>17, Parameters, SMTT(30) DEF Unstage, TokenInv, SecretInv, NoRemoval, TypeOK,
     Remembered, Looking, Replaceable, TokensInHand, Unpublished, Resolves, InTheVault,
     Refs, NoRef, NoToken, Account, NoAccount
<1>18. CASE Delete(p)
  BY <1>18, Parameters, SMTT(30) DEF Delete, TokenInv, SecretInv, NoRemoval, TypeOK,
     Remembered, Looking, Replaceable, TokensInHand, Unpublished, Resolves, InTheVault,
     Refs, NoRef, NoToken, Account, NoAccount
<1>19. CASE DeleteOS(p)
  BY <1>19, Parameters, SMTT(30) DEF DeleteOS, TokenInv, SecretInv, NoRemoval, TypeOK,
     Remembered, Looking, Replaceable, TokensInHand, Unpublished, Resolves, InTheVault,
     Refs, NoRef, NoToken, Account, NoAccount
<1>20. CASE VaultFails(p)
  BY <1>20, Parameters, SMTT(30) DEF VaultFails, TokenInv, SecretInv, NoRemoval, TypeOK,
     Remembered, Looking, Replaceable, TokensInHand, Unpublished, Resolves, InTheVault,
     Refs, NoRef, NoToken, Account, NoAccount
<1>21. CASE Crash(p)
  BY <1>21, Parameters, SMTT(30) DEF Crash, TokenInv, SecretInv, NoRemoval, TypeOK,
     Remembered, Looking, Replaceable, TokensInHand, Unpublished, Resolves, InTheVault,
     Refs, NoRef, NoToken, Account, NoAccount
<1> QED
  BY <1>1, <1>2, <1>3, <1>4, <1>5, <1>6, <1>7, <1>8, <1>9, <1>10, <1>11, <1>12,
     <1>13, <1>14, <1>15, <1>16, <1>17, <1>18, <1>19, <1>20, <1>21 DEF Step

\* A vault that is a file stays one.
LEMMA FileOnlyStays ==
  ASSUME TokenInv, NoRemoval, hybrid' = hybrid, NEW p \in Proc, Step(p) \/ Crash(p)
  PROVE  FileOnly'
<1>1. CASE Start(p)
  BY <1>1, Parameters, SMTT(30) DEF Start, TokenInv, SecretInv, NoRemoval, TypeOK,
     FileOnly, Looking, Replaceable, TokensInHand, Refs, Empty, NoRef, NoToken, Account,
     NoAccount
<1>2. CASE Load(p)
  BY <1>2, Parameters, SMTT(30) DEF Load, AfterLoad, Reading, TokenInv, SecretInv,
     NoRemoval, TypeOK, FileOnly, Looking, Replaceable, TokensInHand, Refs, Empty,
     NoRef, NoToken, Account, NoAccount
<1>3. CASE Get(p)
  BY <1>3, Parameters, SMTT(30) DEF Get, TokenInv, SecretInv, NoRemoval, TypeOK,
     FileOnly, Looking, Replaceable, TokensInHand, Refs, Empty, NoRef, NoToken, Account,
     NoAccount
<1>4. CASE GetOS(p)
  BY <1>4, Parameters, SMTT(30) DEF GetOS, TokenInv, SecretInv, NoRemoval, TypeOK,
     FileOnly, Looking, Replaceable, TokensInHand, Refs, Empty, NoRef, NoToken, Account,
     NoAccount
<1>5. CASE GetMisses(p)
  BY <1>5, Parameters, SMTT(30) DEF GetMisses, NextEntry, TokenInv, SecretInv,
     NoRemoval, TypeOK, FileOnly, Looking, Replaceable, TokensInHand, Refs, Empty,
     NoRef, NoToken, Account, NoAccount
<1>6. CASE Promote(p)
  BY <1>6, Parameters, SMTT(30) DEF Promote, TokenInv, SecretInv, NoRemoval, TypeOK,
     FileOnly, Looking, Replaceable, TokensInHand, Refs, Empty, NoRef, NoToken, Account,
     NoAccount
<1>7. CASE Use(p)
  BY <1>7, Parameters, SMTT(30) DEF Use, TokenInv, SecretInv, NoRemoval, TypeOK,
     FileOnly, Looking, Replaceable, TokensInHand, Refs, Empty, NoRef, NoToken, Account,
     NoAccount
<1>8. CASE Refresh(p)
  BY <1>8, Parameters, SMTT(30) DEF Refresh, Remember, Plaintext, TokenInv, SecretInv,
     NoRemoval, TypeOK, FileOnly, Looking, Replaceable, TokensInHand, Refs, Empty,
     NoRef, NoToken, Account, NoAccount
<1>9. CASE StillValid(p)
  BY <1>9, Parameters, SMTT(30) DEF StillValid, TokenInv, SecretInv, NoRemoval, TypeOK,
     FileOnly, Looking, Replaceable, TokensInHand, Refs, Empty, NoRef, NoToken, Account,
     NoAccount
<1>10. CASE Harvest(p)
  BY <1>10, Parameters, SMTT(30) DEF Harvest, TokenInv, SecretInv, NoRemoval, TypeOK,
     FileOnly, Looking, Replaceable, TokensInHand, Refs, Empty, NoRef, NoToken, Account,
     NoAccount
<1>11. CASE Set(p)
  BY <1>11, Parameters, SMTT(30) DEF Set, Remember, InVault, Target, Replaced, TokenInv,
     SecretInv, NoRemoval, TypeOK, FileOnly, Looking, Replaceable, TokensInHand, Refs,
     Empty, NoRef, NoToken, Account, NoAccount
<1>12. CASE SetFails(p)
  BY <1>12, Parameters, SMTT(30) DEF SetFails, Remember, Plaintext, TokenInv, SecretInv,
     NoRemoval, TypeOK, FileOnly, Looking, Replaceable, TokensInHand, Refs, Empty,
     NoRef, NoToken, Account, NoAccount
<1>13. CASE SetOS(p)
  BY <1>13, Parameters, SMTT(30) DEF SetOS, Target, TokenInv, SecretInv, NoRemoval,
     TypeOK, FileOnly, Looking, Replaceable, TokensInHand, Refs, Empty, NoRef, NoToken,
     Account, NoAccount
<1>14. CASE Save(p)
  BY <1>14, Parameters, SMTT(30) DEF Save, Current, TokenInv, SecretInv, NoRemoval,
     TypeOK, FileOnly, Looking, Replaceable, TokensInHand, Refs, Empty, NoRef, NoToken,
     Account, NoAccount
<1>15. CASE SaveFails(p)
  BY <1>15, Parameters, SMTT(30) DEF SaveFails, TokenInv, SecretInv, NoRemoval, TypeOK,
     FileOnly, Looking, Replaceable, TokensInHand, Refs, Empty, NoRef, NoToken, Account,
     NoAccount
<1>16. CASE Interrupt(p)
  BY <1>16, Parameters, SMTT(30) DEF Interrupt, TokenInv, SecretInv, NoRemoval, TypeOK,
     FileOnly, Looking, Replaceable, TokensInHand, Refs, Empty, NoRef, NoToken, Account,
     NoAccount
<1>17. CASE Unstage(p)
  BY <1>17, Parameters, SMTT(30) DEF Unstage, TokenInv, SecretInv, NoRemoval, TypeOK,
     FileOnly, Looking, Replaceable, TokensInHand, Refs, Empty, NoRef, NoToken, Account,
     NoAccount
<1>18. CASE Delete(p)
  BY <1>18, Parameters, SMTT(30) DEF Delete, TokenInv, SecretInv, NoRemoval, TypeOK,
     FileOnly, Looking, Replaceable, TokensInHand, Refs, Empty, NoRef, NoToken, Account,
     NoAccount
<1>19. CASE DeleteOS(p)
  BY <1>19, Parameters, SMTT(30) DEF DeleteOS, TokenInv, SecretInv, NoRemoval, TypeOK,
     FileOnly, Looking, Replaceable, TokensInHand, Refs, Empty, NoRef, NoToken, Account,
     NoAccount
<1>20. CASE VaultFails(p)
  BY <1>20, Parameters, SMTT(30) DEF VaultFails, TokenInv, SecretInv, NoRemoval, TypeOK,
     FileOnly, Looking, Replaceable, TokensInHand, Refs, Empty, NoRef, NoToken, Account,
     NoAccount
<1>21. CASE Crash(p)
  BY <1>21, Parameters, SMTT(30) DEF Crash, TokenInv, SecretInv, NoRemoval, TypeOK,
     FileOnly, Looking, Replaceable, TokensInHand, Refs, Empty, NoRef, NoToken, Account,
     NoAccount
<1> QED
  BY <1>1, <1>2, <1>3, <1>4, <1>5, <1>6, <1>7, <1>8, <1>9, <1>10, <1>11, <1>12,
     <1>13, <1>14, <1>15, <1>16, <1>17, <1>18, <1>19, <1>20, <1>21 DEF Step

\* A step of one command leaves what the others have in hand.
LEMMA OthersStay ==
  ASSUME TokenInv, NEW p \in Proc, Step(p) \/ Crash(p), NEW q \in Proc, q # p
  PROVE  pc'[q] = pc[q] /\ memory'[q] = memory[q] /\ token'[q] = token[q]
<1> USE DEF TokenInv, SecretInv, TypeOK
<1>1. pc'[q] = pc[q]
  BY DEF Step, Crash, Start, Load, Get, GetOS, GetMisses, Promote, Use, Refresh, StillValid,
     Harvest, Set, SetFails, SetOS, Save, SaveFails, Interrupt, Unstage, Delete, DeleteOS,
     VaultFails
<1>2. memory'[q] = memory[q]
  BY DEF Step, Crash, Start, Load, Get, GetOS, GetMisses, Promote, Use, Refresh, StillValid,
     Harvest, Set, SetFails, SetOS, Save, SaveFails, Interrupt, Unstage, Delete, DeleteOS,
     VaultFails, Remember
<1>3. token'[q] = token[q]
  BY DEF Step, Crash, Start, Load, Get, GetOS, GetMisses, Promote, Use, Refresh, StillValid,
     Harvest, Set, SetFails, SetOS, Save, SaveFails, Interrupt, Unstage, Delete, DeleteOS,
     VaultFails
<1> QED
  BY <1>1, <1>2, <1>3

\* The entry an import has written keeps its token until the import is saved.
LEMMA OwnEntryStays ==
  ASSUME TokenInv, NoRemoval, NEW p \in Proc, Step(p) \/ Crash(p), hybrid' = hybrid, ~hybrid,
         NEW q \in Proc, pc'[q] = "save", role'[q] = "import", memory'[q].account.ref = q
  PROVE  file'[q] = token'[q]
<1> USE Parameters DEF TokenInv, SecretInv, TypeOK, Refs
<1>1. CASE pc[q] = "save" /\ memory[q].account.ref = q /\ role[q] = "import" /\ token'[q] = token[q]
  <2>1. file[q] = token[q] /\ \A x \in Proc : entry[x] # q
    BY <1>1 DEF LastWriterSaves, Unpublished
  <2>2. file'[q] = file[q]
    BY <1>1, <2>1 DEF Step, Crash, Start, Load, Get, GetOS, GetMisses, Promote, Use, Refresh,
       StillValid, Harvest, Set, SetFails, SetOS, Save, SaveFails, Interrupt, Unstage, Delete,
       DeleteOS, VaultFails, Target
  <2> QED
    BY <1>1, <2>1, <2>2
<1>2. CASE Set(p) /\ q = p
  BY <1>2 DEF Set, Target
<1>3. \/ Set(p) /\ q = p
      \/ /\ pc[q] = "save" /\ memory[q].account.ref = q /\ role[q] = "import"
         /\ token'[q] = token[q]
  <2> USE DEF NoRef, NoToken
  <2>1. role' = role
    BY RoleStays
  <2>2. CASE q # p
    <3>1. pc'[q] = pc[q] /\ memory'[q] = memory[q] /\ token'[q] = token[q]
      BY <2>2, OthersStay
    <3> QED
      BY <2>1, <3>1
  <2>3. CASE q = p
    <3> USE <2>3
    <3>1. CASE Start(p) \/ Get(p) \/ GetOS(p) \/ Use(p) \/ Save(p) \/ SaveFails(p) \/ Interrupt(p)
               \/ Unstage(p) \/ Delete(p) \/ DeleteOS(p) \/ Crash(p)
      BY <3>1 DEF Start, Get, GetOS, Use, Save, SaveFails, Interrupt, Unstage, Delete,
         DeleteOS, Crash
    <3>2. CASE Load(p)
      BY <2>1, <3>2 DEF Load, AfterLoad
    <3>3. CASE GetMisses(p) \/ Promote(p) \/ Refresh(p) \/ Harvest(p)
      BY <3>3 DEF GetMisses, NextEntry, Promote, Refresh, Harvest
    <3>4. CASE StillValid(p)
      BY <2>1, <3>4 DEF StillValid
    <3>5. CASE SetFails(p)
      BY <3>5 DEF SetFails, Remember, Plaintext
    <3>6. CASE SetOS(p) \/ VaultFails(p)
      BY <3>6 DEF SetOS, VaultFails, FileOnly
    <3> QED
      BY <3>1, <3>2, <3>3, <3>4, <3>5, <3>6 DEF Step
  <2> QED
    BY <2>2, <2>3
<1> QED
  BY <1>1, <1>2, <1>3

\* A command that is doomed stays so.
LEMMA DoomedStays ==
  ASSUME TokenInv, NoRemoval, NEW p \in Proc, Step(p) \/ Crash(p), NEW q \in Proc, Doomed(q)
  PROVE  Doomed(q)'
<1>1. memory[q].revision \in Nat /\ revision \in Nat /\ memory[q].revision <= revision
  BY DEF TokenInv, SecretInv, TypeOK, Seen
<1>2. revision' \in {revision, revision + 1}
  BY DEF Step, Crash, Start, Load, Get, GetOS, GetMisses, Promote, Use, Refresh,
     StillValid, Harvest, Set, SetFails, SetOS, Save, SaveFails, Interrupt, Unstage, Delete,
     DeleteOS, VaultFails
<1>3. pc[q] \in {"set", "setOS", "save"} => memory'[q].revision = memory[q].revision
  <2> USE DEF TokenInv, SecretInv, TypeOK
  <2>1. CASE Load(p)
    BY <2>1 DEF Load
  <2>2. CASE Refresh(p) \/ Set(p) \/ SetFails(p)
    BY <2>2 DEF Refresh, Set, SetFails, Remember
  <2>3. CASE memory' = memory
    BY <2>3
  <2> QED
    BY <2>1, <2>2, <2>3 DEF Step, Crash, Start, Get, GetOS, GetMisses, Promote, Use,
       StillValid,
       Harvest, SetOS, Save, SaveFails, Interrupt, Unstage, Delete, DeleteOS, VaultFails
<1>4. CASE q # p
  <2>1. pc'[q] = pc[q]
    BY <1>4, OthersStay
  <2> QED
    BY <1>1, <1>2, <1>3, <2>1 DEF Doomed, Current
<1>5. CASE q = p
  <2>1. pc[p] \notin {"failed", "crashed", "missing"}
    BY DEF Step, Crash, Start, Load, Get, GetOS, GetMisses, Promote, Use, Refresh,
       StillValid, Harvest, Set, SetFails, SetOS, Save, SaveFails, Interrupt, Unstage, Delete,
       DeleteOS, VaultFails, Final
  <2>2. CASE pc[p] = "unstage"
    <3>1. Unstage(p) \/ Crash(p)
      BY <2>2 DEF Step, Start, Load, Get, GetOS, GetMisses, Promote, Use, Refresh, StillValid,
         Harvest, Set, SetFails, SetOS, Save, SaveFails, Interrupt, Delete, DeleteOS, VaultFails
    <3>2. pc'[p] \in {"failed", "crashed"}
      BY <3>1 DEF TokenInv, SecretInv, TypeOK, Unstage, Crash
    <3> QED
      BY <1>5, <3>2 DEF Doomed
  <2>3. CASE pc[p] \in {"set", "setOS", "save"} /\ ~Current(p)
    <3>1. pc'[p] \in {"set", "setOS", "save", "unstage", "failed", "crashed"}
      BY <2>3 DEF TokenInv, SecretInv, TypeOK, Step, Crash, Start, Load, Get, GetOS, GetMisses,
         Promote, Use, Refresh, StillValid, Harvest, Set, SetFails, SetOS, Save, SaveFails,
         Interrupt, Unstage, Delete, DeleteOS, VaultFails
    <3> QED
      BY <1>1, <1>2, <1>3, <1>5, <2>3, <3>1 DEF Doomed, Current
  <2> QED
    BY <1>5, <2>1, <2>2, <2>3 DEF Doomed
<1> QED
  BY <1>4, <1>5

\* A save dooms all the other commands that are about to save.
LEMMA OneSaves ==
  ASSUME TokenInv, NoRemoval, NEW p \in Proc, Save(p), ~hybrid,
         \A q \in Proc : ~Doomed(q) /\ ~Doomed(q)'
  PROVE  TokenOf(account)' = acked' /\ \A q \in Proc : ~Written(q)'
<1>1. /\ pc[p] = "save" /\ Current(p) /\ account' = memory[p].account /\ revision' = revision + 1
      /\ acked' = CASE role[p] = "remove" -> NoToken [] token[p] = NoToken -> acked
                    [] OTHER -> token[p]
      /\ UNCHANGED <<file, os, memory, token, role>>
      /\ pc'[p] \in {"done", "delete"} /\ \A q \in Proc \ {p} : pc'[q] = pc[q]
  BY DEF Save, TokenInv, SecretInv, TypeOK
<1>2. role[p] # "remove"
  BY DEF NoRemoval
<1>3. \A q \in Proc \ {p} : pc[q] \notin {"set", "setOS", "save"}
  <2> SUFFICES ASSUME NEW q \in Proc \ {p}, pc[q] \in {"set", "setOS", "save"} PROVE FALSE
    OBVIOUS
  <2>1. memory[q].revision <= revision /\ memory[q].revision \in Nat /\ revision \in Nat
    BY DEF TokenInv, SecretInv, TypeOK, Seen
  <2>2. ~(memory'[q].revision = revision')
    BY <1>1, <2>1
  <2> QED
    BY <1>1, <2>2 DEF Doomed, Current
<1>4. \A q \in Proc \ {p} : ~Written(q)
  BY <1>3 DEF Written
<1>5. TokenOf(account)' = acked'
  <2>1. CASE token[p] = NoToken /\ memory[p].account = account
    <3>1. ~Written(p)
      BY <2>1 DEF Written
    <3>2. TokenOf(account) = acked
      BY <1>4, <3>1 DEF TokenInv, LastWriterSaves
    <3> QED
      BY <1>1, <1>2, <2>1, <3>2 DEF TokenOf, Held
  <2>2. CASE token[p] # NoToken /\ memory[p].account = Plaintext(token[p])
    BY <1>1, <1>2, <2>2 DEF TokenOf, Plaintext
  <2>3. CASE token[p] # NoToken /\ memory[p].account = InVault(Target(p))
    <3>1. account'.ref = Target(p) /\ Target(p) \in Refs
      BY <1>1, <2>3 DEF InVault, Target, Refs
    <3>2. file[Target(p)] = token[p]
      <4>1. CASE role[p] = "import"
        BY <1>1, <2>3, <4>1 DEF TokenInv, LastWriterSaves, Target, InVault
      <4>2. CASE role[p] # "import"
        BY <1>1, <1>4, <2>3, <4>2 DEF TokenInv, LastWriterSaves, Target, Written
      <4> QED
        BY <4>1, <4>2
    <3>3. Target(p) # NoRef
      BY Parameters, <3>1 DEF Refs, NoRef
    <3> QED
      BY <1>1, <1>2, <2>3, <3>1, <3>2, <3>3 DEF TokenOf, Held
  <2> QED
    BY <1>1, <2>1, <2>2, <2>3 DEF TokenInv, Remembered
<1> QED
  BY <1>1, <1>3, <1>5 DEF Written

\* Two commands that have written the account's entry: the later token is in it.
LEMMA TwoWrite ==
  ASSUME TokenInv, NoRemoval, NEW p \in Proc, Set(p), ~hybrid,
         (\A q \in Proc : ~Written(q)) => TokenOf(account) = acked,
         \A q \in Proc : Written(q) =>
           file["account"] = token[q] \/ \E r \in Proc \ {q} : Written(r)
  PROVE  /\ (\A q \in Proc : ~Written(q)') => TokenOf(account)' = acked'
         /\ \A q \in Proc : Written(q)' =>
              file'["account"] = token'[q] \/ \E r \in Proc \ {q} : Written(r)'
<1>1. /\ pc[p] = "set" /\ file' = [file EXCEPT ![Target(p)] = token[p]]
      /\ UNCHANGED <<os, account, acked, role, token>>
      /\ pc'[p] = "save" /\ \A q \in Proc \ {p} : pc'[q] = pc[q]
      /\ token[p] # NoToken
  BY DEF Set, TokenInv, SecretInv, TypeOK, TokensInHand
<1>2. memory'[p].account = InVault(Target(p)) /\ \A q \in Proc \ {p} : memory'[q] = memory[q]
  BY DEF Set, Remember, TokenInv, SecretInv, TypeOK
<1>3. \A q \in Proc \ {p} : Written(q)' <=> Written(q)
  BY <1>1, <1>2 DEF Written
<1>4. CASE role[p] # "import"
  <2>1. Written(p)' /\ file'["account"] = token[p]
    BY <1>1, <1>2, <1>4 DEF Written, Target, TokenInv, SecretInv, TypeOK, Refs
  <2> QED
    BY <1>1, <2>1
<1>5. CASE role[p] = "import"
  <2>1. Target(p) = p /\ p # "account" /\ account.ref # p
    BY <1>1, <1>5, Parameters DEF Target, TokenInv, SecretInv, Unpublished
  <2>2. ~Written(p) /\ ~Written(p)'
    BY <1>1, <1>2, <2>1 DEF Written, InVault
  <2>3. file'["account"] = file["account"] /\ file'[account.ref] = file[account.ref]
    BY <1>1, <2>1 DEF TokenInv, SecretInv, TypeOK
  <2>4. TokenOf(account)' = TokenOf(account)
    BY <1>1, <2>3 DEF TokenOf, Held
  <2> QED
    BY <1>1, <1>3, <2>2, <2>3, <2>4
<1> QED
  BY <1>4, <1>5

\* No other step of a command that can still end as done moves the token.
LEMMA OthersMoveNothing ==
  ASSUME TokenInv, NoRemoval, NEW p \in Proc, Step(p) \/ Crash(p), ~Save(p), ~Set(p), ~hybrid,
         ~Doomed(p)'
  PROVE  /\ account' = account /\ acked' = acked /\ UNCHANGED os
         /\ \A q \in Proc : (Written(q)' <=> Written(q)) /\ (Written(q) => token'[q] = token[q])
         /\ file'["account"] = file["account"]
         /\ account.ref # NoRef => file'[account.ref] = file[account.ref]
<1> USE Parameters DEF TokenInv, SecretInv, TypeOK, NoToken, NoRef
<1>1. CASE Start(p) \/ Get(p) \/ GetMisses(p) \/ Use(p) \/ Harvest(p)
  BY <1>1 DEF Start, Get, GetMisses, NextEntry, Use, Harvest, Written
<1>2. CASE Load(p)
  BY <1>2 DEF Load, AfterLoad, Reading, Written, NoRemoval, AllRoles
<1>3. CASE Refresh(p)
  BY <1>3 DEF Refresh, Remember, Written
<1>4. CASE StillValid(p)
  BY <1>4 DEF StillValid, Remembered, Written
<1>5. CASE SetFails(p)
  BY <1>5 DEF SetFails, Remember, Plaintext, InVault, Written
<1>6. CASE Delete(p)
  BY <1>6 DEF Delete, Replaceable, Referred, TokensInHand, Refs, Written
<1>7. CASE GetOS(p) \/ Promote(p) \/ SetOS(p) \/ DeleteOS(p)
  BY <1>7 DEF GetOS, Promote, SetOS, DeleteOS, FileOnly
<1>8. CASE SaveFails(p) \/ Interrupt(p) \/ Unstage(p) \/ Crash(p)
  BY <1>8 DEF SaveFails, Interrupt, Unstage, Crash, Doomed
<1>9. CASE VaultFails(p)
  BY <1>9 DEF VaultFails, FileOnly, Written
<1> QED
  BY <1>1, <1>2, <1>3, <1>4, <1>5, <1>6, <1>7, <1>8, <1>9 DEF Step

\* The token of the last save is found, or the next save puts its own there.
LEMMA LastWriterSavesStays ==
  ASSUME TokenInv, NoRemoval, NEW p \in Proc, Step(p) \/ Crash(p), hybrid' = hybrid
  PROVE  LastWriterSaves'
<1>1. ASSUME ~hybrid, NEW q \in Proc, pc'[q] = "save", role'[q] = "import", memory'[q].account.ref = q
      PROVE  file'[q] = token'[q]
  BY <1>1, OwnEntryStays
<1>2. ASSUME ~hybrid, \A q \in Proc : ~Doomed(q)'
      PROVE  /\ (\A q \in Proc : ~Written(q)') => TokenOf(account)' = acked'
             /\ \A q \in Proc : Written(q)' =>
                  file'["account"] = token'[q] \/ \E r \in Proc \ {q} : Written(r)'
  <2>1. \A q \in Proc : ~Doomed(q)
    BY <1>2, DoomedStays
  <2>2. /\ (\A q \in Proc : ~Written(q)) => TokenOf(account) = acked
        /\ \A q \in Proc : Written(q) =>
             file["account"] = token[q] \/ \E r \in Proc \ {q} : Written(r)
    BY <1>2, <2>1 DEF TokenInv, LastWriterSaves
  <2>3. CASE Save(p)
    BY <1>2, <2>1, <2>3, OneSaves
  <2>4. CASE Set(p)
    BY <1>2, <2>2, <2>4, TwoWrite
  <2>5. CASE ~Save(p) /\ ~Set(p)
    <3>1. /\ account' = account /\ acked' = acked /\ UNCHANGED os
          /\ \A q \in Proc : (Written(q)' <=> Written(q)) /\ (Written(q) => token'[q] = token[q])
          /\ file'["account"] = file["account"]
          /\ account.ref # NoRef => file'[account.ref] = file[account.ref]
      BY <1>2, <2>5, OthersMoveNothing
    <3>2. TokenOf(account)' = TokenOf(account)
      BY <3>1 DEF TokenOf, Held
    <3> QED
      BY <2>2, <3>1, <3>2
  <2> QED
    BY <2>3, <2>4, <2>5
<1> QED
  BY <1>1, <1>2 DEF LastWriterSaves

-----------------------------------------------------------------------------
\* At the start no command has anything in memory.
LEMMA InitRemovalInv == Init => RemovalInv
<1>1. Init => Seen
  BY DEF Init, Seen
<1> QED
  BY <1>1, InitSecretInv DEF RemovalInv, SecretInv

LEMMA InitTokenInv == Init => TokenInv
<1> SUFFICES ASSUME Init PROVE TokenInv
  OBVIOUS
<1>1. SecretInv /\ Seen
  BY InitSecretInv, InitRemovalInv DEF RemovalInv
<1>2. Remembered /\ Looking
  BY DEF Init, Remembered, Looking
<1>3. Referred
  BY Parameters DEF Init, Referred, Held, InVault, Plaintext, NoAccount, Empty, With, Refs,
     NoRef,
     NoToken
<1>4. FileOnly
  BY DEF Init, FileOnly
<1>5. LastWriterSaves
  <2>1. ~hybrid => TokenOf(account) = acked
    BY Parameters DEF Init, TokenOf, Held, InVault, Plaintext, NoAccount, Empty, With, Refs,
       NoRef,
       NoToken
  <2>2. \A p \in Proc : pc[p] = "start"
    BY DEF Init
  <2> QED
    BY <2>1, <2>2 DEF LastWriterSaves, Written
<1> QED
  BY <1>1, <1>2, <1>3, <1>4, <1>5 DEF TokenInv

\* No step breaks them.
LEMMA NextRemovalInv == RemovalInv /\ [Next]_vars => RemovalInv'
<1> SUFFICES ASSUME RemovalInv, [Next]_vars PROVE RemovalInv'
  OBVIOUS
<1>1. ASSUME NEW p \in Proc, Step(p) \/ Crash(p) PROVE RemovalInv'
  BY <1>1, TypeOKStays, TokensStayInHand, SeenStays DEF RemovalInv
<1>2. CASE UNCHANGED vars
  BY <1>2 DEF RemovalInv, vars, TypeOK, TokensInHand, Seen, Current
<1> QED
  BY <1>1, <1>2 DEF Next, AllEnded

LEMMA NextTokenInv ==
  (NoRemoval => TokenInv) /\ [Next]_vars => (NoRemoval => TokenInv)'
<1> SUFFICES ASSUME NoRemoval => TokenInv, [Next]_vars, NoRemoval' PROVE TokenInv'
  OBVIOUS
<1>1. NoRemoval /\ TokenInv
  BY RolesStay DEF NoRemoval
<1>2. SecretInv'
  BY <1>1, NextSecretInv DEF TokenInv
<1>3. ASSUME NEW p \in Proc, Step(p) \/ Crash(p), hybrid' = hybrid PROVE TokenInv'
  <2>1. Seen'
    BY <1>1, <1>3, SeenStays DEF TokenInv, SecretInv
  <2> QED
    BY <1>1, <1>2, <1>3, <2>1, RememberedStays, ReferredStays, LookingStays, FileOnlyStays,
       LastWriterSavesStays DEF TokenInv
<1>4. CASE UNCHANGED vars
  <2> USE <1>1, <1>4 DEF vars, TokenInv
  <2>1. Seen' /\ Remembered' /\ Looking'
    BY DEF Seen, Remembered, Looking, Current, Target, InTheVault
  <2>2. Referred' /\ FileOnly'
    BY DEF Referred, FileOnly, Held
  <2>3. LastWriterSaves'
    BY DEF LastWriterSaves, Doomed, Written, Current, TokenOf, Held
  <2> QED
    BY <1>2, <2>1, <2>2, <2>3
<1> QED
  BY <1>3, <1>4 DEF Next, AllEnded

LEMMA RemovalInvariant == Spec => []RemovalInv
  BY InitRemovalInv, NextRemovalInv, PTL DEF Spec

LEMMA TokenInvariant == Spec => [](NoRemoval => TokenInv)
  BY InitTokenInv, NextTokenInv, PTL DEF Spec

-----------------------------------------------------------------------------

\* Every variable has its type, whether or not the account is removed.
THEOREM TypesAreKept == Spec => []TypeOK
<1>1. RemovalInv => TypeOK
  BY DEF RemovalInv
<1> QED
  BY <1>1, RemovalInvariant, PTL

\* A removed account comes back only through a login, a token import or a
\* backup: every other command found the account when it loaded the accounts,
\* and its save fails when they have changed since (Store.Save, the revision).
THEOREM RemovedAccountsStayAway == Spec => RemovedStaysRemoved
<1>1. ASSUME RemovalInv, [Next]_vars, account = NoAccount, account' # NoAccount
      PROVE  \E p \in Proc : pc[p] = "save" /\ pc'[p] # "save" /\ role[p] \in {"add", "import"}
  <2>1. PICK p \in Proc : Step(p) \/ Crash(p)
    BY <1>1 DEF Next, AllEnded, vars
  <2>2. Save(p)
    BY <1>1, <2>1 DEF Step, Crash, Start, Load, Get, GetOS, GetMisses, Promote, Use, Refresh,
       StillValid, Harvest, Set, SetFails, SetOS, SaveFails, Interrupt, Unstage, Delete,
       DeleteOS, VaultFails
  <2>3. pc[p] = "save" /\ pc'[p] # "save" /\ Current(p) /\ account' = memory[p].account
    BY <1>1, <2>2 DEF Save, RemovalInv, TypeOK
  <2> QED
    BY <1>1, <2>3 DEF RemovalInv, Seen
<1>2. RemovalInv /\ [Next]_vars =>
        [account = NoAccount /\ account' # NoAccount =>
           \E p \in Proc : pc[p] = "save" /\ pc'[p] # "save" /\ role[p] \in {"add", "import"}]_vars
  BY <1>1
<1> QED
  BY <1>2, RemovalInvariant, PTL DEF Spec, RemovedStaysRemoved

\* A vault entry does not lose its token while the saved account refers to it.
LEMMA EntryStays ==
  ASSUME TokenInv, NoRemoval, NEW p \in Proc, Step(p) \/ Crash(p),
         NEW r \in Refs, account.ref = r, Held(r) # NoToken
  PROVE  Held(r)' # NoToken
<1> USE DEF TokenInv, SecretInv, TypeOK
<1>1. CASE Promote(p)
  BY <1>1 DEF Promote, TokensInHand, Held
<1>2. CASE Set(p)
  BY <1>2 DEF Set, TokensInHand, Held
<1>3. CASE SetOS(p)
  BY <1>3 DEF SetOS, Replaceable, Held
<1>4. CASE Unstage(p)
  BY <1>4 DEF Unstage, Replaceable, Unpublished, Held
<1>5. CASE Delete(p)
  BY <1>5 DEF Delete, Referred, Held
<1>6. CASE DeleteOS(p)
  BY <1>6 DEF DeleteOS, Referred, Held
<1>7. CASE UNCHANGED vault
  BY <1>7 DEF Held
<1> QED
  BY <1>1, <1>2, <1>3, <1>4, <1>5, <1>6, <1>7 DEF Step, Crash, Start, Load, Get, GetOS,
     GetMisses, Use, Refresh, StillValid, Harvest, SetFails, Save, SaveFails, Interrupt, VaultFails

\* However commands that save tokens overtake each other: the entry the saved
\* account refers to keeps its token; only an entry that a completed save has
\* replaced is deleted (deleteReplacedSecrets).
THEOREM ReferredEntriesStay == Spec => ReferredEntryStays
<1>1. ASSUME NoRemoval => TokenInv, [Next]_vars, NEW r \in Refs, NoRemoval, account.ref = r,
             Held(r) # NoToken
      PROVE  Held(r)' # NoToken
  BY <1>1, EntryStays DEF Next, AllEnded, vars, Held
<1>2. (NoRemoval => TokenInv) /\ [Next]_vars =>
        [\A r \in Refs : NoRemoval /\ account.ref = r /\ Held(r) # NoToken
           => Held(r)' # NoToken]_vars
  BY <1>1
<1> QED
  BY <1>2, TokenInvariant, PTL DEF Spec, ReferredEntryStays

\* A command that has loaded the account finds its token in the vault file: if
\* its entry has been replaced meanwhile, the one named after the account is
\* there (accountToken).
THEOREM ReadersAlwaysFind == Spec => []ReadersFindToken
<1>1. Init => ReadersFindToken
  BY DEF Init, ReadersFindToken
<1>2. ASSUME NoRemoval => TokenInv, ReadersFindToken, [Next]_vars PROVE ReadersFindToken'
  <2> SUFFICES ASSUME NoRemoval', ~hybrid', NEW q \in Proc, pc'[q] = "missing" PROVE FALSE
    BY DEF ReadersFindToken
  <2>1. NoRemoval /\ TokenInv /\ hybrid' = hybrid
    BY <1>2, RolesStay DEF NoRemoval, Next, AllEnded, vars
  <2>2. pc[q] # "missing"
    BY <1>2, <2>1 DEF ReadersFindToken
  <2>3. PICK p \in Proc : Step(p) \/ Crash(p)
    BY <1>2, <2>2 DEF Next, AllEnded, vars
  <2>4. p = q
    BY <2>1, <2>2, <2>3, OthersStay
  <2> USE <2>1 DEF TokenInv, SecretInv, TypeOK
  <2>5. GetMisses(p) /\ NextEntry(p) = "missing"
    <3>1. CASE Load(p)
      BY <2>4, <3>1 DEF Load, AfterLoad
    <3>2. CASE GetMisses(p)
      BY <2>4, <3>2 DEF GetMisses
    <3>3. CASE ~Load(p) /\ ~GetMisses(p)
      BY <2>3, <2>4, <3>3 DEF Step, Crash, Start, Get, GetOS, Promote, Use, Refresh,
         StillValid,
         Harvest, Set, SetFails, SetOS, Save, SaveFails, Interrupt, Unstage, Delete, DeleteOS,
         VaultFails
    <3> QED
      BY <3>1, <3>2, <3>3
  <2>6. pc[p] = "get" /\ file[entry[p]] = NoToken
    BY <2>5 DEF GetMisses, FileOnly
  <2>7. entry[p] = "account"
    BY <2>5, <2>6 DEF NextEntry
  <2>8. InTheVault("account") /\ os = Empty
    BY <2>6, <2>7 DEF Looking, FileOnly
  <2> QED
    BY <2>6, <2>7, <2>8 DEF InTheVault, Empty, Refs
<1> QED
  BY <1>1, <1>2, TokenInvariant, PTL DEF Spec

\* When every command has ended well, a reader finds the token of the last save
\* that was reported as done: two commands that both wrote the entry of the
\* account cannot both save (saveAccountSecret, Store.Save).
THEOREM LastSaveWins == Spec => []LastSavedTokenWins
<1>1. (NoRemoval => TokenInv) => LastSavedTokenWins
  BY DEF TokenInv, LastWriterSaves, LastSavedTokenWins, Doomed, Written
<1> QED
  BY <1>1, TokenInvariant, PTL
=============================================================================
